------------------------------ MODULE MCEncoding ------------------------------
(***************************************************************************)
(* An instance of Encoding for the model checking: two Boolean variables.     *)
(***************************************************************************)
EXTENDS Encoding

CONSTANTS a, b

Bits == {0, 1}

Sets(v, Value(_)) == [variable |-> v, value |-> [s \in Stores |-> Value(s)]]

(* a := (a # b) *)
Operations == {Sets(a, LAMBDA s : IF s[a] = s[b] THEN 0 ELSE 1)}

Tests == {{s \in Stores : s[a] = s[b]}}

Predicates == {{{s \in Stores : s[a] = s[b]}, {s \in Stores : s[b] = 1}}}
=============================================================================
