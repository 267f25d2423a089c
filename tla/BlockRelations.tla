---------------------------- MODULE BlockRelations ----------------------------
(***************************************************************************)
(* What the formulas of an analysis with blocks stand for: the formula of a   *)
(* block for a relation between the data where the block starts and where it  *)
(* ends; a summary or a predicate for a set of data.                         *)
(***************************************************************************)
CONSTANT Values            \* the data of a program

Identity == {<<v, v>> : v \in Values}
Image(r, S) == {v \in Values : \E u \in S : <<u, v>> \in r}
Origins(r, S) == {u \in Values : \E v \in S : <<u, v>> \in r}
Compose(r, s) == {q \in Values \X Values : \E v \in Values : <<q[1], v>> \in r /\ <<v, q[2]>> \in s}
Diagonal(r) == {v \in Values : <<v, v>> \in r}

(* BooleanPredicateAbstraction: the strongest combination of the predicates   *)
(* that S implies.                                                           *)
Strongest(S, predicates) == {v \in Values : \E u \in S : \A p \in predicates : v \in p <=> u \in p}
=============================================================================
