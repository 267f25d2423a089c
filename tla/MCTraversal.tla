----------------------------- MODULE MCTraversal -----------------------------
(***************************************************************************)
(* Programs without loops for TraversalOrder: the script has locations from 1 *)
(* to 9, the methods from 11 and from 21 on.                                  *)
(***************************************************************************)
EXTENDS TraversalOrder, TLC

Step(l)    == [kind |-> "step", to |-> l, callee |-> NoLoc]
Call(m, l) == [kind |-> "call", to |-> l, callee |-> m]
Return     == [kind |-> "return", to |-> NoLoc, callee |-> NoLoc]

(* A branch and a meet; a call. *)
Method == (11 :> {Step(12), Step(13)}) @@ (12 :> {Step(14)}) @@ (13 :> {Step(14)}) @@ (14 :> {Return})
Nested == (21 :> {Step(22), Step(23)}) @@ (22 :> {Call(11, 23)}) @@ (23 :> {Return})

(* A call on one way to a call of the same method; different methods on two   *)
(* ways that meet; the same method on two ways, one of them longer; two       *)
(* branches one after the other, with a call in each.                         *)
Scripts == {
  (1 :> {Step(2), Step(3)}) @@ (2 :> {Call(11, 4)}) @@ (3 :> {Step(4)}) @@ (4 :> {Call(11, 5)})
    @@ (5 :> {}),
  (1 :> {Step(2), Step(3)}) @@ (2 :> {Call(11, 4)}) @@ (3 :> {Call(21, 4)}) @@ (4 :> {Call(21, 5)})
    @@ (5 :> {}),
  (1 :> {Step(2), Step(3)}) @@ (2 :> {Call(11, 4)}) @@ (3 :> {Step(6)}) @@ (6 :> {Call(11, 4)})
    @@ (4 :> {}),
  (1 :> {Step(2), Step(3)}) @@ (2 :> {Call(21, 4)}) @@ (3 :> {Step(4)}) @@ (4 :> {Step(5), Step(6)})
    @@ (5 :> {Call(11, 7)}) @@ (6 :> {Call(21, 7)}) @@ (7 :> {})}

Relation(l) == l \div 10
Follow(steps, l) == {s.to : s \in {u \in steps[l] : u.kind # "return"}}

(* The wait-at-meet numbers of a relation: any topological order.             *)
Numberings(steps, r) ==
  LET locs    == {l \in DOMAIN steps : Relation(l) = r}
      Rank(l) == Cardinality({k \in locs : k <= l})
      orders  == {p \in Permutations(locs) :
                    \A k \in locs : \A l \in Follow(steps, k) : p[k] < p[l]}
  IN {[l \in locs |-> Rank(p[l])] : p \in orders}

Activator(at, loops, calls, wam) ==
  {[at |-> at, spec |-> FALSE, loops |-> loops, calls |-> calls, wam |-> wam]}
Activators == {
  {{}},                                                      \* the bootstrapper
  {Activator(31, 0, 0, 1), Activator(32, 0, 0, 2)},          \* it is at one location or another,
  {Activator(32, 0, 1, 2), Activator(42, 0, 1, 2)},          \* in one method or another,
  {Activator(31, 1, 0, 1), Activator(33, 0, 0, 3)}}          \* in a loop or after it

Programs ==
  UNION {
    LET steps == script @@ Method @@ Nested
    IN {[steps |-> steps, wam |-> f @@ g @@ h, entry |-> 1, activators |-> a, spec |-> FALSE, length |-> 20] :
          f \in Numberings(steps, 0), g \in Numberings(steps, 1), h \in Numberings(steps, 2),
          a \in Activators} : script \in Scripts}
=============================================================================
