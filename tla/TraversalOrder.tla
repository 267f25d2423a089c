---------------------------- MODULE TraversalOrder ----------------------------
(***************************************************************************)
(* The order in which the states that one thread leads to are expanded: keys  *)
(* of numbers and keys (LexiKey), computed from the stepped thread and the    *)
(* one that activated it (ControlAnalysis), ties broken by age (GraphAnalysis);*)
(* and the keys of the partitions of the frontier (DifferencingFrontierSet).  *)
(* Loops are left out: where a thread is, is its location and its call stack. *)
(***************************************************************************)
EXTENDS Integers, Sequences, FiniteSetsExt

R == INSTANCE TransitionRelations

CONSTANTS Tasks, Self     \* programs; the index of the thread that is stepped

VARIABLES
  task,      \* a method or script: its steps, wait-at-meet numbers, who may activate it
  waiting,   \* the states of the frontier
  parts,     \* the keys of the partitions that the frontier has heard of
  count      \* the number of states created

vars == <<task, waiting, parts, count>>

-----------------------------------------------------------------------------
(* Keys. *)

THIS_LARGER    == -1
OTHER_LARGER   == 1
NEITHER_LARGER == 0

CompareNumbers(a, b) ==
  IF b > a THEN OTHER_LARGER ELSE IF a > b THEN THIS_LARGER ELSE NEITHER_LARGER

(* compareTo: the first place that decides, the end of the other key included;*)
(* then a shorter key is the larger one.  The elements are compared already.  *)
CompareTo(elements, this, other) ==
  LET decides == {i \in DOMAIN this : i > Len(other) \/ elements[i] # NEITHER_LARGER}
      first   == Min(decides)
  IN IF decides # {} THEN IF first > Len(other) THEN THIS_LARGER ELSE elements[first]
     ELSE IF Len(this) < Len(other) THEN THIS_LARGER ELSE NEITHER_LARGER

CompareFlat(a, b) ==
  CompareTo([i \in DOMAIN a \cap DOMAIN b |-> CompareNumbers(a[i], b[i])], a, b)
CompareKeys(a, b) ==
  CompareTo([i \in DOMAIN a \cap DOMAIN b |-> CompareFlat(a[i], b[i])], a, b)

(* Mutant: the call stack comes after the location. *)
ThreadKeyMutantCallsLast(th) == <<IF th.spec THEN 1 ELSE 0, -th.loops, -th.wam, th.calls>>

(* getThreadLexiOrderKey *)
ThreadKey(th) == <<IF th.spec THEN 1 ELSE 0, -th.loops, th.calls, -th.wam>>

(* The thread that was stepped to reach x. *)
Stepped(x) ==
  [spec |-> task.spec, loops |-> 0, calls |-> Len(x.calls), wam |-> task.wam[x.at]]

ActivationKey(x) == IF x.by = {} THEN <<>> ELSE ThreadKey(CHOOSE th \in x.by : TRUE)

OrderKey(x) == IF x.stepped THEN <<ActivationKey(x), ThreadKey(Stepped(x))>> ELSE <<>>
DiffKey(x)  == IF x.stepped THEN <<Self>> ELSE <<>>

(* Mutant: ties are not broken. *)
CompareStateOrderMutantTies(x, y) == CompareKeys(OrderKey(x), OrderKey(y))

(* compareStateOrder: negative if x comes first. *)
CompareStateOrder(x, y) ==
  LET wrapped == CompareKeys(OrderKey(x), OrderKey(y))
  IN IF wrapped # NEITHER_LARGER THEN wrapped
     ELSE IF x.id < y.id THEN -1 ELSE 1

-----------------------------------------------------------------------------
(* A heap: a parent is where it is because one of two comparisons said so, and*)
(* what it offers is above all others.  No other property of it is used.      *)

Above(x, y) == CompareStateOrder(x, y) <= 0 \/ CompareStateOrder(y, x) > 0

Offered(key) ==
  LET mine == {x \in waiting : DiffKey(x) = key}
      Below(S) == {z \in mine : \E y \in S : Above(y, z)}
  IN {x \in mine : R!Closure(Below, x, Cardinality(mine)) = mine}

-----------------------------------------------------------------------------
(* Places of the thread, and what a step of it leads to. *)

NoLoc == 0
Place(x) == [by |-> x.by, at |-> x.at, calls |-> x.calls]

Called(p, s) ==
  [p EXCEPT !.at = s.callee, !.calls = Append(@, [callFrom |-> p.at, returnTo |-> s.to])]
Returned(p) ==
  [p EXCEPT !.at = p.calls[Len(p.calls)].returnTo, !.calls = SubSeq(@, 1, Len(@) - 1)]
After(p, s) ==
  CASE s.kind = "step"   -> [p EXCEPT !.at = s.to]
    [] s.kind = "call"   -> Called(p, s)
    [] s.kind = "return" -> Returned(p)

Successors(p) == {After(p, s) : s \in task.steps[p.at]}

(* A successor takes the place of a waiting state that it is merged with.     *)
Add(places, others) ==
  LET fresh == count + 1 .. count + Cardinality(places)
      kept  == {y \in others : ~y.stepped \/ Place(y) \notin places}
  IN \E id \in {f \in [places -> fresh] : \A p, q \in places : f[p] = f[q] => p = q} :
       LET new == {[id |-> id[p], stepped |-> TRUE, by |-> p.by, at |-> p.at, calls |-> p.calls] :
                     p \in places}
       IN /\ waiting' = kept \cup new
          /\ parts' = parts \cup {DiffKey(x) : x \in new}
          /\ count' = count + Cardinality(places)

Root == [id |-> 0, stepped |-> FALSE, by |-> {}, at |-> NoLoc, calls |-> <<>>]

Init ==
  /\ task \in Tasks
  /\ waiting = {Root}
  /\ parts = {DiffKey(Root)}
  /\ count = 0

(* The first steps of the thread; what was before it was activated, in one of *)
(* several ways, is left out.                                                 *)
ExpandRoot ==
  \E x \in Offered(<<>>) :
    /\ Add({[by |-> b, at |-> l, calls |-> <<>>] : b \in task.activators, l \in {task.entry}},
           waiting \ {x})
    /\ UNCHANGED task

Expand ==
  \E x \in Offered(<<Self>>) :
    /\ Add(Successors(Place(x)), waiting \ {x})
    /\ UNCHANGED task

Next == ExpandRoot \/ Expand

Spec == Init /\ [][Next]_vars

-----------------------------------------------------------------------------
(* Properties. *)

(* All places that p leads to: stacks are bounded, methods are not recursive. *)
Ahead(p) == R!Closure(LAMBDA S : UNION {Successors(q) : q \in S}, p, task.length) \ {p}

(* Wait at meet: what is expanded next is not led to by anything that waits,  *)
(* so that nothing is merged with it later (getThreadLexiOrderKey).           *)
MeetsAwaited ==
  \A x \in Offered(<<Self>>) : \A y \in waiting :
    y.stepped /\ y # x => Place(x) \notin Ahead(Place(y))

(* The keys in a partition have one shape and ties are broken: whatever the   *)
(* heap compares, and in which order, it offers the same state                *)
(* (PriorityFrontierSet).                                                    *)
Decided == \A key \in parts : Cardinality(Offered(key)) <= 1
=============================================================================
