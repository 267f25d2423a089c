---------------------------- MODULE MCReachability ----------------------------
(***************************************************************************)
(* Programs for the model checking of Reachability: all programs over few   *)
(* control states, without cycles, and some programs with what these lack.  *)
(***************************************************************************)
EXTENDS Reachability

CONSTANTS i1, i2, p1, p2

All == {i1, i2}
To(c, guard) == [to |-> c, guard |-> guard]

(* The steps of a control state: none, one, a branch on the input, or a free  *)
(* choice between the control states ds; or one step to a target of ts.      *)
Moves(ds, ts) ==
  {<<>>} \cup {<<To(d, All)>> : d \in ds \cup ts}
    \cup {<<To(d, {i1}), To(e, {i2})>> : d, e \in ds}
    \cup {<<To(d, All), To(e, All)>> : d, e \in ds}

OneThread(n) == {[c \in 0 .. n |-> 0]}
Threads(n)   == {f \in [0 .. n -> {0, 1}] : f[0] = 0}
Forward(n)   == {[c \in 0 .. n |-> c]}
AnyOrder(n)  == {(0 :> 0) @@ (n :> n) @@ r : r \in Permutations(1 .. n - 1)}

Program(steps, targets, part, rank) ==
  LET n == Len(steps) - 1
  IN [steps |-> [c \in 0 .. n |-> steps[c + 1]],
      error |-> [c \in 0 .. n |-> IF c \in DOMAIN targets THEN targets[c] ELSE {}],
      key   |-> [c \in 0 .. n |-> [part |-> part[c], rank |-> rank[c]]],
      stopAtViolation |-> TRUE, limited |-> FALSE]

Sequential(k) == \A c \in DOMAIN k.key : k.key[c].part = 0

SamePart(k) ==
  \A c \in DOMAIN k.steps : \A i, j \in DOMAIN k.steps[c] :
    k.key[k.steps[c][i].to].part = k.key[k.steps[c][j].to].part

(* Five control states, the last is a target of p1. *)
Steps5 == {<<a, b, c, d, <<>>>> : a \in Moves({1, 2, 3}, {4}), b \in Moves({2, 3}, {4}),
                                  c \in Moves({3}, {4}), d \in Moves({}, {4})}

(* Sets of programs: their targets, steps, threads, orders, and whether a      *)
(* violation ends the analysis; one that goes on has a budget.                *)

(* Explored in topological order, by one or two threads. *)
ForwardTasks == {4 :> {p1}} \X Steps5 \X Threads(4) \X Forward(4) \X {TRUE}

(* Two targets, for different properties. *)
TwoTargetTasks ==
  {(4 :> {p1}) @@ (5 :> {p2})}
  \X {<<a, b, c, d, <<>>, <<>>>> : a \in Moves({1, 2, 3}, {}), b \in Moves({2, 3}, {4, 5}),
                                  c \in Moves({3}, {4, 5}), d \in Moves({}, {4, 5})}
  \X OneThread(5) \X Forward(5) \X {FALSE}

(* A branch, then three control states and a target, in any order. *)
AnyOrderTasks ==
  {5 :> {p1}}
  \X {<<<<To(1, {i1}), To(2, {i2})>>, b, c, d, <<To(5, All)>>, <<>>>> :
        b \in Moves({2, 3, 4}, {5}), c \in Moves({3, 4}, {5}), d \in Moves({4}, {5})}
  \X OneThread(5) \X AnyOrder(5) \X {TRUE}

(* Two threads run only programs that do not end at once. *)
AllTasks ==
  {k \in {[Program(q[2], q[1], q[3], q[4]) EXCEPT !.stopAtViolation = q[5], !.limited = ~q[5]] :
            q \in ForwardTasks \cup TwoTargetTasks \cup AnyOrderTasks} :
     Sequential(k) \/ (SamePart(k) /\ k.steps[0] # <<>> /\ k.steps[3] # <<>>)}

(* A step with two outcomes that are both targets of p1; the first one is     *)
(* impossible.                                                               *)
SiblingTasks ==
  {Program(<< <<To(1, {i1})>>, <<To(2, {i2}), To(3, {i1})>>, <<>>, <<>> >>,
           (2 :> {p1}) @@ (3 :> {p1}), part, rank) :
     part \in OneThread(3), rank \in Forward(3)}

(* Two scripts that send each other messages without an end. *)
CycleTasks ==
  {Program(<< <<To(1, All)>>, <<To(2, All)>>, <<To(1, All)>> >>, <<>>, part, rank) :
     part \in {[c \in 0 .. 2 |-> c % 2]}, rank \in Forward(2)}
=============================================================================
