---------------------------- MODULE MCPredicates ----------------------------
(***************************************************************************)
(* Programs for the model checking of Predicates: a loop whose body has a     *)
(* branch, with a target behind it and one inside, and two loops in a row.    *)
(***************************************************************************)
EXTENDS Predicates

CONSTANTS p1, p2

Data == 0 .. 2

To(c, change) == [to |-> c, change |-> change]
When(S) == {<<v, v>> : v \in S}
Skip    == When(Data)
Set(S)  == Data \X S
Inc     == {<<v, (v + 1) % 3>> : v \in Data}
Swap    == {<<0, 2>>, <<1, 1>>, <<2, 0>>}

(* The control states of a loop are its head h, as it is reached from outside, *)
(* h+1 and h+2, the first of the body and one of its branches, h+3, where     *)
(* the branches meet, and h+4, the head as it is reached from the body.       *)
Loop(h, in, branches, back, exit) ==
     h       :> <<To(h + 1, When(in)), exit>>
  @@ (h + 1) :> <<To(h + 2, branches[1]), To(h + 3, branches[2])>>
  @@ (h + 2) :> <<To(h + 3, Skip)>>
  @@ (h + 3) :> <<To(h + 4, Skip)>> \o back
  @@ (h + 4) :> <<>>

(* Of the states that wait, one outside of the loops comes first, then the    *)
(* heads, then the bodies, which have a larger loop stack.                    *)
Shape(steps, targets, heads, ranks, stop) ==
  [steps |-> steps,
   error |-> [c \in DOMAIN steps |-> IF c \in DOMAIN targets THEN targets[c] ELSE {}],
   key   |-> [c \in DOMAIN steps |-> [part |-> 0, rank |-> ranks[c]]],
   heads |-> UNION {{h, h + 4} : h \in heads},
   widened |-> [c \in UNION {{h, h + 4} : h \in heads} |-> IF c \in heads THEN c ELSE c - 4],
   stopAtViolation |-> stop]

Program(steps, targets, heads, ranks, stop) ==
  LET k == Shape(steps, targets, heads, ranks, stop)
  IN k @@ [wrong |-> UNION {k.error[s[1]] : s \in Executed(k)}]

(* The order in which the two branches are expanded, and the place where they *)
(* meet: this one last, or too early, when another thread delays a branch.    *)
Rank(h, c, early) == IF early /\ c = h + 3 THEN h + 1 ELSE c

(* The loop 1 is entered in one of two ways.  Behind it a target is reached     *)
(* with a value in bad; the target before it would need the value 2.         *)
OneLoopTasks ==
  {Program(0 :> <<To(8, Set(start))>> @@ 8 :> <<To(1, When({0})), To(1, When({1})), To(9, When({2}))>> @@ 9 :> <<>>
             @@ Loop(1, in, branches, <<>>, To(6, Skip))
             @@ 6 :> <<To(7, When(bad))>> @@ 7 :> <<>>,
           7 :> {p1} @@ 9 :> {p2}, {1},
           [c \in 0 .. 9 |-> CASE c = 0 -> -1 [] c \in {6, 7, 8, 9} -> 0 [] c \in {1, 5} -> 1 [] OTHER -> 10 + Rank(1, c, early)],
           TRUE) :
     start \in {{0}, {0, 1}}, in \in {Data, {0, 1}, {0}}, bad \in {{1}, {2}},
     branches \in {Inc, Swap, Skip} \X {Inc, Skip, When({1})}, early \in BOOLEAN}

(* A target in the loop 1, and one for another property behind the loop 6,    *)
(* which follows it; the analysis goes on after the first violation.          *)
TwoLoopsTasks ==
  {Program(0 :> <<To(1, Set(start))>>
             @@ Loop(1, {0, 1}, <<change, Skip>>, <<To(13, When({bad}))>>, To(6, Skip))
             @@ Loop(6, Data, branches, <<>>, To(11, Skip))
             @@ 11 :> <<To(12, When({3 - bad}))>> @@ 12 :> <<>> @@ 13 :> <<>>,
           12 :> {p1} @@ 13 :> {p2}, {1, 6},
           [c \in 0 .. 13 |-> CASE c = 0 -> -1 [] c \in {11, 12, 13} -> 0 [] c \in {1, 5} -> 1 [] c \in {6, 10} -> 2 [] OTHER -> 10 + c],
           FALSE) :
     start \in {{0}, {1}}, change \in {Inc, Swap}, bad \in {1, 2},
     branches \in {Inc, Swap, Skip} \X {Skip, When({1})}}

LoopTasks == OneLoopTasks \cup TwoLoopsTasks
=============================================================================
