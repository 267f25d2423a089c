----------------------------- MODULE ControlFlow -----------------------------
(***************************************************************************)
(* From the statements of a script or method to its transition relation:     *)
(* RelationBuildingVisitor builds a relation bottom up, as on a stack;        *)
(* establishAnalysisInvariants brings it in shape.  Beside the relation of a  *)
(* statement stands what it means: the words of operations that it executes.  *)
(***************************************************************************)
EXTENDS TransitionRelations, FiniteSetsExt, SequencesExt

CONSTANTS
  Statements,     \* the numbers of the plain statements
  Kinds,          \* the kinds of statements that are used: if, until, forever, signal
  MaxSize,        \* a bound of the model: statements of a program
  MaxDepth,       \* a bound of the model: statement lists that are open at a time
  MaxWord,        \* a bound of the model: the length of the words that are compared
  MaxAnyOrder     \* a bound of the model: of relations with more locations, the smallest
                  \* or the largest one that remains is the next whose class is computed

VARIABLES
  stack,     \* the visited statements: [rel, means]
  size,      \* how many statements were visited
  next,      \* the last location that was taken, ControlLocation.fresh
  phase,     \* build, common, classes_of_common, classes, entry, merge, between, done
  way,       \* of what the relation is: script, method, check
  tr,        \* the relation
  means,     \* the words that the statements execute: all of them and the complete ones
  equiv,     \* the equivalence class of each location: its name and its members
  todo       \* locations whose class is not computed yet

vars == <<stack, size, next, phase, way, tr, means, equiv, todo>>

ASSUME ControlFlowAssumption ==
  /\ Statements \subseteq Nat
  /\ Kinds \subseteq {"if", "until", "forever", "signal"}
  /\ {MaxSize, MaxDepth, MaxWord, MaxAnyOrder} \subseteq Nat

Numbering(S, n) ==
  LET places == SetToSeq(S)
  IN [x \in S |-> n + (CHOOSE i \in DOMAIN places : places[i] = x)]

-----------------------------------------------------------------------------
(* What statements mean: words of at most MaxWord operations.  [all] are the  *)
(* words of the executions that may be cut off, [ends] of the complete ones.  *)

Joined(U, V) == {w \in {u \o v : u \in U, v \in V} : Len(w) <= MaxWord}

MeansNothing == [all |-> {<<>>}, ends |-> {<<>>}]
MeansOp(op)  == [all |-> {<<>>, <<op>>}, ends |-> {<<op>>}]
MeansStop(op) == [MeansOp(op) EXCEPT !.ends = {}]

Then(m, n) == [all |-> m.all \cup Joined(m.ends, n.all), ends |-> Joined(m.ends, n.ends)]
Or(m, n)   == [all |-> m.all \cup n.all, ends |-> m.ends \cup n.ends]

(* The words of any number of complete executions.                           *)
Repeated(m) ==
  LET rounds[n \in Nat] == IF n = 0 THEN {<<>>}
                           ELSE LET W == rounds[n - 1] IN W \cup Joined(W, m.ends)
  IN [all |-> {<<>>}, ends |-> rounds[MaxWord]]

Yes    == Op("assume_cond", 1)
No     == Op("assume_cond", 0)
Signal == Op("signal", 0)
Return == Op("return", 0)

-----------------------------------------------------------------------------
(* The words of a relation.  The steps of the check for common targets are    *)
(* not visible; the variable holds the target that was assigned last.        *)

Visible(op) == op.kind \in {"statement", "assume_cond", "signal", "return"}

Stepped(t, c) ==
  [at     |-> t.to,
   word   |-> IF Visible(t.op) THEN Append(c.word, t.op) ELSE c.word,
   target |-> IF t.op.kind = "assign" THEN t.op.arg ELSE c.target]

Steps(r, C) ==
  {s \in UNION {{Stepped(t, c) : t \in {u \in From(r, c.at) :
                                          u.op.kind = "assume" => u.op.arg = c.target}} : c \in C} :
     Len(s.word) <= MaxWord}

Executions(r) ==
  LET start == {[at |-> l, word |-> <<>>, target |-> 0] : l \in r.entry}
      runs[n \in Nat] ==
        IF n = 0 THEN [seen |-> start, new |-> start]
        ELSE LET C   == runs[n - 1]
                 new == Steps(r, C.new) \ C.seen
             IN [seen |-> C.seen \cup new, new |-> new]
  IN runs[Cardinality(r.locs) * (MaxWord + 1)].seen

(* A signal ends the program.                                                *)
Cut(w) == \E i \in 1 .. Len(w) - 1 : w[i] = Signal

Meaning(r) ==
  LET runs == {c \in Executions(r) : ~Cut(c.word)}
  IN [all  |-> {c.word : c \in runs},
      ends |-> {c.word : c \in {d \in runs : d.at \in r.exit /\ Signal \notin Range(d.word)}}]

-----------------------------------------------------------------------------
(* Building. *)

Item(rel, m) == [rel |-> rel, means |-> m]

ReduceMutantSameLocations(n, item, taken) ==
  /\ stack' = Append(SubSeq(stack, 1, Len(stack) - n), item)
  /\ size' = size + 1
  /\ UNCHANGED <<next, phase, way, tr, means, equiv, todo>>

(* Replace the n topmost items. *)
Reduce(n, item, taken) ==
  /\ stack' = Append(SubSeq(stack, 1, Len(stack) - n), item)
  /\ next' = next + taken
  /\ size' = size + 1
  /\ UNCHANGED <<phase, way, tr, means, equiv, todo>>

Top(i) == stack[Len(stack) + 1 - i]

Init ==
  /\ stack = <<Item(Singleton(1), MeansNothing)>>
  /\ size = 0
  /\ next = 1
  /\ phase = "build"
  /\ way = "script"
  /\ tr = Singleton(1)
  /\ means = MeansNothing
  /\ equiv = <<>>
  /\ todo = {}

Building == phase = "build" /\ size < MaxSize

(* visitStatementList: an empty list, and a list with one more statement.     *)
OpenList ==
  /\ Building
  /\ Len(stack) < MaxDepth
  /\ stack' = Append(stack, Item(Singleton(next + 1), MeansNothing))
  /\ next' = next + 1
  /\ UNCHANGED <<size, phase, way, tr, means, equiv, todo>>

Extended(item, rel, m) == Item(Concat(item.rel, rel), Then(item.means, m))

(* visit, visitCallStatement *)
VisitStatement ==
  /\ Building
  /\ \E s \in Statements :
       LET op == Op("statement", s)
       IN Reduce(1, Extended(Top(1), ForOp(next + 1, op, next + 2), MeansOp(op)), 2)

VisitSignal ==
  /\ Building
  /\ "signal" \in Kinds
  /\ Reduce(1, Extended(Top(1), ForOp(next + 1, Signal, next + 2), MeansStop(Signal)), 2)

VisitIf ==
  /\ Building
  /\ "if" \in Kinds
  /\ Len(stack) >= 3
  /\ LET yes == Concat(ForOp(next + 1, Yes, next + 2), Top(2).rel)
         no  == Concat(ForOp(next + 3, No, next + 4), Top(1).rel)
     IN Reduce(3, Extended(Top(3), Branching(yes, no, next + 5, next + 6),
                           Or(Then(MeansOp(Yes), Top(2).means), Then(MeansOp(No), Top(1).means))), 6)

VisitForever ==
  /\ Building
  /\ "forever" \in Kinds
  /\ Len(stack) >= 2
  /\ LET m == Top(1).means
     IN Reduce(2, Extended(Top(2), RepeatForever(Top(1).rel), [Then(Repeated(m), m) EXCEPT !.ends = {}]), 0)

VisitUntil ==
  /\ Building
  /\ "until" \in Kinds
  /\ Len(stack) >= 3
  /\ LET query   == Top(2)
         body    == Top(1)
         guarded == Concat(ForOp(next + 1, No, next + 2), body.rel)
         leave   == ForOp(next + 3, Yes, next + 4)
         round   == Then(query.means, Then(MeansOp(No), body.means))
         last    == Then(query.means, MeansOp(Yes))
     IN Reduce(3, Extended(Top(3), Until(query.rel, guarded, leave, next + 5, next + 6),
                           Then(Repeated(round), [Or(round, last) EXCEPT !.ends = last.ends])), 6)

-----------------------------------------------------------------------------
(* The visited statements become a script, a method, or the script of a       *)
(* condition check, which is not brought in shape.                            *)

Begin(kind, start, rel, m, taken) ==
  /\ phase = "build"
  /\ Len(stack) = 1
  /\ size > 0
  /\ way' = kind
  /\ phase' = start
  /\ tr' = rel
  /\ means' = m
  /\ next' = next + taken
  /\ equiv' = [l \in rel.locs |-> [id |-> l, members |-> {l}]]
  /\ todo' = rel.locs
  /\ stack' = <<>>
  /\ UNCHANGED size

BuildScript == Begin("script", "common", Top(1).rel, Top(1).means, 0)
BuildCheck  == Begin("check", "classes", Top(1).rel, Top(1).means, 0)
BuildMethod ==
  LET return == Concat(Singleton(next + 2), ForOp(next + 3, Return, next + 4))
  IN Begin("method", "common", Concat(Concat(Singleton(next + 1), Top(1).rel), return),
           Then(Top(1).means, MeansOp(Return)), 4)

Reshape(rel, taken, phases) ==
  /\ tr' = rel
  /\ next' = next + taken
  /\ phase' = phases
  /\ equiv' = [l \in rel.locs |-> [id |-> l, members |-> {l}]]
  /\ todo' = rel.locs
  /\ UNCHANGED <<stack, size, way, means>>

IntroduceCommonTarget ==
  /\ phase = "common"
  /\ IF HasCheck(tr) \/ Signals(tr) = {} THEN Reshape(tr, 0, "classes")
     ELSE LET n == Cardinality(Signals(tr))
          IN Reshape(CommonTarget(tr, [i \in 1 .. 3 |-> next + i], [i \in 1 .. 2 |-> next + 3 + i],
                                  Numbering(Signals(tr), next + 5), Numbering(Signals(tr), next + 5 + n)),
                     5 + 2 * n, "classes_of_common")

(* The locations that may come next: any one, the set is not sorted.          *)
Candidates ==
  IF Cardinality(tr.locs) <= MaxAnyOrder THEN todo ELSE {Min(todo), Max(todo)}

MergeClassesMutantOnlyNew ==
  /\ phase \in {"classes", "classes_of_common"}
  /\ todo # {}
  /\ \E l \in Candidates :
       LET closure == BiDirClosure(tr, l)
           members == closure \cup UNION {equiv[k].members : k \in closure}
       IN /\ equiv' = [k \in tr.locs |-> IF k \in closure THEN [id |-> Min(members), members |-> members]
                                         ELSE equiv[k]]
          /\ todo' = todo \ closure
  /\ UNCHANGED <<stack, size, next, phase, way, tr, means>>

(* buildEquivalenceClasses: a location that remains.  The closure is extended  *)
(* while it is iterated, so that classes that meet become one.               *)
MergeClasses ==
  /\ phase \in {"classes", "classes_of_common"}
  /\ todo # {}
  /\ \E l \in Candidates :
       LET closure == BiDirClosure(tr, l)
           members == closure \cup UNION {equiv[k].members : k \in closure}
           class   == [id |-> Min(members), members |-> members]
       IN /\ equiv' = [k \in tr.locs |-> IF k \in members THEN class ELSE equiv[k]]
          /\ todo' = todo \ members
  /\ UNCHANGED <<stack, size, next, phase, way, tr, means>>

EliminateEpsilons ==
  /\ phase \in {"classes", "classes_of_common"}
  /\ todo = {}
  /\ Reshape(Rebuilt(tr, [l \in tr.locs |-> equiv[l].id]), 0,
             CASE phase = "classes_of_common" -> "classes"
               [] way = "check"               -> "done"
               [] OTHER                       -> "entry")

EntryExit ==
  /\ phase = "entry"
  /\ Reshape(IntroduceEntryExit(tr, next + 1, Numbering(ReplacedExits(tr), next + 1)),
             1 + Cardinality(ReplacedExits(tr)), "merge")

ToMerge ==
  /\ phase = "merge"
  /\ Reshape(IntroduceToMerge(tr, Numbering(Direct(tr), next)), Cardinality(Direct(tr)), "between")

Between ==
  /\ phase = "between"
  /\ Reshape(IntroduceBetween(tr, Numbering(Both(tr), next)), Cardinality(Both(tr)), "done")

Visit == OpenList \/ VisitStatement \/ VisitSignal \/ VisitIf \/ VisitForever \/ VisitUntil
Build == BuildScript \/ BuildCheck \/ BuildMethod
Shape == IntroduceCommonTarget \/ MergeClasses \/ EliminateEpsilons \/ EntryExit \/ ToMerge \/ Between

Next == Visit \/ Build \/ Shape

Spec == Init /\ [][Next]_vars

-----------------------------------------------------------------------------
(* Properties. *)

Phases == {"build", "common", "classes_of_common", "classes", "entry", "merge", "between", "done"}

(* The variables have their types. *)
TypeOK ==
  /\ size \in 0 .. MaxSize
  /\ next \in Nat
  /\ phase \in Phases
  /\ way \in {"script", "method", "check"}
  /\ {t.from : t \in tr.trans} \cup {t.to : t \in tr.trans} \cup tr.entry \cup tr.exit \subseteq tr.locs
  /\ tr.locs \subseteq 1 .. next
  /\ todo \subseteq tr.locs

(* A relation in its final shape executes the words of operations that its    *)
(* statements mean, all and the complete ones: nothing of the elimination of  *)
(* epsilons, of the common target and of the new locations shows             *)
(* (RelationBuildingVisitor, establishAnalysisInvariants).                    *)
SameWords == phase = "done" => Meaning(tr) = means

(* The classes are the components that epsilon transitions connect, although  *)
(* each step looks only along the arrows and against them                     *)
(* (buildEquivalenceClasses, LocationEquivalence.addAllFrom).                 *)
Component(r, l) ==
  Closure(LAMBDA S : EpsilonTargets(r, S) \cup EpsilonSources(r, S), l, Cardinality(r.locs))

ClassesComplete ==
  phase \in {"classes", "classes_of_common"} /\ todo = {} =>
    \A l \in tr.locs : equiv[l].members = Component(tr, l)

(* What the analyses rely on: a location is a merge or a branch, not both,    *)
(* nothing but one location of a straight line leads to a merge, and no       *)
(* transition enters the entry, of which there is one (getTheOnlyElement).    *)
InShape ==
  phase = "done" /\ way # "check" =>
    /\ \A l \in tr.locs : ~(Merges(tr, l) /\ Branches(tr, l))
    /\ \A t \in tr.trans : Merges(tr, t.to) => ~Merges(tr, t.from) /\ ~Branches(tr, t.from)
    /\ \A l, k \in tr.entry : Into(tr, l) = {} /\ l = k
=============================================================================
