------------------------------- MODULE MCLoops -------------------------------
(***************************************************************************)
(* Small programs, and their transition relations, for LoopStructure.         *)
(***************************************************************************)
EXTENDS LoopStructure, SequencesExt

Statement(kind, body, other) == [kind |-> kind, body |-> body, other |-> other]
Plain         == Statement("plain", <<>>, <<>>)
Signalling    == Statement("signal", <<>>, <<>>)
IfElse(b, o)  == Statement("if", b, o)
UntilDo(b)    == Statement("until", b, <<>>)
Forever(b)    == Statement("forever", b, <<>>)

Result(r, n) == [rel |-> r, next |-> n]
Stop == Op("signal", 0)
Simple(op, n) == ForOp(n + 1, op, n + 2)

RECURSIVE VisitList(_, _), VisitOne(_, _)

VisitOne(s, n) ==
  LET body  == VisitList(s.body, n)
      other == VisitList(s.other, body.next)
      m     == other.next
      yes   == Simple(Op("assume_cond", 1), m)
      no    == Simple(Op("assume_cond", 0), m + 2)
  IN CASE s.kind = "plain"   -> Result(Simple(Op("statement", 1), n), n + 2)
       [] s.kind = "signal"  -> Result(Simple(Stop, n), n + 2)
       [] s.kind = "if"      -> Result(Branching(Concat(yes, body.rel), Concat(no, other.rel), m + 5, m + 6), m + 6)
       [] s.kind = "until"   -> Result(Until(other.rel, Concat(no, body.rel), yes, m + 5, m + 6), m + 6)
       [] s.kind = "forever" -> Result(RepeatForever(body.rel), m)

VisitList(list, n) ==
  IF list = <<>> THEN Result(Singleton(n + 1), n + 1)
  ELSE LET most == VisitList(SubSeq(list, 1, Len(list) - 1), n)
           last == VisitOne(list[Len(list)], most.next)
       IN Result(Concat(most.rel, last.rel), last.next)

Numbered(S, n) ==
  LET places == FoldSet(LAMBDA x, s : Append(s, x), <<>>, S)
  IN [x \in S |-> n + (CHOOSE i \in DOMAIN places : places[i] = x)]

Top(r) == Max(r.locs)

Reduced(r) ==
  Rebuilt(r, [l \in r.locs |-> Min(Closure(
    LAMBDA S : EpsilonTargets(r, S) \cup EpsilonSources(r, S), l, Cardinality(r.locs)))])

Targeted(r) ==
  IF Signals(r) = {} THEN r
  ELSE LET n == Top(r)
           k == Cardinality(Signals(r))
       IN Reduced(CommonTarget(r, [i \in 1 .. 3 |-> n + i], [i \in 1 .. 2 |-> n + 3 + i],
                               Numbered(Signals(r), n + 5), Numbered(Signals(r), n + 5 + k)))

Shaped(r) ==
  LET entered == IntroduceEntryExit(r, Top(r) + 1, Numbered(ReplacedExits(r), Top(r) + 1))
      merged  == IntroduceToMerge(entered, Numbered(Direct(entered), Top(entered)))
  IN IntroduceBetween(merged, Numbered(Both(merged), Top(merged)))

(* The relation of a script of these statements.                             *)
RelationOf(list) == Shaped(Reduced(Targeted(VisitList(list, 0).rel)))

Structured == {
  <<Plain, IfElse(<<Plain, Plain>>, <<>>), Plain, UntilDo(<<Plain, IfElse(<<Plain>>, <<Signalling>>)>>)>>,
  <<Plain, UntilDo(<<UntilDo(<<Plain>>), Plain>>), Plain>>,
  <<Plain, Forever(<<Plain, UntilDo(<<IfElse(<<Plain>>, <<Plain, Plain>>), Plain>>), Plain>>)>>}

(* The common target of two signals has a dominator that is found relative to *)
(* the one of the meet between them.                                         *)
NestedSignals == <<IfElse(<<IfElse(<<Signalling>>, <<>>)>>, <<>>), IfElse(<<Signalling>>, <<>>)>>

Programs == {RelationOf(p) : p \in Structured} \cup {RelationOf(<<Plain, Forever(NestedSignals)>>)}
TwoSignals == {RelationOf(NestedSignals)}

IfBeforeLoop == {RelationOf(<<Forever(<<IfElse(<<IfElse(<<Plain>>, <<>>), UntilDo(<<Plain>>)>>, <<Plain>>)>>)>>)}
=============================================================================
