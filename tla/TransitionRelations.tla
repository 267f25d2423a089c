------------------------- MODULE TransitionRelations -------------------------
(***************************************************************************)
(* Transition relations of scripts and methods: how they are composed        *)
(* (TransitionRelationBuilder, TransitionRelations), and the steps that give  *)
(* them the shape that the analyses rely on (establishAnalysisInvariants).    *)
(*                                                                         *)
(* A relation is a record of its transitions, locations, entry and exit       *)
(* locations.  A location is a number; what is to be a fresh location is an   *)
(* argument.  An operation is a record of its kind and a number.              *)
(***************************************************************************)
EXTENDS Integers, Sequences, FiniteSets

Op(kind, arg)      == [kind |-> kind, arg |-> arg]
Epsilon            == Op("epsilon", 0)
IrreducibleEpsilon == Op("dummy", 0)
Trans(l, op, k)    == [from |-> l, op |-> op, to |-> k]

From(tr, l) == {t \in tr.trans : t.from = l}
Into(tr, l) == {t \in tr.trans : t.to = l}

(* More than one transition leaves, or enters, a location.                   *)
Branches(tr, l) == \E t, u \in From(tr, l) : t # u
Merges(tr, l)   == \E t, u \in Into(tr, l) : t # u

-----------------------------------------------------------------------------
(* Composition. *)

Built(trans, entry, exit) ==
  [trans |-> trans,
   locs  |-> {t.from : t \in trans} \cup {t.to : t \in trans} \cup entry \cup exit,
   entry |-> entry,
   exit  |-> exit]

(* connectLocations *)
Connections(S, T, op) == {Trans(l, op, k) : l \in S, k \in T}

Singleton(l)      == Built({Trans(l, Epsilon, l)}, {l}, {l})
ForOp(l, op, k)   == Built({Trans(l, Epsilon, l), Trans(l, op, k)}, {l}, {k})

(* What never ends is not continued. *)
Concat(tr1, tr2) ==
  IF tr1.exit = {} THEN tr1
  ELSE [trans |-> tr1.trans \cup tr2.trans \cup Connections(tr1.exit, tr2.entry, Epsilon),
        locs  |-> tr1.locs \cup tr2.locs,
        entry |-> tr1.entry,
        exit  |-> tr2.exit]

Branching(tr1, tr2, start, end) ==
  Built(tr1.trans \cup tr2.trans
          \cup Connections({start}, tr1.entry \cup tr2.entry, Epsilon)
          \cup Connections(tr1.exit \cup tr2.exit, {end}, Epsilon),
        {start}, {end})

ConcatTrOpGoto(tr, op, l) ==
  IF tr.exit = {} THEN tr
  ELSE [tr EXCEPT !.trans = @ \cup Connections(tr.exit, {l}, op),
                  !.locs  = @ \cup {l},
                  !.exit  = {l}]

ConcatOpTr(l, op, tr) ==
  [tr EXCEPT !.trans = @ \cup Connections({l}, tr.entry, op),
             !.locs  = @ \cup {l},
             !.entry = {l}]

(* RelationBuildingVisitor: the statements with a body. *)
RepeatForever(body) ==
  Built(body.trans \cup Connections(body.exit, body.entry, Epsilon), body.entry, {})

UntilMutantNoBackEdge(query, guarded, leave, head, end) ==
  LET start == ConcatOpTr(head, Epsilon, query)
      last  == ConcatTrOpGoto(leave, Epsilon, end)
  IN Built(start.trans \cup guarded.trans \cup last.trans
             \cup Connections(start.exit, guarded.entry \cup last.entry, Epsilon),
           start.entry, last.exit)

Until(query, guarded, leave, head, end) ==
  LET start == ConcatOpTr(head, Epsilon, query)
      body  == ConcatTrOpGoto(guarded, Epsilon, head)
      last  == ConcatTrOpGoto(leave, Epsilon, end)
  IN Built(start.trans \cup body.trans \cup last.trans
             \cup Connections(start.exit, body.entry \cup last.entry, Epsilon)
             \cup Connections(body.exit, start.entry, Epsilon),
           start.entry, last.exit)

-----------------------------------------------------------------------------
(* eliminateEpsilons: the locations that epsilon transitions connect become   *)
(* one.  It searches forwards from a location, and backwards, not both.      *)

EpsilonTargets(tr, S) == {t.to : t \in {u \in tr.trans : u.op = Epsilon /\ u.from \in S}}
EpsilonSources(tr, S) == {t.from : t \in {u \in tr.trans : u.op = Epsilon /\ u.to \in S}}

(* What Grow reaches from l, in at most n rounds.                    *)
Closure(Grow(_), l, n) ==
  LET rounds[i \in Nat] ==
        IF i = 0 THEN [seen |-> {l}, new |-> {l}]
        ELSE LET r   == rounds[i - 1]
                 new == IF r.new = {} THEN {} ELSE Grow(r.new) \ r.seen
             IN [seen |-> r.seen \cup new, new |-> new]
  IN rounds[n].seen

Forwards(tr, l)  == Closure(LAMBDA S : EpsilonTargets(tr, S), l, Cardinality(tr.locs))
Backwards(tr, l) == Closure(LAMBDA S : EpsilonSources(tr, S), l, Cardinality(tr.locs))

BiDirClosure(tr, l) == Forwards(tr, l) \cup Backwards(tr, l)

(* The relation on the classes; id names the class of a location.            *)
Rebuilt(tr, id) ==
  Built({Trans(id[t.from], t.op, id[t.to]) : t \in {u \in tr.trans : u.op # Epsilon}},
        {id[l] : l \in tr.entry}, {id[l] : l \in tr.exit})

-----------------------------------------------------------------------------
(* The shape of the relations. *)

(* introduceEntryExitEpsilonTransition; new names the new exits.              *)
EntersVisibly(tr, l) ==
  \E t \in Into(tr, l) : t.op.kind \notin {"epsilon", "dummy", "return"}
ReplacedExits(tr) == {l \in tr.exit : EntersVisibly(tr, l)}

IntroduceEntryExit(tr, start, new) ==
  LET moved == ReplacedExits(tr)
  IN [trans |-> tr.trans \cup Connections({start}, tr.entry, IrreducibleEpsilon)
                         \cup {Trans(l, IrreducibleEpsilon, new[l]) : l \in moved},
      locs  |-> tr.locs \cup {start} \cup {new[l] : l \in moved},
      entry |-> {start},
      exit  |-> (tr.exit \ moved) \cup {new[l] : l \in moved}]

(* introduceEpsilonToMergeTransitions; mid names the new locations.           *)
DirectMutantForkOnly(tr) ==
  {t \in tr.trans : Merges(tr, t.to) /\ Branches(tr, t.from)}

Direct(tr) ==
  {t \in tr.trans : Merges(tr, t.to) /\ (Branches(tr, t.from) \/ Merges(tr, t.from))}

IntroduceToMerge(tr, mid) ==
  LET direct == Direct(tr)
  IN [tr EXCEPT !.trans = (@ \ direct) \cup {Trans(t.from, t.op, mid[t]) : t \in direct}
                                       \cup {Trans(mid[t], IrreducibleEpsilon, t.to) : t \in direct},
                !.locs  = @ \cup {mid[t] : t \in direct}]

(* introduceEpsilonBetweenMergeAndBranchLocs *)
Both(tr) == {l \in tr.locs : Merges(tr, l) /\ Branches(tr, l)}

IntroduceBetween(tr, mid) ==
  LET both  == Both(tr)
      moved == {t \in tr.trans : t.from \in both}
  IN [tr EXCEPT !.trans = (@ \ moved) \cup {Trans(l, IrreducibleEpsilon, mid[l]) : l \in both}
                                      \cup {Trans(mid[t.from], t.op, t.to) : t \in moved},
                !.locs  = @ \cup {mid[l] : l \in both}]

(* introduceCommonTargetLocation: every signal becomes an assignment of its   *)
(* location to a variable, and a check that all targets share, after which    *)
(* the variable tells which target it was.  p names the three new locations   *)
(* of the prefix, c the two of the check, at and end those of a signal.       *)
Signals(tr) == {t \in tr.trans : t.op.kind = "signal"}
HasCheck(tr) == \E t \in tr.trans : t.op.kind = "check"

TargetPrefix(p) ==
  Built({Trans(p[1], Epsilon, p[1]), Trans(p[1], Op("declare", 0), p[2]),
         Trans(p[2], Op("assign", 0), p[3])}, {p[1]}, {p[3]})

CommonTarget(tr, p, c, at, end) ==
  LET signals == Signals(tr)
      whole   == Concat(TargetPrefix(p), tr)
  IN [whole EXCEPT
        !.trans = (@ \ signals)
           \cup {Trans(c[1], Op("check", 0), c[2])}
           \cup {Trans(t.from, Op("assign", t.from), c[1]) : t \in signals}
           \cup {Trans(c[2], Op("assume", t.from), at[t]) : t \in signals}
           \cup {Trans(at[t], t.op, end[t]) : t \in signals},
        !.locs  = @ \cup {c[1], c[2]} \cup {at[t] : t \in signals} \cup {end[t] : t \in signals}]
=============================================================================
