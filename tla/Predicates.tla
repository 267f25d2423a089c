------------------------------ MODULE Predicates ------------------------------
(***************************************************************************)
(* The analysis with predicate abstraction: MultiPropertyAlgorithm calls     *)
(* CEGARAlgorithm, which calls the reachability algorithm on the graph       *)
(* analysis with NewMergeIntoOperator, the stop operator CheckCoverage and   *)
(* widening on loop heads.  When a target turns out to be infeasible, the    *)
(* precision is refined and the exploration starts again.                    *)
(*                                                                         *)
(* The data of a program is one value.  The formula of a block is a relation *)
(* between the values where the block starts and where it ends; a summary or *)
(* a predicate is a set of values.                                           *)
(***************************************************************************)
EXTENDS Exploration, Functions, BlockRelations

CONSTANTS
  Tasks,                   \* the programs under analysis, see IsTask
  MaxNodes                 \* a bound of the model: states between two refinements

VARIABLE precision         \* the predicates found so far, AbstractionRefiner._currentPrecision

allVars == <<vars, precision>>

-----------------------------------------------------------------------------
(* Programs.  A step [to, change] relates the values before and after it.  At *)
(* the control states in heads the stepped thread is at a loop head; widened *)
(* gives the control state with an empty loop stack.                         *)
Widens(k, c) == IF c \in k.heads THEN k.widened[c] ELSE c

(* What executions reach: pairs of a control state and a value. *)
Executed(k) ==
  LET next(S) == UNION {UNION {{Widens(k, step.to)} \X Image(step.change, {s[2]}) :
                                 step \in Range(k.steps[s[1]])} : s \in S}
      bound == Cardinality(DOMAIN k.steps) * Cardinality(Values)
      rounds[n \in 0 .. bound] ==
        IF n = 0 THEN [seen |-> {0} \X Values, new |-> {0} \X Values]
        ELSE LET r   == rounds[n - 1]
                 new == next(r.new) \ r.seen
             IN [seen |-> r.seen \cup new, new |-> new]
  IN rounds[bound].seen

IsTask(k) ==
  /\ 0 \in DOMAIN k.steps /\ IsFiniteSet(DOMAIN k.steps)
  /\ DOMAIN k.error = DOMAIN k.steps /\ DOMAIN k.key = DOMAIN k.steps
  /\ \A c \in DOMAIN k.steps :
       /\ k.steps[c] \in Seq([to : DOMAIN k.steps, change : SUBSET (Values \X Values)])
       /\ k.error[c] \subseteq Properties
       /\ k.error[c] # {} => k.steps[c] = <<>> /\ c \notin k.heads
       /\ k.key[c] \in [part : Int, rank : Int]
       /\ \A i \in 1 .. Len(k.steps[c]) - 1 : k.error[k.steps[c][i].to] = {}
  /\ Len(k.steps[0]) = 1                              \* one script runs first
  /\ k.heads \subseteq DOMAIN k.steps /\ k.widened \in [k.heads -> k.heads]
  /\ \A c \in k.heads : k.widened[k.widened[c]] = k.widened[c]
  /\ k.wrong = UNION {k.error[s[1]] : s \in Executed(k)}    \* what some execution violates
  /\ k.stopAtViolation \in BOOLEAN

ASSUME PredicateTasksAssumption == \A k \in Tasks : IsTask(k)
ASSUME PredicateConstantsAssumption ==
  /\ Values # {} /\ IsFiniteSet(Values)
  /\ Properties # {}
  /\ MaxNodes \in Nat

-----------------------------------------------------------------------------
(* Abstract states.  A state has its control state and its formula, the block *)
(* it belongs to and the summary with which this was entered; part is the     *)
(* control state that its partition keys were computed for.                  *)

Root == [control |-> 0, part |-> 0, preds |-> {}, mergeOf |-> {1},
         block |-> 1, entering |-> Values, formula |-> Identity, widened |-> FALSE]

SuccessorOf(e, step, id) ==
  [control |-> step.to, part |-> step.to, preds |-> {e}, mergeOf |-> {id},
   block |-> node[e].block, entering |-> node[e].entering, widened |-> FALSE,
   formula |-> Compose(IF node[e].widened THEN Identity ELSE node[e].formula, step.change)]

Successors(e) ==
  LET steps == task.steps[node[e].control]
  IN [i \in 1 .. Len(steps) |-> SuccessorOf(e, steps[i], Fresh + i - 1)]

Feasible(x) == Image(x.formula, x.entering) # {}

KeptMutantAll(next) == [i \in DOMAIN next |-> Fresh + i - 1]

(* abstractSucc of the graph analysis leaves out the targets that are not    *)
(* feasible within their block.                                              *)
Kept(next) ==
  LET keeps(s) == task.error[s.control] = {} \/ Feasible(s)
      kept[i \in 0 .. Len(next)] ==
        IF i = 0 THEN <<>>
        ELSE IF keeps(next[i]) THEN Append(kept[i - 1], Fresh + i - 1) ELSE kept[i - 1]
  IN kept[Len(next)]

(* computeAbstraction, with the predicates found so far. *)
Abstraction(S) == Strongest(S, precision)

(* widen of the graph, control and abstraction analyses: the summary is       *)
(* computed, a block starts, the loop stack is forgotten, id and keys stay;   *)
(* the formula is kept for the trace.                                        *)
Widened(x, id) ==
  [x EXCEPT !.control = task.widened[@], !.block = id, !.widened = TRUE,
            !.entering = Abstraction(Image(x.formula, x.entering))]

Widening(s) ==
  IF node[s].control \in task.heads THEN [node EXCEPT ![s] = Widened(@, s)] ELSE node

MergePartnersMutantAnyBlock(nodes, s) ==
  {r \in graph.reached :
     /\ nodes[s].control \notin task.heads
     /\ nodes[r].part = nodes[s].part
     /\ nodes[r].control = nodes[s].control}

MergePartners(nodes, s) ==
  {r \in graph.reached :
     /\ nodes[s].control \notin task.heads
     /\ nodes[r].part = nodes[s].part
     /\ nodes[r].control = nodes[s].control
     /\ nodes[r].block = nodes[s].block}

MergedState(nodes, s, partners) ==
  LET parts == partners \cup {s}
  IN [nodes[s] EXCEPT !.preds   = UNION {nodes[r].preds : r \in parts},
                      !.mergeOf = {Fresh} \cup UNION {nodes[r].mergeOf : r \in parts},
                      !.formula = UNION {nodes[r].formula : r \in parts}]

StopsAtMutantNoCoverage(nodes, g, s) ==
  \E r \in g.reached : nodes[r].part = nodes[s].part /\ s \in nodes[r].mergeOf

StopsAtMutantSwapped(nodes, g, s) ==
  \E r \in g.reached :
    /\ nodes[r].part = nodes[s].part
    /\ \/ s \in nodes[r].mergeOf
       \/ /\ nodes[r].control = nodes[s].control
          /\ nodes[r].widened /\ nodes[s].widened
          /\ nodes[r].entering \subseteq nodes[s].entering

(* GraphCoverCheckStopOperator: s was merged, or a widened state covers it.   *)
StopsAt(nodes, g, s) ==
  \E r \in g.reached :
    /\ nodes[r].part = nodes[s].part
    /\ \/ s \in nodes[r].mergeOf
       \/ /\ nodes[r].control = nodes[s].control
          /\ nodes[r].widened /\ nodes[s].widened
          /\ nodes[s].entering \subseteq nodes[r].entering

-----------------------------------------------------------------------------
(* The algorithms. *)

Init ==
  /\ task \in Tasks
  /\ node = <<Root>>
  /\ graph = [reached |-> {1}, addedLast |-> {1},
              frontier |-> FrontierAdd(Keys(node), EmptyFrontier, 1)]
  /\ pc = "begin"
  /\ current = 1
  /\ todo = <<>>
  /\ verdict = [violated |-> {}, satisfied |-> {}, unknown |-> Properties]
  /\ thrown = {}
  /\ precision = {Values}

Choose ==
  /\ pc = "choose"
  /\ ~IsEmpty(graph.frontier)
  /\ Len(node) < MaxNodes
  /\ \E e \in DOMAIN node :
       /\ IsNext(Keys(node), graph.frontier, e)
       /\ Expand(e, Successors(e), Kept(Successors(e)))
  /\ UNCHANGED precision

MergeStop(nodes, g) == Settle(nodes, g, StopsAt(nodes, g, Head(todo)))

Process ==
  /\ pc = "expand"
  /\ todo # <<>>
  /\ LET s        == Head(todo)
         nodes    == Widening(s)
         partners == MergePartners(nodes, s)
     IN IF partners = {} THEN MergeStop(nodes, graph)
        ELSE LET merged == Append(nodes, MergedState(nodes, s, partners))
             IN MergeStop(merged, MergedGraph(merged, partners))
  /\ UNCHANGED precision

TracesMutantReversed(x) ==
  LET back(w) == IF node[w.at].preds = {} THEN {w}
                 ELSE {[at |-> p, seen |-> IF node[w.at].widened THEN Append(w.seen, w.at) ELSE w.seen] :
                         p \in node[w.at].preds}
      walks[i \in 0 .. x] == IF i = 0 THEN {[at |-> x, seen |-> <<>>]}
                             ELSE UNION {back(w) : w \in walks[i - 1]}
  IN {w.seen : w \in walks[x]}

(* The states for which a widening was computed, along any predecessors of x. *)
Traces(x) ==
  LET back(w) == IF node[w.at].preds = {} THEN {w}
                 ELSE {[at |-> p, seen |-> IF node[w.at].widened THEN <<w.at>> \o w.seen ELSE w.seen] :
                         p \in node[w.at].preds}
      walks[i \in 0 .. x] == IF i = 0 THEN {[at |-> x, seen |-> <<>>]}
                             ELSE UNION {back(w) : w \in walks[i - 1]}
  IN {w.seen : w \in walks[x]}

(* The formulas of the blocks of a trace to the target x, one after another.  *)
Blocks(trace, x) == [i \in 1 .. Len(trace) + 1 |-> node[Append(trace, x)[i]].formula]

(* The values after the first i blocks. *)
Passed(blocks) ==
  LET passed[i \in 0 .. Len(blocks)] ==
        IF i = 0 THEN Values ELSE Image(blocks[i], passed[i - 1])
  IN passed

FeasibleTraceMutantLast(blocks) == blocks[Len(blocks)] # {}

FeasibleTrace(blocks) == Passed(blocks)[Len(blocks)] # {}

(* One predicate between each two blocks, for what follows and against what   *)
(* goes before: the interpolants for the tails of the trace.                 *)
Interpolants(blocks) ==
  LET n      == Len(blocks)
      passed == Passed(blocks)
      Between(S, i) == {p \in SUBSET Values : S \subseteq p /\ p \cap passed[i] = {}}
      tails[i \in 1 .. n] ==          \* from the i-th block on
        IF i = n THEN {<<p>> : p \in Between(Origins(blocks[n], Values), n - 1)}
        ELSE UNION {{<<p>> \o t : p \in Between(Origins(blocks[i], t[1]), i - 1)} : t \in tails[i + 1]}
  IN tails[2]

(* Those for single blocks, which relate two values, as predicates on one.    *)
SingleInterpolants(blocks) == {Diagonal(r) : r \in Range(blocks)}

Targets == {x \in graph.addedLast : Target(x) # {}}

(* CEGARAlgorithm: there is no target, or one with a feasible trace.          *)
Check ==
  /\ pc = "check"
  /\ \/ Targets = {}
     \/ \E x \in Targets : \E trace \in Traces(x) : FeasibleTrace(Blocks(trace, x))
  /\ pc' = IF Targets # {} \/ IsEmpty(graph.frontier) THEN "report" ELSE "begin"
  /\ UNCHANGED <<task, node, graph, current, todo, verdict, thrown, precision>>

(* States that no copy in the heaps refers to are forgotten after a refinement, *)
(* and their numbers given again.                                            *)
StillNamed(g) == {x \in DOMAIN node : x = 1 \/ x \in DOMAIN g.frontier.heap}

RestartMutantReplaces(found) ==
  LET children == {y \in graph.reached : 1 \in node[y].preds}
      g        == Removed(node, Waiting(node, graph, 1), children)
  IN /\ precision' = {Values} \cup found
     /\ graph' = g
     /\ node' = SubSeq(node, 1, Max(StillNamed(g)))
     /\ current' = 1
     /\ pc' = IF IsEmpty(g.frontier) THEN "report" ELSE "begin"
     /\ UNCHANGED <<task, todo, verdict, thrown>>

(* refinePrecision: the interpolants are added to the precision, the root has *)
(* to be expanded again, and all other states leave the graph.               *)
Restart(found) ==
  LET children == {y \in graph.reached : 1 \in node[y].preds}
      g        == Removed(node, Waiting(node, graph, 1), children)
  IN /\ precision' = precision \cup found
     /\ graph' = g
     /\ node' = SubSeq(node, 1, Max(StillNamed(g)))
     /\ current' = 1
     /\ pc' = IF IsEmpty(g.frontier) THEN "report" ELSE "begin"
     /\ UNCHANGED <<task, todo, verdict, thrown>>

Refine ==
  /\ pc = "check"
  /\ \E x \in Targets : \E trace \in Traces(x) :
       LET blocks == Blocks(trace, x)
       IN /\ ~FeasibleTrace(blocks)
          /\ \/ /\ Len(blocks) = 1
                /\ Throw({"no_interpolants"})
                /\ UNCHANGED precision
             \/ /\ Len(blocks) > 1
                /\ \E itp \in Interpolants(blocks), more \in SUBSET SingleInterpolants(blocks) :
                     Restart(Range(itp) \cup more)

Next ==
  \/ Choose \/ Process \/ Check \/ Refine
  \/ (Begin \/ Expanded \/ Explored \/ Report) /\ UNCHANGED precision

Spec == Init /\ [][Next]_allVars

(* Fairness: the program runs on while it can, WF_allVars(Next).  It is stated*)
(* for pc, which is cheaper to evaluate: Next is enabled where CanStep is, and*)
(* pc moves on in the end, as the successors in todo are finitely many.      *)
CanStep == pc # "done" /\ (pc = "choose" /\ ~IsEmpty(graph.frontier) => Len(node) < MaxNodes)
GoesOn   == CanStep /\ pc' \in States
FairSpec == Spec /\ WF_pc(GoesOn)

(* What the result of the analysis promises. *)
Promise == INSTANCE Verdicts WITH
  wrong     <- task.wrong,
  violated  <- verdict.violated,
  satisfied <- verdict.satisfied,
  unknown   <- verdict.unknown,
  ended     <- pc = "done"

-----------------------------------------------------------------------------
(* Properties. *)

(* "We assume that there is only one unique sequence of abstraction states     *)
(* along the abstract reachability relation" (checkIsFeasible): states merge  *)
(* within their block only, although the trace follows any predecessor.      *)
UniqueTrace ==
  pc \in {"choose", "check"} => \A x \in graph.reached : Cardinality(Traces(x)) = 1

(* No exception is thrown: a parent is missing, the frontier does not find    *)
(* its next turn, or an infeasible trace has no place for an interpolant     *)
(* ("there should have been at least 2", buildInterpolationProblem).          *)
NoException == thrown = {}

(* A property is reported as violated only if some execution violates it: the *)
(* formulas of the blocks on one way to a target, with those of merged states, *)
(* describe executions only, and summaries, which stand for more, decide      *)
(* nothing (AbstractionRefiner.checkIsFeasible).                             *)
Precise == verdict.violated \subseteq task.wrong

(* A property is reported as satisfied only if no execution violates it: no    *)
(* covered state, merge, refinement or restart leaves a target unexplored     *)
(* (CEGARAlgorithm.run, AbstractionStopOperator).                            *)
Sound == verdict.satisfied \cap task.wrong = {}

(* A refinement makes the precision larger: if it did not, the same target    *)
(* would be found for ever (refinePrecision).                                *)
RefinesAlways == [][pc = "check" /\ graph' # graph => precision' # precision]_allVars

(* The analysis ends: there are finitely many predicates, and on every cycle  *)
(* the summaries repeat (CEGARAlgorithm.run, AbstractionStopOperator).        *)
Ends == <>(pc = "done")

(* The verdicts are right and are given as promised, although states that     *)
(* covered others are removed again, merged states have one trace, and the   *)
(* exploration starts anew (MultiPropertyAlgorithm.run, CEGARAlgorithm.run).  *)
KeepsPromise == Promise!Spec
=============================================================================
