----------------------------- MODULE Reachability -----------------------------
(***************************************************************************)
(* The algorithms that unroll the reachability graph of a program, in the   *)
(* configuration for bounded model checking: ReachabilityAlgorithm, called  *)
(* by FeasibilityAlgorithm, called by MultiPropertyAlgorithm, on the graph  *)
(* analysis with NewMergeIntoOperator, IfMergedStopOperator and the order   *)
(* of construction WaitAtMeet.                                              *)
(*                                                                         *)
(* An abstract state is a control state (everything shouldMerge compares)   *)
(* and a formula.  Control states and their steps are given by the program  *)
(* under analysis; a formula is the set of the inputs that satisfy it.      *)
(***************************************************************************)
EXTENDS Exploration

CONSTANTS
  Tasks,                   \* the programs under analysis, see IsTask
  Inputs,                  \* the inputs of a program
  MaxNodes                 \* a bound of the model: states that are ever created

-----------------------------------------------------------------------------
(* Programs.  A step [to, guard] can be taken with the inputs in guard.      *)
IsTask(k) ==
  /\ 0 \in DOMAIN k.steps
  /\ DOMAIN k.error = DOMAIN k.steps /\ DOMAIN k.key = DOMAIN k.steps
  /\ \A c \in DOMAIN k.steps :
       /\ k.steps[c] \in Seq([to : DOMAIN k.steps, guard : SUBSET Inputs])
       /\ k.error[c] \subseteq Properties
       /\ k.error[c] # {} => k.steps[c] = <<>>          \* a target ends the program
       /\ k.key[c] \in [part : Int, rank : Int]
       /\ \A i, j \in DOMAIN k.steps[c] :                 \* the thread that was stepped
            k.key[k.steps[c][i].to].part = k.key[k.steps[c][j].to].part
  /\ k.stopAtViolation \in BOOLEAN                   \* shouldTerminateAfterViolation
  /\ k.limited \in BOOLEAN                           \* there is a time budget that may be exhausted

ASSUME TasksAssumption == \A k \in Tasks : IsTask(k)
ASSUME ConstantsAssumption ==
  /\ Properties # {}
  /\ MaxNodes \in Nat

Controls == DOMAIN task.steps

(* The control states that an execution with input v reaches. *)
Closed(S, v) ==
  /\ 0 \in S
  /\ \A c \in S : \A i \in DOMAIN task.steps[c] :
       v \in task.steps[c][i].guard => task.steps[c][i].to \in S
Reaches(v, c) == \A S \in SUBSET Controls : Closed(S, v) => c \in S

Violates(p) == \E c \in Controls : p \in task.error[c] /\ \E v \in Inputs : Reaches(v, c)

-----------------------------------------------------------------------------
(* NewMergeIntoOperator: a new state s and the reached states with the same  *)
(* control, see OnePerControl, become one new state that replaces them.      *)

MergePartners(s) == {r \in graph.reached : node[r].control = node[s].control}

MergedStateMutantInputs(s, partners) ==
  LET parts == partners \cup {s}
  IN [control |-> node[s].control,
      inputs  |-> node[s].inputs,
      preds   |-> UNION {node[r].preds : r \in parts},
      mergeOf |-> {Fresh} \cup UNION {node[r].mergeOf : r \in parts}]

MergedState(s, partners) ==
  LET parts == partners \cup {s}
  IN [control |-> node[s].control,
      inputs  |-> UNION {node[r].inputs : r \in parts},
      preds   |-> UNION {node[r].preds : r \in parts},
      mergeOf |-> {Fresh} \cup UNION {node[r].mergeOf : r \in parts}]

StopsAtMutantNever(nodes, g, s) == FALSE

(* IfMergedStopOperator, on the states with the same control.                *)
StopsAt(nodes, g, s) ==
  \E r \in g.reached : nodes[r].control = nodes[s].control /\ s \in nodes[r].mergeOf

-----------------------------------------------------------------------------
(* The algorithms.                                                           *)

Init ==
  /\ task \in Tasks
  /\ node = <<[control |-> 0, inputs |-> Inputs, preds |-> {}, mergeOf |-> {1}]>>
  /\ graph = [reached |-> {1}, addedLast |-> {1},
              frontier |-> FrontierAdd(Keys(node), EmptyFrontier, 1)]
  /\ pc = "begin"
  /\ current = 1
  /\ todo = <<>>
  /\ verdict = [violated |-> {}, satisfied |-> {}, unknown |-> Properties]
  /\ thrown = {}

SuccessorsMutantId(e) ==
  LET steps == task.steps[node[e].control]
  IN [i \in 1 .. Len(steps) |->
        [control |-> steps[i].to,
         inputs  |-> node[e].inputs \cap steps[i].guard,
         preds   |-> {e},
         mergeOf |-> {Fresh + i}]]

(* CHOOSE and SUCC: take a state from the frontier, compute its successors.  *)
Successors(e) ==
  LET steps == task.steps[node[e].control]
  IN [i \in 1 .. Len(steps) |->
        [control |-> steps[i].to,
         inputs  |-> node[e].inputs \cap steps[i].guard,
         preds   |-> {e},
         mergeOf |-> {Fresh + i - 1}]]

Choose ==
  /\ pc = "choose"
  /\ ~IsEmpty(graph.frontier)
  /\ Len(node) < MaxNodes
  /\ \E e \in DOMAIN node :
       /\ IsNext(Keys(node), graph.frontier, e)
       /\ Expand(e, Successors(e), [i \in 1 .. Len(Successors(e)) |-> Fresh + i - 1])

MergeStop(nodes, g) == Settle(nodes, g, StopsAt(nodes, g, Head(todo)))

Process ==
  /\ pc = "expand"
  /\ todo # <<>>
  /\ LET s        == Head(todo)
         partners == MergePartners(s)
     IN IF partners = {} THEN MergeStop(node, graph)
        ELSE LET nodes == Append(node, MergedState(s, partners))
             IN MergeStop(nodes, MergedGraph(nodes, partners))

CheckMutantNoFeasibility ==
  /\ pc = "check"
  /\ pc' = IF (\E x \in graph.addedLast : Target(x) # {}) \/ IsEmpty(graph.frontier)
             THEN "report" ELSE "begin"
  /\ UNCHANGED <<task, node, graph, current, todo, verdict, thrown>>

CheckMutantEndless ==
  /\ pc = "check"
  /\ LET targets  == {x \in graph.addedLast : Target(x) # {}}
         feasible == \E t \in targets : node[t].inputs # {}
     IN /\ graph' = IF targets = {} \/ feasible THEN graph ELSE Removed(node, graph, targets)
        /\ pc' = IF feasible THEN "report" ELSE "begin"
        /\ UNCHANGED <<task, node, current, todo, verdict, thrown>>

(* FeasibilityAlgorithm: a feasible target is reported, an infeasible one is  *)
(* removed; the exploration goes on while there are states to expand.        *)
Check ==
  /\ pc = "check"
  /\ LET targets  == {x \in graph.addedLast : Target(x) # {}}
         feasible == \E t \in targets : node[t].inputs # {}
         g        == IF targets = {} \/ feasible THEN graph ELSE Removed(node, graph, targets)
     IN IF Endless(g.frontier) THEN Throw({"no_next_turn"})
        ELSE /\ graph' = g
             /\ pc' = IF feasible \/ IsEmpty(g.frontier) THEN "report" ELSE "begin"
             /\ UNCHANGED <<task, node, current, todo, verdict, thrown>>

(* The budget is exhausted at one of the places that ask for it: before the   *)
(* reachability algorithm is called, and after a successor was processed.    *)
Exhausted ==
  /\ task.limited
  /\ \/ pc = "begin"
     \/ pc = "expand" /\ Len(todo) < Len(task.steps[node[current].control])
  /\ pc' = "done"
  /\ UNCHANGED <<task, node, graph, current, todo, verdict, thrown>>

Next == Begin \/ Choose \/ Process \/ Expanded \/ Explored \/ Check \/ Report \/ Exhausted

Spec == Init /\ [][Next]_vars

(* Fairness: the program runs on while it can, WF_vars(Next).  It is stated  *)
(* for pc, which is cheaper to evaluate: Next is enabled where CanStep is, and*)
(* pc moves on in the end, as the successors in todo are finitely many.      *)
CanStep == pc # "done" /\ (pc = "choose" /\ ~IsEmpty(graph.frontier) => Len(node) < MaxNodes)
GoesOn   == CanStep /\ pc' \in States
FairSpec == Spec /\ WF_pc(GoesOn)

(* What the result of the analysis promises. *)
Promise == INSTANCE Verdicts WITH
  wrong     <- {p \in Properties : Violates(p)},
  violated  <- verdict.violated,
  satisfied <- verdict.satisfied,
  unknown   <- verdict.unknown,
  ended     <- pc = "done"

-----------------------------------------------------------------------------
(* Properties.                                                               *)

(* The variables have their types. *)
TypeOK ==
  /\ IsTask(task)
  /\ \A x \in DOMAIN node :
       /\ node[x].control \in Controls
       /\ node[x].inputs \subseteq Inputs
       /\ node[x].preds \subseteq 1 .. x - 1
       /\ node[x].mergeOf \subseteq 1 .. x
  /\ graph.reached \cup graph.addedLast \subseteq DOMAIN node
  /\ DOMAIN graph.frontier.heap \cup graph.frontier.elements \subseteq DOMAIN node
  /\ pc \in States
  /\ current \in DOMAIN node
  /\ todo \in Seq(DOMAIN node)
  /\ thrown \subseteq {"no_parent", "no_next_turn"}

(* A property is reported as violated only if some execution of the program   *)
(* violates it: merging states with the same control, and taking the target  *)
(* from what was added last, never blames a property wrongly                 *)
(* (MultiPropertyAlgorithm.run, FeasibilityAlgorithm).                       *)
Precise == \A p \in verdict.violated : Violates(p)

(* A property is reported as satisfied only if no execution violates it, in   *)
(* whatever order merges, removals, re-explorations and the exhaustion of    *)
(* the budget happened (MultiPropertyAlgorithm.run).                         *)
Sound == \A p \in verdict.satisfied : ~Violates(p)

(* In the order that the control analysis gives to programs without cycles,   *)
(* every successor of a reached state that does not wait for its expansion is *)
(* covered by a reached state between two expansions.  Merging replaces       *)
(* states that were expanded already and removes what was below them, so     *)
(* that this depends on re-adding the right states (removeState).            *)
TopologicalOrder ==
  \A c \in Controls : \A i \in DOMAIN task.steps[c] :
    task.key[c].rank < task.key[task.steps[c][i].to].rank

Covered(x, step) ==
  node[x].inputs \cap step.guard # {} =>
    \E y \in graph.reached :
      /\ node[y].control = step.to
      /\ node[x].inputs \cap step.guard \subseteq node[y].inputs

Represented ==
  TopologicalOrder /\ pc \in {"begin", "choose"} =>
    \A x \in graph.reached \ graph.frontier.elements :
      \A i \in DOMAIN task.steps[node[x].control] : Covered(x, task.steps[node[x].control][i])

(* The predecessors of a reached state are reached (GraphReachedSetWrapper):  *)
(* otherwise no path leads from the initial state to a target.               *)
Connected == \A x \in graph.reached : node[x].preds \subseteq graph.reached

(* At most one reached state has a given control state: the new state is      *)
(* merged or it is added, never both (mergeInto, IfMergedStopOperator).      *)
OnePerControl == \A x, y \in graph.reached : node[x].control = node[y].control => x = y

(* The frontier counts right, holds no element twice, and only reached ones,  *)
(* although states are added and removed by the algorithm, by mergeInto and  *)
(* by the reached set (DifferencingFrontierSet.add and remove).              *)
FrontierConsistent ==
  LET f == graph.frontier
  IN /\ f.heap = SetToBag(f.elements)
     /\ f.size = Cardinality(f.elements)
     /\ f.elements \subseteq graph.reached

(* No exception is thrown: "Parent state must exist" of the reached set, and  *)
(* the endless search of the frontier for its next turn.                     *)
NoException == thrown = {}

(* The analysis of a program whose control states have no cycle ends, if they *)
(* are explored in an order that puts successors after their predecessors:   *)
(* re-adding states to the frontier comes to an end.                         *)
Ends == TopologicalOrder ~> pc = "done"

(* The algorithms keep what Verdicts promises: a property gets a verdict once, *)
(* and no merge, removal, further violation, exception or end of the budget   *)
(* takes it back or makes an undecided property satisfied                     *)
(* (MultiPropertyAlgorithm.run, its result callback).                         *)
KeepsPromise == Promise!Spec
=============================================================================
