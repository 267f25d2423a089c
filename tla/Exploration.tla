----------------------------- MODULE Exploration -----------------------------
(***************************************************************************)
(* What the analyses have in common: the reachability graph with its reached *)
(* set and its frontier, the frame of ReachabilityAlgorithm, and             *)
(* MultiPropertyAlgorithm.  The program [task] gives the order of the control *)
(* states, key, and the properties they are targets for, error.              *)
(***************************************************************************)
EXTENDS Integers, Sequences, FiniteSets, Bags, FiniteSetsExt, TLC, FrontierSets

CONSTANT Properties        \* what is checked

VARIABLES
  task,        \* the program, fixed in the initial state
  node,        \* every state that was created; its place is its id
  graph,       \* [reached, addedLast, frontier]: what the state sets hold
  pc,          \* begin, choose, expand, check, report, done
  current,     \* the state that is being expanded
  todo,        \* its successors that are still to be processed
  verdict,     \* [violated, satisfied, unknown]
  thrown       \* the exceptions that ended the analysis

States == {"begin", "choose", "expand", "check", "report", "done"}

vars == <<task, node, graph, pc, current, todo, verdict, thrown>>

-----------------------------------------------------------------------------
(* The reachability graph.  The operators get the states as an argument: the *)
(* graph changes several times in one action, after a state was created.     *)

Keys(nodes) == [x \in DOMAIN nodes |-> task.key[nodes[x].control]]
Target(x)   == task.error[node[x].control]
Fresh       == Len(node) + 1

(* What is below x.  A state has a larger id than its predecessors.          *)
Below(nodes, g, x) ==
  LET extend(S, i) == S \cup {z \in {i} \cap g.reached : nodes[z].preds \cap S # {}}
      below[i \in x .. Len(nodes)] == IF i = x THEN {x} ELSE extend(below[i - 1], i)
  IN below[Len(nodes)] \ {x}

WithBelowMutantChildren(nodes, g, xs) ==
  xs \cup {z \in g.reached : nodes[z].preds \cap xs # {}}

WithBelow(nodes, g, xs) == xs \cup UNION {Below(nodes, g, x) : x \in xs}

Waiting(nodes, g, x) == [g EXCEPT !.frontier = FrontierAdd(Keys(nodes), @, x)]

ReAdded(nodes, f, pairs) == FoldSet(LAMBDA pair, h : FrontierAdd(Keys(nodes), h, pair[2]), f, pairs)

ReachedAdd(g, x) == [g EXCEPT !.reached = @ \cup {x}, !.addedLast = {x}]

Without(nodes, g, xs) ==
  [g EXCEPT !.reached = @ \ xs, !.addedLast = @ \ xs,
            !.frontier = FrontierRemoveAll(Keys(nodes), @, xs)]

BereavedMutantNone(nodes, lost, gone) == {}

BereavedMutantGone(nodes, lost, gone) ==
  {pair \in lost \X DOMAIN nodes : pair[2] \in nodes[pair[1]].preds}

(* The states that stay and lose a child, other than the one that is removed *)
(* on purpose: once for each child.                                          *)
Bereaved(nodes, lost, gone) ==
  {pair \in lost \X DOMAIN nodes : pair[2] \in nodes[pair[1]].preds \ gone}

(* remove: xs and all below leave the graph.  If one of those below was still *)
(* to be expanded then their other parents have to be expanded again, and    *)
(* what the siblings lead to is removed as well.                             *)
Removed(nodes, g, xs) ==
  LET gone     == WithBelow(nodes, g, xs)
      again    == IF (gone \ xs) \cap g.frontier.elements = {} THEN {}
                    ELSE Bereaved(nodes, gone \ xs, gone)
      siblings == {y \in g.reached : \E pair \in again : pair[2] \in nodes[y].preds}
      cut      == {z \in g.reached : nodes[z].preds \cap siblings # {}}
      readded  == [g EXCEPT !.frontier = ReAdded(nodes, @, again)]
  IN Without(nodes, readded, gone \cup WithBelow(nodes, g, cut))

(* mergeInto puts the new state in the place of the states it is made of.     *)
MergedGraph(nodes, partners) ==
  LET waiting == [graph EXCEPT !.frontier =
                    FrontierRemoveAll(Keys(nodes), FrontierAdd(Keys(nodes), @, Fresh), partners)]
  IN Removed(nodes, ReachedAdd(waiting, Fresh), partners)

(* The precondition of adding x: its predecessors are there.                 *)
Orphan(nodes, g, x) == ~(nodes[x].preds \subseteq g.reached)

-----------------------------------------------------------------------------
(* The algorithms.                                                           *)

(* An exception passes all algorithms; the verdicts are reported as they are.*)
Throw(faults) ==
  /\ thrown' = faults
  /\ pc' = "done"
  /\ UNCHANGED <<task, node, graph, current, todo, verdict>>

(* CEGARAlgorithm, or its heir, calls the reachability algorithm. *)
Begin ==
  /\ pc = "begin"
  /\ pc' = "choose"
  /\ UNCHANGED <<task, node, graph, current, todo, verdict, thrown>>

(* CHOOSE and SUCC: take the state e from the frontier, compute its successors *)
(* next; those to be processed are kept.                                     *)
Expand(e, next, kept) ==
  LET keys   == Keys(node)
      others == FrontierRemove(keys, Peeked(keys, graph.frontier), e)
  IN IF Endless(others) THEN Throw({"no_next_turn"})
     ELSE /\ graph' = [graph EXCEPT !.frontier = others]
          /\ node' = node \o next
          /\ current' = e
          /\ todo' = kept
          /\ pc' = "expand"
          /\ UNCHANGED <<task, verdict, thrown>>

(* MERGE, STOP and TARGET for the next successor s: mergeInto computes the new *)
(* nodes and the new graph g; s is added if nothing covers it.               *)
Faults(nodes, g, s, covered) ==
  {f \in {"no_parent", "no_next_turn"} :
     \/ f = "no_parent" /\ \E x \in DOMAIN nodes \ DOMAIN node : Orphan(nodes, graph, x)
     \/ f = "no_parent" /\ ~covered /\ Orphan(nodes, g, s)
     \/ f = "no_next_turn" /\ Endless(g.frontier)}

Settle(nodes, g, covered) ==
  LET s      == Head(todo)
      faults == Faults(nodes, g, s, covered)
  IN IF faults # {} THEN Throw(faults)
     ELSE /\ node' = nodes
          /\ IF covered THEN graph' = g /\ pc' = pc /\ todo' = Tail(todo)
             ELSE /\ graph' = ReachedAdd(Waiting(nodes, g, s), s)
                  /\ IF Target(s) # {} THEN pc' = "check" /\ todo' = <<>>
                                       ELSE pc' = pc /\ todo' = Tail(todo)
          /\ UNCHANGED <<task, current, verdict, thrown>>

(* All successors are processed. *)
Expanded ==
  /\ pc = "expand"
  /\ todo = <<>>
  /\ pc' = "choose"
  /\ UNCHANGED <<task, node, graph, current, todo, verdict, thrown>>

(* The frontier is empty: the reachability algorithm ends. *)
Explored ==
  /\ pc = "choose"
  /\ IsEmpty(graph.frontier)
  /\ pc' = "check"
  /\ UNCHANGED <<task, node, graph, current, todo, verdict, thrown>>

ReportMutantForgets ==
  /\ pc = "report"
  /\ LET found == UNION {Target(x) : x \in graph.addedLast}
         done  == IsEmpty(graph.frontier) \/ (found # {} /\ task.stopAtViolation)
     IN /\ verdict' = [violated  |-> found,
                       satisfied |-> IF IsEmpty(graph.frontier) THEN Properties \ found ELSE {},
                       unknown   |-> IF IsEmpty(graph.frontier) THEN {} ELSE Properties \ found]
        /\ pc' = IF done THEN "done" ELSE "begin"
  /\ UNCHANGED <<task, node, graph, current, todo, thrown>>

(* MultiPropertyAlgorithm: note what the state added last violates; what is  *)
(* not violated when the frontier is empty is satisfied.                     *)
Report ==
  /\ pc = "report"
  /\ LET found    == UNION {Target(x) : x \in graph.addedLast}
         violated == verdict.violated \cup found
         unknown  == verdict.unknown \ violated
     IN \/ /\ found # {} /\ task.stopAtViolation
           /\ verdict' = [verdict EXCEPT !.violated = violated, !.unknown = unknown]
           /\ pc' = "done"
        \/ /\ found = {} \/ ~task.stopAtViolation
           /\ IsEmpty(graph.frontier)
           /\ verdict' = [violated |-> violated, satisfied |-> unknown, unknown |-> {}]
           /\ pc' = "done"
        \/ /\ found = {} \/ ~task.stopAtViolation
           /\ ~IsEmpty(graph.frontier)
           /\ verdict' = [verdict EXCEPT !.violated = violated, !.unknown = unknown]
           /\ pc' = "begin"
  /\ UNCHANGED <<task, node, graph, current, todo, thrown>>
=============================================================================
