--------------------------- MODULE ReachabilityProofs ---------------------------
(***************************************************************************)
(* Proofs about Reachability, for every set of programs, inputs and         *)
(* properties.  The first theorems hold for every program and every order of *)
(* the frontier: what they need of it is that a created state is taken from  *)
(* it, and that it counts enough.  The last ones are about the programs of   *)
(* InOrder, whose exploration is complete.                                   *)
(***************************************************************************)
EXTENDS Reachability, ExplorationProofs

-----------------------------------------------------------------------------
(* The inductive invariant.                                                  *)

(* A created state stands for inputs that do reach its control state, and is  *)
(* a merge of itself; its predecessors, and what it is a merge of, are older. *)
Fits(n, x) ==
  /\ \A v \in n.inputs : Reaches(v, n.control)
  /\ x \in n.mergeOf
  /\ n.preds \subseteq 1 .. x - 1
  /\ n.mergeOf \subseteq 1 .. x

NodeOK(x) == Fits(node[x], x)

NodeType == [control : Controls, inputs : SUBSET Inputs, preds : SUBSET Nat, mergeOf : SUBSET Nat]

Nodes ==
  /\ node \in Seq(NodeType)
  /\ \A x \in DOMAIN node : NodeOK(x)

Shape ==
  /\ DOMAIN graph = {"reached", "addedLast", "frontier"}
  /\ graph.reached \subseteq DOMAIN node
  /\ graph.addedLast \subseteq DOMAIN node

Work == todo \in Seq(DOMAIN node)

(* At most one state was added last, and once the feasibility was checked a   *)
(* target among them is feasible.                                            *)
Latest ==
  /\ \A x, y \in graph.addedLast : x = y
  /\ pc = "report" => \A x \in graph.addedLast : Target(x) # {} => node[x].inputs # {}

IInv ==
  /\ task \in Tasks
  /\ Nodes
  /\ Shape
  /\ Orderly(node, graph)
  /\ Work
  /\ Latest
  /\ VerdictShape
  /\ OnePerControl
  /\ Precise

-----------------------------------------------------------------------------
(* Lemmas.                                                                   *)

(* The parts of the assumption on programs. *)
StepType == [to : Controls, guard : SUBSET Inputs]

LEMMA TaskType ==
  ASSUME task \in Tasks
  PROVE  /\ 0 \in Controls
         /\ \A c \in Controls : /\ task.steps[c] \in Seq(StepType)
                                /\ task.error[c] \subseteq Properties
BY TasksAssumption DEF IsTask, Controls, StepType

(* An execution reaches the initial control state. *)
LEMMA ReachesInitial ==
  ASSUME NEW v
  PROVE  Reaches(v, 0)
BY DEF Reaches, Closed

(* An execution that reaches a control state reaches what a step leads to. *)
LEMMA ReachesStep ==
  ASSUME NEW c \in Controls, NEW i \in DOMAIN task.steps[c], NEW v \in task.steps[c][i].guard,
         Reaches(v, c)
  PROVE  Reaches(v, task.steps[c][i].to)
BY DEF Reaches, Closed

(* The predecessors of a state are older. *)
LEMMA IsOrdered ==
  ASSUME IInv
  PROVE  /\ Ordered(node, graph)
         /\ Len(node) \in Nat /\ DOMAIN node = 1 .. Len(node)
BY DEF IInv, Nodes, NodeOK, Fits, Shape, Ordered

-----------------------------------------------------------------------------
(* The initial states. *)
LEMMA InitIInv == Init => IInv
<1> SUFFICES ASSUME Init PROVE IInv
  OBVIOUS
<1> USE DEF Init
<1>1. node \in Seq(NodeType)
  BY TaskType, SMT DEF NodeType
<1>2. \A x \in DOMAIN node : NodeOK(x)
  BY ReachesInitial DEF NodeOK, Fits
<1>3. Shape /\ Work
  BY DEF Shape, Work
<1>4. Latest /\ VerdictShape
  BY DEF Latest, VerdictShape
<1>5. OnePerControl /\ Precise
  BY DEF OnePerControl, Precise
<1>6. Counted(EmptyFrontier, {1})
  BY FS_EmptySet DEF Counted, EmptyFrontier, EmptyBag, SetToBag
<1>7. Counted(graph.frontier, {1}) /\ graph.frontier.elements = {1}
  <2> DEFINE keys == Keys(node)
             e    == EmptyFrontier
  <2>1. graph.frontier = FrontierAdd(keys, e, 1) /\ Counted(e, {1}) /\ 1 \in {1} /\ e.elements = {}
    BY <1>6 DEF EmptyFrontier
  <2> HIDE DEF keys, e
  <2>2. Counted(FrontierAdd(keys, e, 1), {1}) /\ Gains(e, FrontierAdd(keys, e, 1), {1})
    BY <2>1, AddCounted
  <2> QED BY <2>1, <2>2 DEF Gains
<1>8. Orderly(node, graph)
  <2>1. /\ Len(node) = 1 /\ 1 .. 1 = {1} /\ node[1].preds = {}
        /\ graph.reached = {1} /\ DOMAIN graph = {"reached", "addedLast", "frontier"}
    OBVIOUS
  <2> QED BY <1>7, <2>1 DEF Orderly, Ordered
<1> QED BY <1>1, <1>2, <1>3, <1>4, <1>5, <1>8 DEF IInv, Nodes

-----------------------------------------------------------------------------
(* The steps.                                                                *)

(* A step that changes none of the variables that the invariant is about.     *)
LEMMA SameGraph ==
  ASSUME IInv, UNCHANGED <<task, node, graph, todo, verdict>>, pc' # "report"
  PROVE  IInv'
<1> USE DEF IInv, Controls, Target, Closed, Reaches, Violates
<1>1. Nodes'
  BY DEF Nodes, NodeOK, Fits, NodeType
<1>2. Shape' /\ Work' /\ VerdictShape' /\ OnePerControl' /\ Precise'
  BY DEF Shape, Work, VerdictShape, OnePerControl, Precise
<1>3. Latest'
  BY DEF Latest
<1>4. Orderly(node, graph)'
  BY DEF Orderly, Ordered
<1> QED BY <1>1, <1>2, <1>3, <1>4

LEMMA ThrowIInv ==
  ASSUME IInv, NEW faults, Throw(faults)
  PROVE  IInv'
BY SameGraph DEF Throw

(* The property of a feasible target is violated. *)
LEMMA TargetViolates ==
  ASSUME Nodes, NEW x \in DOMAIN node, node[x].inputs # {}, NEW p \in Target(x)
  PROVE  Violates(p)
<1>1. node[x] \in NodeType /\ NodeOK(x)
  BY DEF Nodes
<1>2. PICK v \in node[x].inputs : TRUE
  OBVIOUS
<1>3. /\ node[x].control \in Controls
      /\ v \in Inputs
      /\ Reaches(v, node[x].control)
  BY <1>1, <1>2 DEF NodeType, NodeOK, Fits
<1> QED BY <1>3 DEF Violates, Target

LEMMA ReportIInv ==
  ASSUME IInv, Report
  PROVE  IInv'
<1> DEFINE found == UNION {Target(x) : x \in graph.addedLast}
<1>1. DOMAIN verdict = {"violated", "satisfied", "unknown"}
  BY DEF IInv, VerdictShape
<1> DEFINE violated == verdict.violated \cup found
           unknown  == verdict.unknown \ violated
<1>2. /\ UNCHANGED <<task, node, graph, todo>>
      /\ pc = "report" /\ pc' \in {"done", "begin"}
      /\ \/ verdict' = [verdict EXCEPT !.violated = violated, !.unknown = unknown]
         \/ verdict' = [violated |-> violated, satisfied |-> unknown, unknown |-> {}]
  BY DEF Report
<1> HIDE DEF unknown, found
<1>3. /\ DOMAIN verdict' = {"violated", "satisfied", "unknown"}
      /\ verdict'.violated = violated
  <2> HIDE DEF violated
  <2>1. CASE verdict' = [verdict EXCEPT !.violated = violated, !.unknown = unknown]
    <3> DEFINE first == [verdict EXCEPT !.violated = violated]
    <3>1. DOMAIN first = {"violated", "satisfied", "unknown"} /\ first.violated = violated
      BY <1>1
    <3>2. verdict' = [first EXCEPT !.unknown = unknown]
      BY <2>1
    <3> HIDE DEF first
    <3> QED BY <3>1, <3>2
  <2>2. CASE verdict' = [violated |-> violated, satisfied |-> unknown, unknown |-> {}]
    BY <2>2
  <2> QED BY <1>2, <2>1, <2>2
<1>4. /\ UNCHANGED <<task, node, graph, todo>>
      /\ pc = "report" /\ pc' \in {"done", "begin"}
      /\ VerdictShape'
      /\ verdict'.violated = verdict.violated \cup found
  BY <1>2, <1>3 DEF VerdictShape
<1> USE DEF found
<1>5. \A p \in found : Violates(p)
  <2> SUFFICES ASSUME NEW x \in graph.addedLast, NEW p \in Target(x) PROVE Violates(p)
    OBVIOUS
  <2>1. x \in DOMAIN node /\ node[x].inputs # {}
    BY <1>4 DEF IInv, Shape, Latest
  <2> QED BY <2>1, TargetViolates DEF IInv
<1> HIDE DEF found
<1>6. Precise'
  BY <1>4, <1>5 DEF IInv, Precise, Violates, Controls, Reaches, Closed
<1>7. Nodes'
  BY <1>4 DEF IInv, Nodes, NodeOK, Fits, NodeType, Controls, Reaches, Closed
<1>8. Shape' /\ Work' /\ OnePerControl' /\ Latest'
  BY <1>4 DEF IInv, Shape, Work, OnePerControl, Latest
<1>9. Orderly(node, graph)'
  BY <1>4 DEF IInv, Orderly, Ordered
<1> QED BY <1>4, <1>6, <1>7, <1>8, <1>9 DEF IInv

(* The graph loses states: what the invariant says of it stays true. *)
LEMMA SmallerGraph ==
  ASSUME IInv, UNCHANGED <<task, node, todo, verdict>>,
         DOMAIN graph' = DOMAIN graph,
         Orderly(node, graph'),
         graph'.reached \subseteq graph.reached,
         graph'.addedLast \subseteq graph.addedLast,
         pc' = "report" => \A x \in graph'.addedLast : Target(x) # {} => node[x].inputs # {}
  PROVE  IInv'
<1>1. Nodes'
  BY DEF IInv, Nodes, NodeOK, Fits, NodeType, Controls, Reaches, Closed
<1>2. Shape' /\ Work' /\ VerdictShape'
  BY DEF IInv, Shape, Work, VerdictShape
<1>3. OnePerControl'
  BY DEF IInv, OnePerControl
<1>4. Precise'
  BY DEF IInv, Precise, Violates, Controls, Reaches, Closed
<1>5. Latest'
  BY DEF IInv, Latest, Target
<1>6. Orderly(node, graph)'
  BY DEF Orderly, Ordered
<1> QED BY <1>1, <1>2, <1>3, <1>4, <1>5, <1>6 DEF IInv

LEMMA CheckIInv ==
  ASSUME IInv, Check
  PROVE  IInv'
<1> DEFINE targets  == {x \in graph.addedLast : Target(x) # {}}
           feasible == \E t \in targets : node[t].inputs # {}
           g        == IF targets = {} \/ feasible THEN graph ELSE Removed(node, graph, targets)
<1>1. CASE Endless(g.frontier)
  BY <1>1, ThrowIInv DEF Check
<1>2. CASE ~Endless(g.frontier)
  <2>1. /\ graph' = g
        /\ UNCHANGED <<task, node, todo, verdict>>
        /\ pc' = IF feasible \/ IsEmpty(g.frontier) THEN "report" ELSE "begin"
    BY <1>2 DEF Check
  <2>2. CASE targets = {} \/ feasible
    <3>1. graph' = graph
      BY <2>1, <2>2
    <3>2. \A x \in graph.addedLast : Target(x) # {} => node[x].inputs # {}
      BY <2>2 DEF IInv, Latest
    <3>3. Orderly(node, graph')
      BY <3>1 DEF IInv
    <3> QED BY <2>1, <3>1, <3>2, <3>3, SmallerGraph
  <2>3. CASE ~(targets = {} \/ feasible)
    <3>1. graph' = Removed(node, graph, targets)
      BY <2>1, <2>3
    <3>2. DOMAIN graph = {"reached", "addedLast", "frontier"}
      BY DEF IInv, Shape
    <3>2a. targets \subseteq 1 .. Len(node)
      BY IsOrdered DEF IInv, Shape
    <3> HIDE DEF targets
    <3>2b. Orderly(node, graph')
      BY <3>1, <3>2a, IsOrdered, RemovedOrderly DEF IInv
    <3>3. /\ DOMAIN graph' = DOMAIN graph
          /\ graph'.reached \subseteq graph.reached
          /\ graph'.addedLast \subseteq graph.addedLast \ targets
      <4>1. Shrinks(node, graph, graph', targets)
        BY <3>1, <3>2, <3>2a, IsOrdered, RemovedKeeps
      <4> QED BY <4>1 DEF Shrinks
    <3>4. \A x \in graph'.addedLast : Target(x) = {}
      BY <3>3 DEF targets
    <3> QED BY <2>1, <3>2b, <3>3, <3>4, SmallerGraph
  <2> QED BY <2>2, <2>3
<1> QED BY <1>1, <1>2

(* The successors of a state stand for inputs that reach their control states. *)
LEMMA SuccessorsOK ==
  ASSUME IInv, NEW e \in DOMAIN node
  PROVE  /\ Successors(e) \in Seq(NodeType)
         /\ \A i \in DOMAIN Successors(e) : Fits(Successors(e)[i], Len(node) + i)
<1> DEFINE steps == task.steps[node[e].control]
           next(i) == [control |-> steps[i].to,
                       inputs  |-> node[e].inputs \cap steps[i].guard,
                       preds   |-> {e},
                       mergeOf |-> {Fresh + i - 1}]
<1>1. node \in Seq(NodeType) /\ e \in Nat /\ Len(node) \in Nat
  BY DEF IInv, Nodes
<1>2. node[e] \in NodeType /\ NodeOK(e)
  BY DEF IInv, Nodes
<1>3. node[e].control \in Controls /\ node[e].inputs \subseteq Inputs
  BY <1>2 DEF NodeType
<1>4. steps \in Seq(StepType)
  BY <1>3, TaskType DEF IInv
<1>5. Successors(e) = [i \in 1 .. Len(steps) |-> next(i)]
  BY DEF Successors
<1>6. ASSUME NEW i \in 1 .. Len(steps)
      PROVE  /\ next(i) \in NodeType
             /\ Fits(next(i), Len(node) + i)
  <2>1. steps[i] \in StepType /\ i \in DOMAIN steps /\ i \in Nat
    <3> HIDE DEF steps
    <3> QED BY <1>4
  <2>2. {Fresh + i - 1} = {Len(node) + i} /\ Len(node) + i \in Nat
    BY <2>1, <1>1 DEF Fresh
  <2>3. next(i) \in NodeType
    BY <2>1, <2>2, <1>1, <1>3 DEF NodeType, StepType
  <2>4. ASSUME NEW v \in next(i).inputs PROVE Reaches(v, next(i).control)
    <3>1. v \in steps[i].guard /\ Reaches(v, node[e].control)
      BY <1>2 DEF NodeOK, Fits
    <3> QED BY <1>3, <2>1, <3>1, ReachesStep
  <2>5. /\ next(i).preds = {e} /\ e \in 1 .. Len(node) + i - 1
        /\ next(i).mergeOf = {Len(node) + i} /\ Len(node) + i \in 1 .. Len(node) + i
    BY <1>1, <2>1, <2>2
  <2> QED BY <2>3, <2>4, <2>5 DEF Fits
<1> HIDE DEF next, steps
<1>7. Len(steps) \in Nat
  BY <1>4
<1> QED BY <1>5, <1>6, <1>7

(* New states were created, and what the graph holds is what the lemma says:  *)
(* the states that were there before are as they were.                       *)
LEMMA GrownIInv ==
  ASSUME IInv, UNCHANGED <<task, verdict>>,
         Nodes',
         DOMAIN node \subseteq DOMAIN node',
         \A x \in DOMAIN node : node'[x] = node[x],
         todo' \in Seq(DOMAIN node'),
         DOMAIN graph' = {"reached", "addedLast", "frontier"},
         Orderly(node', graph'),
         graph'.reached \subseteq graph.reached,
         graph'.addedLast \subseteq graph.addedLast,
         pc' # "report"
  PROVE  IInv'
<1>1. Shape' /\ Work' /\ VerdictShape'
  BY DEF IInv, Shape, Work, VerdictShape
<1>2. OnePerControl'
  BY DEF IInv, Shape, OnePerControl
<1>3. Precise'
  BY DEF IInv, Precise, Violates, Controls, Reaches, Closed
<1>4. Latest'
  BY DEF IInv, Latest
<1>5. Orderly(node, graph)'
  BY DEF Orderly, Ordered
<1> QED BY <1>1, <1>2, <1>3, <1>4, <1>5 DEF IInv

LEMMA ChooseIInv ==
  ASSUME IInv, Choose
  PROVE  IInv'
<1>1. PICK e \in DOMAIN node :
        LET keys   == Keys(node)
            others == FrontierRemove(keys, Peeked(keys, graph.frontier), e)
            next   == Successors(e)
        IN IF Endless(others) THEN Throw({"no_next_turn"})
           ELSE /\ graph' = [graph EXCEPT !.frontier = others]
                /\ node' = node \o next
                /\ current' = e
                /\ todo' = [i \in 1 .. Len(next) |-> Fresh + i - 1]
                /\ pc' = "expand"
                /\ UNCHANGED <<task, verdict, thrown>>
  BY Zenon DEF Choose, Expand
<1> DEFINE others == FrontierRemove(Keys(node), Peeked(Keys(node), graph.frontier), e)
           next   == Successors(e)
<1>2. CASE Endless(others)
  BY <1>1, <1>2, ThrowIInv
<1>3. CASE ~Endless(others)
  <2>1. /\ graph' = [graph EXCEPT !.frontier = others]
        /\ node' = node \o next
        /\ todo' = [i \in 1 .. Len(next) |-> Fresh + i - 1]
        /\ pc' = "expand"
        /\ UNCHANGED <<task, verdict>>
    BY <1>1, <1>3
  <2>2. /\ next \in Seq(NodeType)
        /\ \A i \in DOMAIN next : Fits(next[i], Len(node) + i)
    BY SuccessorsOK
  <2>3. node \in Seq(NodeType) /\ \A x \in DOMAIN node : NodeOK(x)
    BY DEF IInv, Nodes
  <2> HIDE DEF next, others
  <2>4. /\ node' \in Seq(NodeType)
        /\ DOMAIN node \subseteq DOMAIN node'
        /\ \A x \in DOMAIN node : node'[x] = node[x]
        /\ \A x \in DOMAIN node' \ DOMAIN node :
             \E i \in DOMAIN next : x = Len(node) + i /\ node'[x] = next[i]
    BY <2>1, <2>2, <2>3, Concatenated
  <2>5. ASSUME NEW x \in DOMAIN node'
        PROVE  Fits(node'[x], x)
    BY <2>2, <2>3, <2>4 DEF NodeOK
  <2>6. Nodes'
    BY <2>1, <2>4, <2>5 DEF Nodes, NodeOK, Fits, NodeType, Controls, Reaches, Closed
  <2>7. todo' \in Seq(DOMAIN node')
    BY <2>1, <2>2, <2>3 DEF Fresh
  <2>8. /\ DOMAIN graph' = {"reached", "addedLast", "frontier"}
        /\ graph'.reached = graph.reached /\ graph'.addedLast = graph.addedLast
    BY <2>1 DEF IInv, Shape
  <2>9. Counted(others, 1 .. Len(node)) /\ others.elements \subseteq graph.reached
    <3> DEFINE keys == Keys(node)
               Q    == 1 .. Len(node)
               f    == Peeked(keys, graph.frontier)
    <3>1. Counted(graph.frontier, Q) /\ graph.frontier.elements \subseteq graph.reached
      BY DEF IInv, Orderly
    <3>2. others = FrontierRemove(keys, f, e)
      BY DEF others
    <3> HIDE DEF keys, Q
    <3>3. Counted(f, Q) /\ f.elements = graph.frontier.elements
      BY <3>1, TurnCounted
    <3> HIDE DEF f
    <3>4. Counted(others, Q) /\ Loses(f, others, {e})
      BY <3>2, <3>3, RemoveCounted
    <3> QED BY <3>1, <3>3, <3>4 DEF Loses, Q
  <2>10. Orderly(node', graph')
    <3>1. /\ graph'.frontier = others
          /\ Len(node) \in Nat /\ Len(node') \in Nat
          /\ 1 .. Len(node) \subseteq 1 .. Len(node')
          /\ DOMAIN node = 1 .. Len(node)
      BY <2>1, <2>3, <2>4 DEF IInv, Shape
    <3>2. \A z \in graph.reached : /\ z \in 1 .. Len(node) /\ node'[z] = node[z]
                                   /\ node[z].preds \subseteq 1 .. z - 1
                                   /\ node[z].preds \subseteq graph.reached
      BY <2>4, <3>1 DEF IInv, Orderly, Ordered
    <3>3. Counted(others, 1 .. Len(node'))
      BY <2>9, <3>1 DEF Counted
    <3> QED BY <2>8, <2>9, <3>1, <3>2, <3>3 DEF Orderly, Ordered
  <2> QED BY <2>1, <2>4, <2>6, <2>7, <2>8, <2>10, GrownIInv
<1> QED BY <1>2, <1>3

(* What a merge of s with the reached states of its control creates. *)
LEMMA MergedOK ==
  ASSUME IInv, NEW s \in DOMAIN node
  PROVE  LET m == MergedState(s, MergePartners(s))
         IN /\ m \in NodeType
            /\ m.control = node[s].control
            /\ Fits(m, Len(node) + 1)
            /\ s \in m.mergeOf
<1> DEFINE parts == MergePartners(s) \cup {s}
           m     == MergedState(s, MergePartners(s))
<1>1. m = [control |-> node[s].control,
           inputs  |-> UNION {node[r].inputs : r \in parts},
           preds   |-> UNION {node[r].preds : r \in parts},
           mergeOf |-> {Fresh} \cup UNION {node[r].mergeOf : r \in parts}]
  BY DEF MergedState
<1>2. \A r \in parts : /\ r \in DOMAIN node /\ node[r] \in NodeType /\ NodeOK(r)
                       /\ node[r].control = node[s].control
  BY DEF IInv, Shape, Nodes, MergePartners
<1>3. s \in parts
  OBVIOUS
<1> HIDE DEF parts
<1>4. Fresh = Len(node) + 1 /\ Fresh \in Nat
  BY DEF Fresh, IInv, Nodes
<1>5. m \in NodeType
  BY <1>1, <1>2, <1>3, <1>4 DEF NodeType
<1>6. m.control = node[s].control /\ \A v \in m.inputs : Reaches(v, m.control)
  BY <1>1, <1>2 DEF NodeOK, Fits
<1>7. {s, Fresh} \subseteq m.mergeOf
  BY <1>1, <1>2, <1>3 DEF NodeOK, Fits
<1>8. \A r \in parts : /\ node[r].preds \subseteq 1 .. Fresh - 1
                       /\ node[r].mergeOf \subseteq 1 .. Fresh
  <2>1. \A r \in parts : r \in 1 .. Fresh - 1
    BY <1>2, <1>4, IsOrdered
  <2> QED BY <1>2, <1>4, <2>1 DEF NodeOK, Fits
<1>9. m.preds \subseteq 1 .. Fresh - 1 /\ m.mergeOf \subseteq 1 .. Fresh
  BY <1>1, <1>4, <1>8
<1> QED BY <1>4, <1>5, <1>6, <1>7, <1>9 DEF Fits

(* The graph g is in order unless a merged state has lost a parent. *)
InOrderUnless(nodes, g) ==
  (\A x \in DOMAIN nodes \ DOMAIN node : ~Orphan(nodes, graph, x)) => Orderly(nodes, g)

(* The successor s is added unless a reached state is a merge of it, given    *)
(* that only merges of s have its control.                                   *)
LEMMA MergeStopIInv ==
  ASSUME IInv, todo # <<>>, pc = "expand", NEW nodes, NEW g, MergeStop(nodes, g),
         nodes \in Seq(NodeType),
         DOMAIN node \subseteq DOMAIN nodes,
         \A x \in DOMAIN node : nodes[x] = node[x],
         \A x \in DOMAIN nodes : Fits(nodes[x], x),
         DOMAIN g = {"reached", "addedLast", "frontier"},
         InOrderUnless(nodes, g),
         g.reached \cup g.addedLast \subseteq DOMAIN nodes,
         \A x, y \in g.addedLast : x = y,
         \A x, y \in g.reached : nodes[x].control = nodes[y].control => x = y,
         \A r \in g.reached : nodes[r].control = nodes[Head(todo)].control
                                => Head(todo) \in nodes[r].mergeOf
  PROVE  IInv'
<1> DEFINE s      == Head(todo)
           faults == Faults(nodes, g, s, StopsAt(nodes, g, s))
<1>1. CASE faults # {}
  <2>1. Throw(faults)
    BY <1>1, Zenon DEF MergeStop, Settle
  <2> QED BY <2>1, ThrowIInv
<1>2. CASE faults = {}
  <2>1. /\ node' = nodes
        /\ UNCHANGED <<task, verdict>>
        /\ \/ StopsAt(nodes, g, s) /\ graph' = g
           \/ ~StopsAt(nodes, g, s) /\ graph' = ReachedAdd(Waiting(nodes, g, s), s)
        /\ pc' \in {"expand", "check"}
        /\ todo' \in {Tail(todo), <<>>}
    BY <1>2, Zenon DEF MergeStop, Settle
  <2>2. s \in DOMAIN node /\ todo' \in Seq(DOMAIN node')
    <3>1. todo \in Seq(DOMAIN node)
      BY DEF IInv, Work
    <3>2. s \in DOMAIN node /\ Tail(todo) \in Seq(DOMAIN node)
      BY <3>1
    <3> DEFINE D == DOMAIN node
               E == DOMAIN node'
    <3>3. D \subseteq E /\ Tail(todo) \in Seq(D) /\ <<>> \in Seq(E)
      BY <2>1, <3>2
    <3> HIDE DEF D, E
    <3>4. \A q \in Seq(D) : q \in Seq(E)
      BY <3>3
    <3> QED BY <2>1, <3>2, <3>3, <3>4 DEF D, E
  <2>3. Nodes'
    BY <2>1 DEF Nodes, NodeOK, Fits, NodeType, Controls, Reaches, Closed
  <2>4. /\ DOMAIN graph' = {"reached", "addedLast", "frontier"}
        /\ graph'.reached \cup graph'.addedLast \subseteq DOMAIN nodes
        /\ \A x, y \in graph'.addedLast : x = y
        /\ \A x, y \in graph'.reached : nodes[x].control = nodes[y].control => x = y
    <3>1. CASE StopsAt(nodes, g, s)
      <4>1. graph' = g
        BY <2>1, <3>1
      <4> QED BY <4>1
    <3>2. CASE ~StopsAt(nodes, g, s)
      <4> DEFINE w == Waiting(nodes, g, s)
      <4>1. DOMAIN w = DOMAIN g /\ w.reached = g.reached
        BY DEF Waiting
      <4>2. graph' = [w EXCEPT !.reached = w.reached \cup {s}, !.addedLast = {s}]
        BY <2>1, <3>2 DEF ReachedAdd
      <4> HIDE DEF w
      <4>3. /\ DOMAIN graph' = {"reached", "addedLast", "frontier"}
            /\ graph'.reached = g.reached \cup {s} /\ graph'.addedLast = {s}
        BY <4>1, <4>2
      <4>4. \A r \in g.reached : nodes[r].control # nodes[s].control
        BY <3>2 DEF StopsAt
      <4> QED BY <2>2, <4>3, <4>4
    <3> QED BY <3>1, <3>2
  <2>4a. Orderly(node, graph)'
    <3>1. Orderly(nodes, g) /\ (~StopsAt(nodes, g, s) => nodes[s].preds \subseteq g.reached)
      <4>1. /\ \A x \in DOMAIN nodes \ DOMAIN node : ~Orphan(nodes, graph, x)
            /\ ~StopsAt(nodes, g, s) => ~Orphan(nodes, g, s)
        BY <1>2 DEF Faults
      <4> QED BY <4>1 DEF Orphan, InOrderUnless
    <3>2. CASE StopsAt(nodes, g, s)
      BY <2>1, <3>1, <3>2 DEF Orderly, Ordered
    <3>3. CASE ~StopsAt(nodes, g, s)
      <4> DEFINE f == FrontierAdd(Keys(nodes), g.frontier, s)
                 Q == 1 .. Len(nodes)
                 w == [g EXCEPT !.frontier = f]
      <4>1. graph' = [w EXCEPT !.reached = w.reached \cup {s}, !.addedLast = {s}]
        BY <2>1, <3>3 DEF ReachedAdd, Waiting
      <4>2. /\ Counted(g.frontier, Q) /\ g.frontier.elements \subseteq g.reached
            /\ Ordered(nodes, g) /\ \A z \in g.reached : nodes[z].preds \subseteq g.reached
        BY <3>1 DEF Orderly
      <4>3. s \in Q /\ nodes[s].preds \subseteq 1 .. s - 1
        <5>1. s \in DOMAIN nodes /\ Fits(nodes[s], s)
          BY <2>2
        <5> QED BY <5>1 DEF Fits
      <4> HIDE DEF Q
      <4>4. Counted(f, Q) /\ Gains(g.frontier, f, {s})
        <5> DEFINE keys == Keys(nodes)
        <5>1. f = FrontierAdd(keys, g.frontier, s)
          OBVIOUS
        <5> HIDE DEF keys, f, s
        <5>2. Counted(FrontierAdd(keys, g.frontier, s), Q)
              /\ Gains(g.frontier, FrontierAdd(keys, g.frontier, s), {s})
          BY <4>2, <4>3, AddCounted
        <5> QED BY <5>1, <5>2
      <4> HIDE DEF f
      <4>5. DOMAIN w = DOMAIN g /\ w.reached = g.reached /\ w.frontier = f
        OBVIOUS
      <4> HIDE DEF w
      <4>6. /\ DOMAIN graph' = {"reached", "addedLast", "frontier"}
            /\ graph'.reached = g.reached \cup {s} /\ graph'.frontier = f
        BY <4>1, <4>5
      <4>7. f.elements \subseteq graph'.reached
        BY <4>2, <4>4, <4>6 DEF Gains
      <4>8. Ordered(nodes, graph') /\ \A z \in graph'.reached : nodes[z].preds \subseteq graph'.reached
        BY <3>1, <3>3, <4>2, <4>3, <4>6 DEF Ordered, Q
      <4>9. Orderly(nodes, graph')
        BY <4>4, <4>6, <4>7, <4>8 DEF Orderly, Q
      <4> QED BY <2>1, <4>9 DEF Orderly, Ordered
    <3> QED BY <3>2, <3>3
  <2>5. Shape' /\ Work' /\ VerdictShape' /\ OnePerControl' /\ Latest'
    BY <2>1, <2>2, <2>4 DEF IInv, Shape, Work, VerdictShape, OnePerControl, Latest
  <2>6. Precise'
    BY <2>1 DEF IInv, Precise, Violates, Controls, Reaches, Closed
  <2> QED BY <2>1, <2>3, <2>4a, <2>5, <2>6 DEF IInv
<1> QED BY <1>1, <1>2

LEMMA ProcessIInv ==
  ASSUME IInv, Process
  PROVE  IInv'
<1> DEFINE s        == Head(todo)
           partners == MergePartners(s)
           m        == MergedState(s, partners)
           nodes    == Append(node, m)
           g        == MergedGraph(nodes, partners)
<1>1. /\ pc = "expand" /\ todo # <<>>
      /\ IF partners = {} THEN MergeStop(node, graph) ELSE MergeStop(nodes, g)
  BY Zenon DEF Process
<1>2. /\ node \in Seq(NodeType)
      /\ \A x \in DOMAIN node : Fits(node[x], x)
      /\ DOMAIN graph = {"reached", "addedLast", "frontier"}
      /\ graph.reached \cup graph.addedLast \subseteq DOMAIN node
      /\ \A x, y \in graph.addedLast : x = y
      /\ \A x, y \in graph.reached : node[x].control = node[y].control => x = y
  BY DEF IInv, Nodes, NodeOK, Shape, Latest, OnePerControl
<1>3. s \in DOMAIN node
  <2>1. todo \in Seq(DOMAIN node)
    BY DEF IInv, Work
  <2> QED BY <1>1, <2>1
<1>4. CASE partners = {}
  <2>1. \A r \in graph.reached : node[r].control # node[s].control
    BY <1>4 DEF MergePartners
  <2>2. MergeStop(node, graph)
    BY <1>1, <1>4
  <2>3. InOrderUnless(node, graph)
    BY DEF IInv, InOrderUnless
  <2> QED BY <1>1, <1>2, <2>1, <2>2, <2>3, MergeStopIInv
<1>5. CASE partners # {}
  <2>1. /\ m \in NodeType
        /\ m.control = node[s].control
        /\ Fits(m, Len(node) + 1)
        /\ s \in m.mergeOf
    BY <1>3, MergedOK
  <2> HIDE DEF m, partners
  <2>2. /\ nodes \in Seq(NodeType)
        /\ Fresh = Len(node) + 1
        /\ DOMAIN nodes = DOMAIN node \cup {Fresh}
        /\ Fresh \notin DOMAIN node
        /\ \A x \in DOMAIN node : nodes[x] = node[x]
        /\ nodes[Fresh] = m
    BY <1>2, <2>1 DEF Fresh
  <2>3. /\ DOMAIN g = {"reached", "addedLast", "frontier"}
        /\ g.reached \subseteq (graph.reached \cup {Fresh}) \ partners
        /\ g.addedLast \subseteq {Fresh}
    <3>1. /\ Len(nodes) = Fresh /\ Fresh \in Nat
          /\ \A x \in DOMAIN nodes : x \in 1 .. Fresh /\ nodes[x].preds \subseteq 1 .. x - 1
      <4>1. Fits(nodes[Fresh], Fresh) /\ \A x \in DOMAIN node : Fits(nodes[x], x)
        BY <1>2, <2>1, <2>2
      <4> QED BY <4>1, <1>2, <2>2 DEF Fits
    <3>2. partners \subseteq graph.reached
      BY DEF partners, MergePartners
    <3> HIDE DEF nodes, g
    <3>3. Ordered(nodes, [reached |-> graph.reached \cup {Fresh}])
      BY <1>2, <2>2, <3>1 DEF Ordered
    <3>4. LET h == MergedGraph(nodes, partners)
          IN /\ DOMAIN h = {"reached", "addedLast", "frontier"}
             /\ h.reached \subseteq (graph.reached \cup {Fresh}) \ partners
             /\ h.addedLast \subseteq h.reached \cap {Fresh}
      BY <1>2, <3>2, <3>3, MergedGraphHolds
    <3> QED BY <3>4 DEF g
  <2>4. MergeStop(nodes, g)
    BY <1>1, <1>5
  <2> HIDE DEF nodes, g
  <2>5. \A x \in DOMAIN nodes : Fits(nodes[x], x)
    BY <1>2, <2>1, <2>2
  <2>6. \A r \in g.reached : nodes[r].control = nodes[s].control => r = Fresh
    BY <1>2, <1>3, <2>2, <2>3 DEF partners, MergePartners
  <2>7. /\ nodes[s].control = m.control
        /\ \A r \in g.reached : nodes[r].control = nodes[s].control => s \in nodes[r].mergeOf
    BY <1>3, <2>1, <2>2, <2>6
  <2>8. \A x, y \in g.reached : nodes[x].control = nodes[y].control => x = y
    BY <1>2, <2>2, <2>3, <2>6, <2>7
  <2>9. g.reached \cup g.addedLast \subseteq DOMAIN nodes /\ \A x, y \in g.addedLast : x = y
    BY <1>2, <2>2, <2>3
  <2>10. ASSUME \A x \in DOMAIN nodes \ DOMAIN node : ~Orphan(nodes, graph, x)
         PROVE  Orderly(nodes, g)
    <3>1. nodes[Fresh].preds \subseteq graph.reached
      BY <2>2, <2>10 DEF Orphan
    <3>2. Orderly(node, graph) /\ Len(node) \in Nat /\ DOMAIN node = 1 .. Len(node)
      BY IsOrdered DEF IInv
    <3>3. Len(nodes) = Fresh /\ DOMAIN nodes = 1 .. Len(nodes)
      BY <1>2, <2>2 DEF nodes
    <3>4. partners \subseteq graph.reached
      BY DEF partners, MergePartners
    <3> QED BY <2>2, <3>1, <3>2, <3>3, <3>4, MergedOrderly DEF g
  <2>11. InOrderUnless(nodes, g)
    BY <2>10 DEF InOrderUnless
  <2>12. /\ DOMAIN node \subseteq DOMAIN nodes
         /\ \A x \in DOMAIN node : nodes[x] = node[x]
         /\ DOMAIN g = {"reached", "addedLast", "frontier"}
         /\ \A r \in g.reached : nodes[r].control = nodes[Head(todo)].control
                                => Head(todo) \in nodes[r].mergeOf
    BY <2>2, <2>3, <2>7
  <2> HIDE DEF s
  <2> QED BY <1>1, <2>2, <2>4, <2>5, <2>8, <2>9, <2>11, <2>12, MergeStopIInv, Zenon
<1> QED BY <1>4, <1>5

LEMMA NextIInv ==
  ASSUME IInv, [Next]_vars
  PROVE  IInv'
<1>1. CASE Begin
  BY <1>1, SameGraph DEF Begin
<1>2. CASE Choose
  BY <1>2, ChooseIInv
<1>3. CASE Process
  BY <1>3, ProcessIInv
<1>4. CASE Expanded
  BY <1>4, SameGraph DEF Expanded
<1>5. CASE Explored
  BY <1>5, SameGraph DEF Explored
<1>6. CASE Check
  BY <1>6, CheckIInv
<1>7. CASE Report
  BY <1>7, ReportIInv
<1>8. CASE Exhausted
  BY <1>8, SameGraph DEF Exhausted
<1>9. CASE UNCHANGED vars
  <2>1. UNCHANGED <<task, node, graph, todo, verdict, pc>>
    BY <1>9 DEF vars
  <2>2. pc' = "report" => \A x \in graph'.addedLast : Target(x) # {} => node[x].inputs # {}
    BY <2>1 DEF IInv, Latest
  <2>3. Orderly(node, graph') /\ DOMAIN graph' = DOMAIN graph
    BY <2>1 DEF IInv
  <2> QED BY <2>1, <2>2, <2>3, SmallerGraph
<1> QED BY <1>1, <1>2, <1>3, <1>4, <1>5, <1>6, <1>7, <1>8, <1>9 DEF Next

-----------------------------------------------------------------------------
(* The theorems.                                                             *)

(* No property is ever reported as violated that no execution violates, for   *)
(* all programs, inputs and properties, any order of exploration and any     *)
(* number of merges and removals: what a created state stands for does reach *)
(* its control state, and at most one state was added last when the          *)
(* properties of what was added last are noted as violated.                  *)
THEOREM PreciseCorrect == Spec => []Precise
<1>1. IInv /\ [Next]_vars => IInv'
  BY NextIInv
<1>2. IInv => Precise
  BY DEF IInv
<1> QED BY InitIInv, <1>1, <1>2, PTL DEF Spec

(* No two reached states have the same control state, whatever the order of   *)
(* exploration: a state that mergeInto has merged is a state of the new       *)
(* one's mergeOf, so that it is not added as well.                           *)
THEOREM OnePerControlCorrect == Spec => []OnePerControl
<1>1. IInv /\ [Next]_vars => IInv'
  BY NextIInv
<1>2. IInv => OnePerControl
  BY DEF IInv
<1> QED BY InitIInv, <1>1, <1>2, PTL DEF Spec

-----------------------------------------------------------------------------
(* What else the variables hold, and the theorems on all programs.            *)

Rest ==
  /\ pc \in States
  /\ current \in DOMAIN node
  /\ thrown \subseteq {"no_parent", "no_next_turn"}

LEMMA ThrowRest ==
  ASSUME Rest, NEW faults, faults \subseteq {"no_parent", "no_next_turn"}, Throw(faults)
  PROVE  Rest'
BY DEF Rest, Throw, States

LEMMA NextRest ==
  ASSUME IInv, Rest, [Next]_vars
  PROVE  Rest'
<1>1. CASE Begin
  BY <1>1 DEF Begin, Rest, States
<1>2. CASE Choose
  <2>1. PICK e \in DOMAIN node :
          Expand(e, Successors(e), [i \in 1 .. Len(Successors(e)) |-> Fresh + i - 1])
    BY <1>2 DEF Choose
  <2> DEFINE next   == Successors(e)
             others == FrontierRemove(Keys(node), Peeked(Keys(node), graph.frontier), e)
  <2>2. CASE Endless(others)
    <3>1. Throw({"no_next_turn"})
      BY <2>1, <2>2 DEF Expand
    <3> QED BY <3>1, ThrowRest
  <2>3. CASE ~Endless(others)
    <3>1. node' = node \o next /\ current' = e /\ pc' = "expand" /\ thrown' = thrown
      BY <2>1, <2>3 DEF Expand
    <3>2. next \in Seq(NodeType) /\ node \in Seq(NodeType)
      BY <2>1, SuccessorsOK DEF IInv, Nodes
    <3> HIDE DEF next
    <3>3. DOMAIN node \subseteq DOMAIN node'
      BY <3>1, <3>2
    <3> QED BY <2>1, <3>1, <3>3 DEF Rest, States
  <2> QED BY <2>2, <2>3
<1>3. CASE Process
  <2>1. \A nodes, g : MergeStop(nodes, g) /\ DOMAIN node \subseteq DOMAIN nodes => Rest'
    <3> SUFFICES ASSUME NEW nodes, NEW g, MergeStop(nodes, g), DOMAIN node \subseteq DOMAIN nodes
                 PROVE  Rest'
      OBVIOUS
    <3> DEFINE faults == Faults(nodes, g, Head(todo), StopsAt(nodes, g, Head(todo)))
    <3>1. CASE faults # {}
      <4>1. Throw(faults) /\ faults \subseteq {"no_parent", "no_next_turn"}
        BY <3>1 DEF MergeStop, Settle, Faults
      <4> QED BY <4>1, ThrowRest
    <3>2. CASE faults = {}
      BY <1>3, <3>2 DEF MergeStop, Settle, Rest, States, Process
    <3> QED BY <3>1, <3>2
  <2>2. CASE MergePartners(Head(todo)) = {}
    <3>1. MergeStop(node, graph)
      BY <1>3, <2>2, Zenon DEF Process
    <3> QED BY <2>1, <3>1
  <2>3. CASE MergePartners(Head(todo)) # {}
    <3> DEFINE m == MergedState(Head(todo), MergePartners(Head(todo)))
    <3>1. \E g : MergeStop(Append(node, m), g)
      BY <1>3, <2>3 DEF Process
    <3> HIDE DEF m
    <3>2. DOMAIN node \subseteq DOMAIN Append(node, m)
      BY DEF IInv, Nodes
    <3> QED BY <2>1, <3>1, <3>2
  <2> QED BY <2>2, <2>3
<1>4. CASE Expanded
  BY <1>4 DEF Expanded, Rest, States
<1>5. CASE Explored
  BY <1>5 DEF Explored, Rest, States
<1>6. CASE Check
  <2>1. Throw({"no_next_turn"}) \/ (pc' \in {"report", "begin"} /\ UNCHANGED <<node, current, thrown>>)
    BY <1>6 DEF Check
  <2>2. CASE Throw({"no_next_turn"})
    BY <2>2, ThrowRest
  <2> QED BY <2>1, <2>2 DEF Rest, States
<1>7. CASE Report
  BY <1>7 DEF Report, Rest, States
<1>8. CASE Exhausted
  BY <1>8 DEF Exhausted, Rest, States
<1>9. CASE UNCHANGED vars
  BY <1>9 DEF vars, Rest, States
<1> QED BY <1>1, <1>2, <1>3, <1>4, <1>5, <1>6, <1>7, <1>8, <1>9 DEF Next

(* The variables have their types, for all programs: a state is merged of,    *)
(* and succeeds, only older ones, and what the graph, the frontier and the    *)
(* list of successors hold was created.                                      *)
THEOREM TypeCorrect == Spec => []TypeOK
<1>1. Init => Rest
  BY DEF Init, Rest, States
<1>2. IInv /\ Rest /\ [Next]_vars => IInv' /\ Rest'
  BY NextIInv, NextRest
<1>3. IInv /\ Rest => TypeOK
  <2> SUFFICES ASSUME IInv, Rest PROVE TypeOK
    OBVIOUS
  <2>1. IsTask(task)
    BY TasksAssumption DEF IInv
  <2>2. /\ node \in Seq(NodeType)
        /\ \A x \in DOMAIN node : Fits(node[x], x)
        /\ DOMAIN node = 1 .. Len(node)
    BY IsOrdered DEF IInv, Nodes, NodeOK
  <2>3. \A x \in DOMAIN node :
          /\ node[x].control \in Controls /\ node[x].inputs \subseteq Inputs
          /\ node[x].preds \subseteq 1 .. x - 1 /\ node[x].mergeOf \subseteq 1 .. x
    <3> TAKE x \in DOMAIN node
    <3>1. node[x] \in NodeType /\ Fits(node[x], x)
      BY <2>2
    <3> QED BY <3>1 DEF Fits, NodeType
  <2>4. /\ graph.reached \cup graph.addedLast \subseteq DOMAIN node
        /\ DOMAIN graph.frontier.heap \cup graph.frontier.elements \subseteq DOMAIN node
    BY <2>2 DEF IInv, Shape, Orderly, Counted
  <2>5. todo \in Seq(DOMAIN node)
    BY DEF IInv, Work
  <2> QED BY <2>1, <2>3, <2>4, <2>5 DEF TypeOK, Rest
<1> QED BY InitIInv, <1>1, <1>2, <1>3, PTL DEF Spec

(* The predecessors of reached states are reached, for all programs and any   *)
(* order of exploration: remove takes all states below along, mergeInto its   *)
(* partners, and the new state takes over their predecessors, which are not   *)
(* below it (GraphReachedSetWrapper.add and remove).                         *)
THEOREM ConnectedCorrect == Spec => []Connected
<1>1. IInv /\ [Next]_vars => IInv'
  BY NextIInv
<1>2. IInv => Connected
  BY DEF IInv, Orderly, Connected
<1> QED BY InitIInv, <1>1, <1>2, PTL DEF Spec

(* What waits is reached, and the frontier does not say that it is empty      *)
(* while a state waits, for all programs: although a state may be added to it *)
(* twice, so that it counts too many, it never counts too few                *)
(* (DifferencingFrontierSet.add, remove and isEmpty).                        *)
WaitingKept ==
  /\ graph.frontier.elements \subseteq graph.reached
  /\ IsEmpty(graph.frontier) => graph.frontier.elements = {}

THEOREM NothingOverlooked == Spec => []WaitingKept
<1>1. IInv /\ [Next]_vars => IInv'
  BY NextIInv
<1>2. IInv => WaitingKept
  <2> SUFFICES ASSUME IInv PROVE WaitingKept
    OBVIOUS
  <2> DEFINE f == graph.frontier
  <2>1. /\ IsFiniteSet(f.elements) /\ f.size \in Nat /\ Cardinality(f.elements) <= f.size
        /\ f.elements \subseteq graph.reached
    BY DEF IInv, Orderly, Counted
  <2>2. ASSUME f.size = 0
        PROVE  f.elements = {}
    BY <2>1, <2>2, FS_EmptySet, FS_CardinalityType
  <2> QED BY <2>1, <2>2 DEF WaitingKept, IsEmpty
<1> QED BY InitIInv, <1>1, <1>2, PTL DEF Spec

-----------------------------------------------------------------------------
(* The refinement of Verdicts: what the callback is told.                    *)

Wrong == {p \in Properties : Violates(p)}

LEMMA ErrorsAreProperties ==
  ASSUME IInv, NEW x \in graph.addedLast
  PROVE  Target(x) \subseteq Properties
<1>1. x \in DOMAIN node /\ node \in Seq(NodeType) /\ task \in Tasks
  BY DEF IInv, Shape, Nodes
<1>2. node[x] \in NodeType
  BY <1>1
<1>3. node[x].control \in Controls
  BY <1>2 DEF NodeType
<1> QED BY <1>1, <1>3, TaskType DEF Target

(* Every other step leaves the verdicts alone, and no step follows the end.   *)
LEMMA OtherSteps ==
  ASSUME [Next]_vars, ~Report
  PROVE  UNCHANGED <<task, verdict>> /\ (pc = "done" => pc' = "done")
<1>1. CASE Begin
  BY <1>1 DEF Begin
<1>2. CASE Choose
  <2>1. PICK e \in DOMAIN node :
          UNCHANGED <<task, verdict>>
    BY <1>2 DEF Choose, Expand, Throw
  <2> QED BY <1>2, <2>1 DEF Choose
<1>3. CASE Process
  <2>1. \A nodes, g : MergeStop(nodes, g) => UNCHANGED <<task, verdict>>
    BY DEF MergeStop, Settle, Throw
  <2>2. pc = "expand" /\ \E nodes, g : MergeStop(nodes, g)
    BY <1>3 DEF Process
  <2> QED BY <2>1, <2>2
<1>4. CASE Expanded
  BY <1>4 DEF Expanded
<1>5. CASE Explored
  BY <1>5 DEF Explored
<1>6. CASE Check
  BY <1>6 DEF Check, Throw
<1>7. CASE Exhausted
  BY <1>7 DEF Exhausted
<1>8. CASE UNCHANGED vars
  BY <1>8 DEF vars
<1> QED BY <1>1, <1>2, <1>3, <1>4, <1>5, <1>6, <1>7, <1>8 DEF Next

LEMMA ReportDecides ==
  ASSUME IInv, Decided, Report
  PROVE  Decided'
<1> DEFINE found == UNION {Target(x) : x \in graph.addedLast}
<1>1. found \subseteq Properties
  BY ErrorsAreProperties
<1>2. pc = "report"
  BY DEF Report
<1> HIDE DEF found
<1>3. /\ VerdictShape'
      /\ verdict'.violated = verdict.violated \cup found
      /\ \/ /\ verdict'.satisfied = verdict.satisfied
            /\ verdict'.unknown = verdict.unknown \ (verdict.violated \cup found)
         \/ /\ verdict'.satisfied = verdict.unknown \ (verdict.violated \cup found)
            /\ verdict'.unknown = {}
            /\ pc' = "done"
  BY ReportHolds DEF Decided, found
<1> QED BY <1>1, <1>2, <1>3 DEF Decided

LEMMA Deciding == Spec => [](IInv /\ Decided)
<1>1. Init => Decided
  BY DEF Init, Decided, VerdictShape
<1>2. ASSUME IInv, Decided, [Next]_vars PROVE Decided'
  <2>1. CASE Report
    BY <2>1, <1>2, ReportDecides
  <2>2. CASE ~Report
    BY <2>2, <1>2, OtherSteps DEF Decided, VerdictShape
  <2> QED BY <2>1, <2>2
<1> QED BY InitIInv, NextIInv, <1>1, <1>2, PTL DEF Spec

-----------------------------------------------------------------------------
LEMMA InitPromised == Init => Promise!Init
BY DEF Init, Promise!Init

(* Report is a step of Find or Complete.  What was found before is found      *)
(* again: the analysis may stop at a violated property twice.                 *)
LEMMA ReportPromised ==
  ASSUME IInv, Decided, Precise', Sound', Report
  PROVE  Promise!Next
<1> DEFINE found == UNION {Target(x) : x \in graph.addedLast}
<1>1. found \subseteq Properties
  BY ErrorsAreProperties
<1>2. pc = "report" /\ pc' \in {"done", "begin"} /\ verdict.satisfied = {}
  BY DEF Report, Decided
<1> HIDE DEF found
<1>3. /\ UNCHANGED task
      /\ verdict'.violated = verdict.violated \cup found
      /\ \/ /\ verdict'.satisfied = verdict.satisfied
            /\ verdict'.unknown = verdict.unknown \ (verdict.violated \cup found)
         \/ /\ verdict'.satisfied = verdict.unknown \ (verdict.violated \cup found)
            /\ verdict'.unknown = {}
            /\ pc' = "done"
  BY ReportHolds DEF Decided, found
<1>4. \A p : Violates(p)' <=> Violates(p)
  BY <1>3 DEF Violates, Controls, Reaches, Closed
<1>5. Wrong' = Wrong
  BY <1>4 DEF Wrong
<1>6. /\ verdict.violated \cup verdict.unknown = Properties
      /\ verdict'.violated \subseteq Properties
  BY <1>1, <1>2, <1>3 DEF Decided
<1>7. /\ verdict'.violated \subseteq Wrong
      /\ \A p \in verdict'.satisfied : p \notin Wrong
  BY <1>4, <1>6 DEF Precise, Sound, Wrong
<1>8. CASE /\ verdict'.satisfied = verdict.satisfied
           /\ verdict'.unknown = verdict.unknown \ (verdict.violated \cup found)
  <2>1. \E W \in SUBSET Wrong : /\ verdict'.violated = verdict.violated \cup W
                                /\ verdict'.unknown = verdict.unknown \ W
    <3>1. verdict.violated \cup found \in SUBSET Wrong
      BY <1>3, <1>7
    <3> QED BY <3>1, <1>3, <1>8
  <2> QED BY <1>2, <1>5, <1>8, <2>1 DEF Promise!Next, Promise!Find, Wrong
<1>9. CASE /\ verdict'.satisfied = verdict.unknown \ (verdict.violated \cup found)
           /\ verdict'.unknown = {}
           /\ pc' = "done"
  <2>1. verdict'.violated = Wrong /\ verdict'.satisfied = Properties \ Wrong
    BY <1>3, <1>6, <1>7, <1>9 DEF Wrong
  <2> QED BY <1>2, <1>5, <1>9, <2>1 DEF Promise!Next, Promise!Complete, Wrong
<1> QED BY <1>3, <1>8, <1>9

(* Any other step is a step of Find that finds nothing, or a stutter.         *)
LEMMA OthersPromised ==
  ASSUME [Next]_vars, ~Report
  PROVE  [Promise!Next]_(Promise!vars)
<1>1. UNCHANGED <<task, verdict>> /\ (pc = "done" => pc' = "done")
  BY OtherSteps
<1>2. \A p : Violates(p)' <=> Violates(p)
  BY <1>1 DEF Violates, Controls, Reaches, Closed
<1>3. Wrong' = Wrong
  BY <1>2 DEF Wrong
<1>4. CASE (pc = "done") = (pc' = "done")
  BY <1>1, <1>3, <1>4 DEF Promise!vars, Wrong
<1>5. CASE pc # "done" /\ pc' = "done"
  BY <1>1, <1>3, <1>5 DEF Promise!Next, Promise!Find, Wrong
<1> QED BY <1>1, <1>4, <1>5

(* The algorithms implement Verdicts for all programs, inputs, properties and *)
(* orders of exploration, as long as what they report as satisfied is: every  *)
(* property gets a verdict once, a violation that was found is never taken    *)
(* back, also if the analysis goes on after it, and exceptions and the end of *)
(* the budget leave the undecided properties unknown                         *)
(* (MultiPropertyAlgorithm.run).                                             *)
THEOREM VerdictsKept == Spec /\ []Sound => KeepsPromise
<1>1. ASSUME IInv, Decided, IInv', Sound', [Next]_vars PROVE [Promise!Next]_(Promise!vars)
  <2>1. CASE Report
    BY <2>1, <1>1, ReportPromised DEF IInv
  <2>2. CASE ~Report
    BY <2>2, <1>1, OthersPromised
  <2> QED BY <2>1, <2>2
<1> QED BY <1>1, InitPromised, Deciding, PTL DEF Spec, KeepsPromise, Promise!Spec

-----------------------------------------------------------------------------
(* The programs of InOrder are explored completely: their control states have *)
(* one partition and no cycle, are explored in topological order, and a      *)
(* target is the last successor.  The order of the frontier, the merges and   *)
(* the removals matter here; other programs do not have these properties, see *)
(* the runs reach_siblings and reach_cycle.                                  *)


InOrder ==
  /\ TopologicalOrder
  /\ \A c, d \in Controls : task.key[c].part = task.key[d].part
  /\ \A c \in Controls : \A i \in 1 .. Len(task.steps[c]) - 1 : task.error[task.steps[c][i].to] = {}

-----------------------------------------------------------------------------
(* The inductive invariant.                                                  *)

Left    == graph.reached \ graph.frontier.elements      \* those that were expanded
Rank(x) == task.key[node[x].control].rank
Steps(x) == task.steps[node[x].control]

FrontierRight ==
  /\ Holds(graph.frontier, graph.frontier.elements)
  /\ graph.frontier.elements \subseteq graph.reached

(* The expanded states come before those that wait. *)
InRankOrder ==
  /\ current \in DOMAIN node
  /\ \A x \in Left : Rank(x) <= Rank(current)
  /\ \A x \in graph.frontier.elements : Rank(current) <= Rank(x)
  /\ pc = "expand" => current \in Left

(* The predecessors of a reached state were expanded, and are no targets. *)
PredsLeft ==
  \A x \in graph.reached : \A p \in node[x].preds : p \in Left /\ Target(p) = {}

(* What is still to be processed are the last successors of the current state,*)
(* and none of them was added yet.                                           *)
Done == Len(Steps(current)) - Len(todo)

TodoRight ==
  pc = "expand" =>
    /\ Len(todo) <= Len(Steps(current))
    /\ \A j \in 1 .. Len(todo) :
         /\ todo[j] \notin graph.reached
         /\ node[todo[j]].control = Steps(current)[Done + j].to
         /\ node[todo[j]].inputs = node[current].inputs \cap Steps(current)[Done + j].guard
         /\ node[todo[j]].preds = {current}
    /\ \A j, k \in 1 .. Len(todo) : todo[j] = todo[k] => j = k

(* The steps that were processed are covered. *)
AllCovered ==
  pc # "done" =>
    \A x \in Left : \A i \in 1 .. Len(Steps(x)) :
      (pc = "expand" /\ x = current => i <= Done) => Covered(x, Steps(x)[i])

(* Every input is in a reached state with the initial control state. *)
InitialKept == \A v \in Inputs : \E x \in graph.reached : node[x].control = 0 /\ v \in node[x].inputs

(* The targets that are reached are reported, or about to be; the initial     *)
(* state is noticed only when everything is explored.                        *)
TargetsNoted ==
  \A x \in graph.reached :
    \/ Target(x) \subseteq verdict.violated
    \/ x \in graph.addedLast /\ (pc \in {"check", "report"} \/ task.error[0] # {})

InitialTarget == task.error[0] # {} => graph.reached \subseteq {1} /\ node[1].control = 0

SInv ==
  /\ InOrder /\ IInv /\ Decided
  /\ FrontierRight /\ InRankOrder /\ PredsLeft /\ TodoRight
  /\ AllCovered /\ InitialKept /\ TargetsNoted /\ InitialTarget
  /\ Sound
  /\ NoException

-----------------------------------------------------------------------------
(* What the invariant says of the types.                                     *)

LEMMA TaskOrder ==
  ASSUME task \in Tasks, NEW c \in Controls
  PROVE  /\ task.key[c].rank \in Int
         /\ task.error[c] # {} => Len(task.steps[c]) = 0
         /\ task.steps[c] \in Seq(StepType)
         /\ 0 \in Controls
BY TasksAssumption DEF IsTask, Controls, StepType

LEMMA StateTypes ==
  ASSUME IInv
  PROVE  /\ Len(node) \in Nat /\ DOMAIN node = 1 .. Len(node)
         /\ graph.reached \cup graph.addedLast \subseteq DOMAIN node
         /\ DOMAIN graph = {"reached", "addedLast", "frontier"}
         /\ \A x \in DOMAIN node :
              /\ node[x].control \in Controls
              /\ node[x].inputs \subseteq Inputs
              /\ Rank(x) \in Int
              /\ Steps(x) \in Seq(StepType)
              /\ Len(Steps(x)) \in Nat
              /\ Target(x) # {} => Len(Steps(x)) = 0
         /\ todo \in Seq(DOMAIN node)
         /\ Len(todo) \in Nat
<1>1. node \in Seq(NodeType) /\ todo \in Seq(DOMAIN node) /\ task \in Tasks
  BY DEF IInv, Nodes, Work
<1>2. ASSUME NEW x \in DOMAIN node
      PROVE  /\ node[x].control \in Controls
             /\ node[x].inputs \subseteq Inputs
             /\ Rank(x) \in Int
             /\ Steps(x) \in Seq(StepType)
             /\ Len(Steps(x)) \in Nat
             /\ Target(x) # {} => Len(Steps(x)) = 0
  <2>1. node[x] \in NodeType
    BY <1>1
  <2>2. node[x].control \in Controls /\ node[x].inputs \subseteq Inputs
    BY <2>1 DEF NodeType
  <2>3. /\ Rank(x) \in Int /\ Steps(x) \in Seq(StepType)
        /\ Target(x) # {} => Len(Steps(x)) = 0
    BY <1>1, <2>2, TaskOrder DEF Rank, Steps, Target
  <2> QED BY <2>2, <2>3
<1> QED BY <1>1, <1>2 DEF IInv, Shape

LEMMA WaitingFinite ==
  ASSUME IInv, FrontierRight
  PROVE  IsFiniteSet(graph.frontier.elements) /\ IsFiniteSet(graph.reached)
<1>1. graph.reached \subseteq 1 .. Len(node) /\ Len(node) \in Nat
  BY StateTypes
<1>2. IsFiniteSet(1 .. Len(node))
  BY <1>1, FS_Interval
<1>3. IsFiniteSet(graph.reached)
  BY <1>1, <1>2, FS_Subset
<1> QED BY <1>3, FS_Subset DEF FrontierRight

-----------------------------------------------------------------------------
(* The steps that leave the graph alone.                                     *)

LEMMA SameGraphSInv ==
  ASSUME SInv, IInv', Decided', UNCHANGED <<task, node, graph, current, thrown>>,
         verdict.violated \subseteq verdict'.violated, Sound',
         pc' = "expand" => pc = "expand" /\ UNCHANGED todo,
         pc = "done" => pc' = "done",
         pc = "expand" => pc' \in {"expand", "done"} \/ Done = Len(Steps(current)),
         pc \in {"check", "report"} /\ pc' \notin {"check", "report"} =>
           \A x \in graph.addedLast : Target(x) \subseteq verdict'.violated
  PROVE  SInv'
<1> USE DEF SInv
<1>1. InOrder' /\ Left' = Left /\ (\A x : Target(x)' = Target(x) /\ Rank(x)' = Rank(x) /\ Steps(x)' = Steps(x))
  BY DEF InOrder, TopologicalOrder, Controls, Left, Target, Rank, Steps
<1>2. FrontierRight' /\ InRankOrder' /\ PredsLeft'
  BY <1>1 DEF FrontierRight, InRankOrder, PredsLeft
<1>3. TodoRight' /\ (pc' = "expand" => Done' = Done)
  BY <1>1 DEF TodoRight, Done
<1>4. \A x, step : Covered(x, step)' <=> Covered(x, step)
  BY DEF Covered
<1>5. AllCovered'
  BY <1>1, <1>3, <1>4 DEF AllCovered
<1>6. InitialKept' /\ InitialTarget' /\ NoException'
  BY DEF InitialKept, InitialTarget, NoException
<1>7. TargetsNoted'
  <2> SUFFICES ASSUME NEW x \in graph.reached
               PROVE  \/ Target(x) \subseteq verdict'.violated
                      \/ x \in graph.addedLast /\ (pc' \in {"check", "report"} \/ task.error[0] # {})
    BY DEF TargetsNoted, Target
  <2>1. \/ Target(x) \subseteq verdict.violated
        \/ x \in graph.addedLast /\ (pc \in {"check", "report"} \/ task.error[0] # {})
    BY DEF TargetsNoted
  <2> QED BY <2>1
<1> QED BY <1>1, <1>2, <1>3, <1>5, <1>6, <1>7

(* The initial states. *)
LEMMA InitSInv ==
  ASSUME Init, InOrder
  PROVE  SInv
<1> USE DEF Init
<1>0. node[1] = [control |-> 0, inputs |-> Inputs, preds |-> {}, mergeOf |-> {1}] /\ DOMAIN node = {1}
  OBVIOUS
<1>1. IInv /\ Decided /\ Sound /\ NoException
  BY InitIInv DEF Decided, VerdictShape, Sound, NoException
<1>2. Holds(EmptyFrontier, {})
  BY FS_EmptySet DEF Holds, EmptyFrontier, EmptyBag, SetToBag
<1>3. Holds(graph.frontier, {1}) /\ graph.frontier.elements = {1}
  <2>1. graph.frontier = FrontierAdd(Keys(node), EmptyFrontier, 1)
    OBVIOUS
  <2>2. IsFiniteSet({}) /\ {} \cup {1} = {1} /\ 1 \notin {}
    BY FS_EmptySet
  <2>3. Holds(FrontierAdd(Keys(node), EmptyFrontier, 1), {} \cup {1})
    BY <1>2, <2>2, FrontierAddHolds
  <2> QED BY <2>1, <2>2, <2>3 DEF Holds
<1>4. FrontierRight /\ Left = {}
  BY <1>3 DEF FrontierRight, Left
<1>5. Rank(1) \in Int
  BY <1>0, <1>1, StateTypes
<1>6. InRankOrder
  <2>1. current = 1 /\ pc # "expand" /\ Rank(1) <= Rank(1)
    BY <1>5
  <2> QED BY <1>0, <1>3, <1>4, <2>1 DEF InRankOrder
<1>6a. AllCovered /\ TodoRight
  BY <1>4 DEF AllCovered, TodoRight
<1>7. PredsLeft /\ InitialKept /\ InitialTarget
  BY <1>0 DEF PredsLeft, InitialKept, InitialTarget
<1>8. TargetsNoted
  BY <1>0 DEF TargetsNoted, Target
<1> QED BY <1>1, <1>4, <1>6, <1>6a, <1>7, <1>8 DEF SInv

-----------------------------------------------------------------------------
(* Choosing a state: there is one partition, so that it is one of least rank. *)

LEMMA NextIsFirst ==
  ASSUME SInv, NEW e \in DOMAIN node, IsNext(Keys(node), graph.frontier, e)
  PROVE  e \in graph.frontier.elements /\ \A x \in graph.frontier.elements : Rank(e) <= Rank(x)
<1> DEFINE mine == {y \in DOMAIN graph.frontier.heap :
                      Keys(node)[y].part = Max(Peeked(Keys(node), graph.frontier).turns)}
<1>1. e \in mine /\ \A y \in mine : Before(Keys(node), e, y)
  BY DEF IsNext
<1>2. DOMAIN graph.frontier.heap = graph.frontier.elements
  BY DEF SInv, FrontierRight, Holds
<1>3. \A x \in graph.frontier.elements :
        /\ x \in DOMAIN node
        /\ Keys(node)[x] = task.key[node[x].control]
        /\ node[x].control \in Controls
  BY StateTypes DEF SInv, FrontierRight, Keys
<1>4. ASSUME NEW x \in graph.frontier.elements PROVE x \in mine
  BY <1>1, <1>2, <1>3 DEF SInv, InOrder
<1>5. ASSUME NEW x \in graph.frontier.elements PROVE Rank(e) <= Rank(x)
  <2>1. Before(Keys(node), e, x)
    BY <1>1, <1>4
  <2>2. e \in graph.frontier.elements
    BY <1>1, <1>2
  <2>3. Keys(node)[x].rank = Rank(x) /\ Keys(node)[e].rank = Rank(e)
    BY <1>3, <2>2 DEF Rank
  <2>4. Rank(x) \in Int /\ Rank(e) \in Int
    BY <1>3, <2>2, StateTypes DEF SInv
  <2> QED BY <2>1, <2>3, <2>4 DEF Before
<1> QED BY <1>1, <1>2, <1>5

(* The step of Choose, in terms of what the invariant says. *)
LEMMA ChooseHolds ==
  ASSUME SInv, Choose
  PROVE  \E e \in graph.frontier.elements :
           /\ \A x \in graph.frontier.elements : Rank(e) <= Rank(x)
           /\ UNCHANGED <<task, verdict, thrown>>
           /\ pc = "choose" /\ pc' = "expand" /\ current' = e
           /\ graph'.reached = graph.reached
           /\ graph'.addedLast = graph.addedLast
           /\ Holds(graph'.frontier, graph.frontier.elements \ {e})
           /\ node' = node \o Successors(e)
           /\ todo' = [i \in 1 .. Len(Successors(e)) |-> Fresh + i - 1]
<1>1. PICK e \in DOMAIN node :
        /\ IsNext(Keys(node), graph.frontier, e)
        /\ Expand(e, Successors(e), [i \in 1 .. Len(Successors(e)) |-> Fresh + i - 1])
  BY DEF Choose
<1> DEFINE others == FrontierRemove(Keys(node), Peeked(Keys(node), graph.frontier), e)
           S == graph.frontier.elements
<1>2. e \in S /\ \A x \in S : Rank(e) <= Rank(x)
  BY <1>1, NextIsFirst
<1>3. IsFiniteSet(S) /\ Holds(graph.frontier, S)
  BY WaitingFinite DEF SInv, FrontierRight
<1>4. Holds(others, S \ {e})
  BY <1>3, ActivatedHolds, FrontierRemoveHolds
<1>5. ~Endless(others)
  BY <1>3, <1>4, NotEndless, FS_RemoveElement
<1>6. /\ graph' = [graph EXCEPT !.frontier = others]
      /\ node' = node \o Successors(e)
      /\ current' = e
      /\ todo' = [i \in 1 .. Len(Successors(e)) |-> Fresh + i - 1]
      /\ pc' = "expand"
      /\ UNCHANGED <<task, verdict, thrown>>
  BY <1>1, <1>5 DEF Expand
<1> HIDE DEF others
<1>7. /\ graph'.reached = graph.reached
      /\ graph'.addedLast = graph.addedLast
      /\ graph'.frontier = others
  BY <1>6, StateTypes DEF SInv
<1> QED BY <1>2, <1>4, <1>6, <1>7 DEF Choose

LEMMA ChooseSInv ==
  ASSUME SInv, IInv', Decided', Choose
  PROVE  SInv'
<1> DEFINE S == graph.frontier.elements
<1>1. PICK e \in S :
        /\ \A x \in S : Rank(e) <= Rank(x)
        /\ UNCHANGED <<task, verdict, thrown>>
        /\ pc = "choose" /\ pc' = "expand" /\ current' = e
        /\ graph'.reached = graph.reached
        /\ graph'.addedLast = graph.addedLast
        /\ Holds(graph'.frontier, S \ {e})
        /\ node' = node \o Successors(e)
        /\ todo' = [i \in 1 .. Len(Successors(e)) |-> Fresh + i - 1]
  BY ChooseHolds
<1>2. /\ Len(node) \in Nat /\ DOMAIN node = 1 .. Len(node)
      /\ graph.reached \subseteq DOMAIN node
      /\ S \subseteq graph.reached
      /\ \A x \in DOMAIN node : Rank(x) \in Int /\ Len(Steps(x)) \in Nat /\ (Target(x) # {} => Len(Steps(x)) = 0)
  BY StateTypes DEF SInv, FrontierRight
<1>3. DOMAIN node \subseteq DOMAIN node' /\ \A x \in DOMAIN node : node'[x] = node[x]
  <2>1. node \in Seq(NodeType) /\ Successors(e) \in Seq(NodeType)
    BY <1>2, SuccessorsOK DEF SInv, IInv, Nodes
  <2> QED BY <1>1, <2>1, Concatenated
<1>4. /\ graph'.frontier.elements = S \ {e}
      /\ e \in graph.reached /\ e \in DOMAIN node
      /\ Left' = Left \cup {e}
  BY <1>1, <1>2 DEF Holds, Left
<1>5. \A x \in DOMAIN node : /\ Target(x)' = Target(x) /\ Rank(x)' = Rank(x)
                             /\ Steps(x)' = Steps(x)
  BY <1>1, <1>3 DEF Target, Rank, Steps
<1>6. InOrder' /\ FrontierRight' /\ Sound' /\ NoException'
  <2>1. Sound'
    BY <1>1 DEF SInv, Sound, Violates, Controls, Reaches, Closed
  <2> QED BY <1>1, <1>2, <1>4, <2>1 DEF SInv, InOrder, TopologicalOrder, Controls, FrontierRight, NoException
<1>7. InRankOrder'
  <2>1. Left \subseteq DOMAIN node /\ current \in DOMAIN node
    BY <1>2 DEF SInv, InRankOrder, Left
  <2>2. ASSUME NEW x \in Left PROVE Rank(x) <= Rank(e)
    BY <1>1, <1>2, <1>4, <2>1 DEF SInv, InRankOrder
  <2>3. \A x \in Left' : Rank(x)' <= Rank(e)'
    BY <1>2, <1>4, <1>5, <2>1, <2>2
  <2>4. \A x \in S \ {e} : Rank(e)' <= Rank(x)'
    BY <1>1, <1>2, <1>4, <1>5
  <2>5. current' = e
    BY <1>1
  <2> QED BY <1>3, <1>4, <2>3, <2>4, <2>5 DEF InRankOrder
<1>8. PredsLeft'
  <2>1. Left \subseteq DOMAIN node
    BY <1>2 DEF Left
  <2> QED BY <1>1, <1>2, <1>3, <1>4, <1>5, <2>1 DEF SInv, PredsLeft
<1>9. Len(todo') = Len(Steps(e)) /\ Done' = 0 /\ TodoRight'
  <2> DEFINE n == Len(Steps(e))
  <2>1. n \in Nat /\ Steps(e)' = Steps(e)
    BY <1>2, <1>4, <1>5
  <2>2. Successors(e) = [i \in 1 .. n |->
          [control |-> Steps(e)[i].to,
           inputs  |-> node[e].inputs \cap Steps(e)[i].guard,
           preds   |-> {e},
           mergeOf |-> {Fresh + i - 1}]]
    BY DEF Successors, Steps
  <2> HIDE DEF n
  <2>3. Len(Successors(e)) = n /\ DOMAIN Successors(e) = 1 .. n
    BY <2>1, <2>2
  <2>4. todo' = [i \in 1 .. n |-> Fresh + i - 1] /\ Len(todo') = n /\ Fresh = Len(node) + 1
    BY <1>1, <2>1, <2>3 DEF Fresh
  <2>5. ASSUME NEW j \in 1 .. n
        PROVE  /\ todo'[j] = Len(node) + j
               /\ todo'[j] \notin graph.reached
               /\ node'[todo'[j]] = Successors(e)[j]
    <3>1. todo'[j] = Len(node) + j
      BY <1>2, <2>1, <2>4
    <3>2. node \in Seq(NodeType) /\ Successors(e) \in Seq(NodeType)
      BY <1>2, SuccessorsOK DEF SInv, IInv, Nodes
    <3>3. (node \o Successors(e))[Len(node) + j] = Successors(e)[j]
      BY <1>2, <2>1, <2>3, <3>2
    <3>4. Len(node) + j \notin 1 .. Len(node)
      BY <1>2, <2>1
    <3>5. node' = node \o Successors(e)
      BY <1>1
    <3> QED BY <1>2, <3>1, <3>3, <3>4, <3>5
  <2>6. Done' = 0
    BY <1>1, <2>1, <2>4 DEF Done, n
  <2>7. current' = e /\ node'[e] = node[e]
    BY <1>1, <1>3, <1>4
  <2>8. ASSUME NEW j \in 1 .. n
        PROVE  /\ todo'[j] \notin graph'.reached
               /\ node'[todo'[j]].control = Steps(e)[j].to
               /\ node'[todo'[j]].inputs = node[e].inputs \cap Steps(e)[j].guard
               /\ node'[todo'[j]].preds = {e}
    <3>1. Successors(e)[j].control = Steps(e)[j].to
      BY <2>2
    <3>2. Successors(e)[j].inputs = node[e].inputs \cap Steps(e)[j].guard
      BY <2>2
    <3>3. Successors(e)[j].preds = {e}
      BY <2>2
    <3>4. graph'.reached = graph.reached
      BY <1>1
    <3> QED BY <2>5, <3>1, <3>2, <3>3, <3>4
  <2>9. TodoRight'
    <3>1. Steps(current)' = Steps(e) /\ Done' = 0 /\ current' = e /\ Len(todo') = n
      BY <2>1, <2>4, <2>6, <2>7 DEF Steps
    <3>2. \A j \in 1 .. n : Done' + j = j
      BY <2>1, <2>6
    <3>3. \A j, k \in 1 .. n : todo'[j] = todo'[k] => j = k
      BY <1>2, <2>1, <2>5
    <3>4. n <= n
      BY <2>1
    <3> QED BY <2>7, <2>8, <3>1, <3>2, <3>3, <3>4 DEF TodoRight, n
  <2> QED BY <2>4, <2>6, <2>9 DEF n
<1>10. AllCovered'
  <2>1. ASSUME NEW x \in Left', NEW i \in 1 .. Len(Steps(x)'), x = e => i <= Done'
        PROVE  Covered(x, Steps(x)[i])'
    <3>1. x \in Left /\ x \in DOMAIN node
      BY <1>2, <1>4, <1>9, <2>1 DEF Left
    <3>2. Covered(x, Steps(x)[i])
      BY <1>1, <1>5, <3>1 DEF SInv, AllCovered
    <3>3. Steps(x)' = Steps(x)
      BY <1>5, <3>1
    <3> QED BY <1>1, <1>2, <1>3, <3>1, <3>2, <3>3 DEF Covered
  <2> QED BY <2>1, <1>1 DEF AllCovered
<1>11. InitialKept' /\ InitialTarget'
  BY <1>1, <1>2, <1>3 DEF SInv, InitialKept, InitialTarget
<1>12. TargetsNoted'
  BY <1>1, <1>2, <1>5 DEF SInv, TargetsNoted
<1> QED BY <1>6, <1>7, <1>8, <1>9, <1>10, <1>11, <1>12 DEF SInv

-----------------------------------------------------------------------------
(* Processing a successor s: a state y comes to those that wait, and it is s  *)
(* or it takes the place of the states P that s is merged with.              *)
Adds(y, P) ==
  LET s == Head(todo)
  IN /\ UNCHANGED <<task, verdict, current, thrown>>
     /\ pc = "expand" /\ todo # <<>>
     /\ DOMAIN node \subseteq DOMAIN node' /\ \A x \in DOMAIN node : node'[x] = node[x]
     /\ y \in DOMAIN node' \ graph.reached
     /\ y = s \/ y \notin DOMAIN node
     /\ node'[y].control = node[s].control
     /\ node[s].inputs \subseteq node'[y].inputs
     /\ \A x \in P : node[x].inputs \subseteq node'[y].inputs /\ node[x].control = node[s].control
     /\ \A p \in node'[y].preds : p \in Left /\ Target(p) = {}
     /\ P \subseteq graph.frontier.elements
     /\ graph'.reached = (graph.reached \cup {y}) \ P
     /\ Holds(graph'.frontier, (graph.frontier.elements \cup {y}) \ P)
     /\ graph'.addedLast = {y}
     /\ IF P = {} /\ Target(s) # {} THEN pc' = "check" /\ todo' = <<>>
                                    ELSE pc' = "expand" /\ todo' = Tail(todo)

(* The successor that is processed. *)
LEMMA HeadHolds ==
  ASSUME SInv, pc = "expand", todo # <<>>
  PROVE  /\ Head(todo) = todo[1] /\ 1 \in 1 .. Len(todo)
         /\ Head(todo) \in DOMAIN node \ graph.reached
         /\ Done \in Nat /\ Done + 1 \in 1 .. Len(Steps(current))
         /\ node[Head(todo)].control = Steps(current)[Done + 1].to
         /\ node[Head(todo)].inputs = node[current].inputs \cap Steps(current)[Done + 1].guard
         /\ node[Head(todo)].preds = {current}
         /\ current \in Left /\ Target(current) = {}
         /\ Rank(current) < Rank(Head(todo))
<1>1. todo \in Seq(DOMAIN node) /\ Len(todo) \in Nat /\ current \in DOMAIN node
  BY StateTypes DEF SInv, InRankOrder
<1>2. Head(todo) = todo[1] /\ 1 \in 1 .. Len(todo) /\ Head(todo) \in DOMAIN node
  BY <1>1
<1>3. Len(Steps(current)) \in Nat /\ Len(todo) <= Len(Steps(current))
  BY <1>1, StateTypes DEF SInv, TodoRight
<1>4. Done \in Nat /\ Done + 1 \in 1 .. Len(Steps(current))
  BY <1>1, <1>2, <1>3 DEF Done
<1>5. /\ node[Head(todo)].control = Steps(current)[Done + 1].to
      /\ node[Head(todo)].inputs = node[current].inputs \cap Steps(current)[Done + 1].guard
      /\ node[Head(todo)].preds = {current}
      /\ Head(todo) \notin graph.reached
  BY <1>2 DEF SInv, TodoRight
<1>6. Target(current) = {}
  BY <1>1, <1>4, StateTypes DEF SInv
<1>7. Rank(current) < Rank(Head(todo))
  <2>1. node[current].control \in Controls /\ Done + 1 \in DOMAIN Steps(current)
    BY <1>1, <1>4, StateTypes DEF SInv
  <2> QED BY <2>1, <1>5 DEF SInv, InOrder, TopologicalOrder, Steps, Rank
<1> QED BY <1>2, <1>4, <1>5, <1>6, <1>7 DEF SInv, InRankOrder

(* Its merge partners wait, and there is at most one. *)
LEMMA PartnerWaits ==
  ASSUME SInv, pc = "expand", todo # <<>>, MergePartners(Head(todo)) # {}
  PROVE  \E x \in graph.frontier.elements :
           /\ MergePartners(Head(todo)) = {x}
           /\ node[x].control = node[Head(todo)].control
           /\ \A z \in graph.reached : x \notin node[z].preds
<1> DEFINE s == Head(todo)
<1>1. PICK x \in graph.reached : node[x].control = node[s].control
  BY DEF MergePartners
<1>2. MergePartners(s) = {x}
  BY <1>1 DEF MergePartners, SInv, IInv, OnePerControl
<1>3. Rank(x) = Rank(s) /\ Rank(current) < Rank(s)
  BY <1>1, HeadHolds DEF Rank
<1>4. current \in DOMAIN node /\ Rank(current) \in Int /\ Rank(x) \in Int
  BY <1>1, StateTypes DEF SInv, InRankOrder
<1>5. x \notin Left
  <2> SUFFICES ASSUME x \in Left PROVE FALSE
    OBVIOUS
  <2>1. Rank(x) <= Rank(current)
    BY DEF SInv, InRankOrder
  <2> QED BY <2>1, <1>3, <1>4
<1>6. \A z \in graph.reached : x \notin node[z].preds
  BY <1>5 DEF SInv, PredsLeft
<1> QED BY <1>1, <1>2, <1>5, <1>6 DEF Left

(* mergeInto takes the partner out of the graph, and nothing else. *)
Partners    == MergePartners(Head(todo))
Merged      == MergedState(Head(todo), Partners)
MergedNodes == Append(node, Merged)
MergedInto  == MergedGraph(MergedNodes, Partners)

LEMMA MergedHolds ==
  ASSUME SInv, pc = "expand", todo # <<>>, Partners # {}
  PROVE  \E x \in graph.frontier.elements :
           /\ Partners = {x}
           /\ node[x].control = node[Head(todo)].control
           /\ \A p \in Merged.preds : p \in Left /\ Target(p) = {}
           /\ node[x].inputs \subseteq Merged.inputs
           /\ node[Head(todo)].inputs \subseteq Merged.inputs
           /\ DOMAIN MergedNodes = DOMAIN node \cup {Fresh} /\ MergedNodes[Fresh] = Merged
           /\ Fresh \notin DOMAIN node
           /\ \A z \in DOMAIN node : MergedNodes[z] = node[z]
           /\ MergedInto.reached = (graph.reached \cup {Fresh}) \ {x}
           /\ MergedInto.addedLast = {Fresh}
           /\ Holds(MergedInto.frontier, (graph.frontier.elements \cup {Fresh}) \ {x})
<1>0. PICK x \in graph.frontier.elements :
        /\ Partners = {x}
        /\ node[x].control = node[Head(todo)].control
        /\ \A z \in graph.reached : x \notin node[z].preds
  BY PartnerWaits DEF Partners
<1> DEFINE S == graph.frontier.elements
<1>1. /\ Len(node) \in Nat /\ DOMAIN node = 1 .. Len(node)
      /\ graph.reached \subseteq DOMAIN node /\ S \subseteq graph.reached
      /\ DOMAIN graph = {"reached", "addedLast", "frontier"}
      /\ IsFiniteSet(S) /\ Holds(graph.frontier, S)
  BY StateTypes, WaitingFinite DEF SInv, FrontierRight
<1>2. Fresh \notin DOMAIN node /\ Fresh = Len(node) + 1 /\ x \in DOMAIN node
  BY <1>1 DEF Fresh
<1>3. /\ Merged \in NodeType /\ node \in Seq(NodeType)
      /\ Head(todo) \in DOMAIN node
  <2>1. Head(todo) \in DOMAIN node
    BY HeadHolds
  <2> QED BY <2>1, MergedOK DEF SInv, IInv, Nodes, Merged, Partners
<1>4. /\ DOMAIN MergedNodes = DOMAIN node \cup {Fresh} /\ MergedNodes[Fresh] = Merged
      /\ Len(MergedNodes) = Len(node) + 1
      /\ \A z \in DOMAIN node : MergedNodes[z] = node[z]
  BY <1>1, <1>2, <1>3 DEF MergedNodes
<1>5. Merged.preds = node[x].preds \cup {current}
  <2>1. Merged.preds = UNION {node[r].preds : r \in {x} \cup {Head(todo)}}
    BY <1>0 DEF Merged, MergedState
  <2>2. node[Head(todo)].preds = {current}
    BY HeadHolds
  <2> QED BY <2>1, <2>2
<1>6. \A z \in graph.reached \cup {Fresh} : x \notin MergedNodes[z].preds
  <2>1. current \in Left
    BY HeadHolds
  <2>2. x # current /\ x \notin node[x].preds
    BY <1>0, <1>1, <2>1 DEF Left
  <2>3. x \notin MergedNodes[Fresh].preds
    BY <1>4, <1>5, <2>2
  <2>4. \A z \in graph.reached : MergedNodes[z] = node[z]
    BY <1>1, <1>4
  <2> QED BY <1>0, <2>3, <2>4
<1>7. /\ Len(MergedNodes) \in Nat /\ {x} \in SUBSET (1 .. Len(MergedNodes))
      /\ Fresh \notin S \cup {x}
  BY <1>1, <1>2, <1>4
<1>8. /\ MergedInto.reached = (graph.reached \cup {Fresh}) \ {x}
      /\ MergedInto.addedLast = {Fresh}
      /\ Holds(MergedInto.frontier, (S \cup {Fresh}) \ {x})
  <2> DEFINE nodes == MergedNodes
             xs    == {x}
  <2>1. \A z \in graph.reached \cup {Fresh} : nodes[z].preds \cap xs = {}
    BY <1>6
  <2>2. MergedInto = MergedGraph(nodes, xs)
    BY <1>0 DEF MergedInto
  <2>3. Len(nodes) \in Nat /\ xs \in SUBSET (1 .. Len(nodes)) /\ Fresh \notin S \cup xs
    BY <1>7
  <2> HIDE DEF nodes, xs, S
  <2>4. LET g == MergedGraph(nodes, xs)
        IN /\ DOMAIN g = {"reached", "addedLast", "frontier"}
           /\ g.reached = (graph.reached \cup {Fresh}) \ xs
           /\ g.addedLast = {Fresh}
           /\ Holds(g.frontier, (S \cup {Fresh}) \ xs)
    BY <1>1, <2>1, <2>3, MergedAlone
  <2> QED BY <2>2, <2>4 DEF xs
<1>9. \A p \in Merged.preds : p \in Left /\ Target(p) = {}
  <2>1. current \in Left /\ Target(current) = {} /\ x \in graph.reached
    BY <1>1, HeadHolds
  <2> QED BY <1>5, <2>1 DEF SInv, PredsLeft
<1>10. node[x].inputs \subseteq Merged.inputs /\ node[Head(todo)].inputs \subseteq Merged.inputs
  BY <1>0 DEF Merged, MergedState
<1> QED BY <1>0, <1>2, <1>4, <1>8, <1>9, <1>10

LEMMA ProcessAdds ==
  ASSUME SInv, Process
  PROVE  \E y : \E P \in SUBSET graph.frontier.elements : Adds(y, P)
<1> DEFINE s        == Head(todo)
           partners == MergePartners(s)
           m        == MergedState(s, partners)
           S        == graph.frontier.elements
<1>1. /\ pc = "expand" /\ todo # <<>>
      /\ IF partners = {} THEN MergeStop(node, graph)
         ELSE MergeStop(Append(node, m), MergedGraph(Append(node, m), partners))
  BY Zenon DEF Process
<1>2. /\ Len(node) \in Nat /\ DOMAIN node = 1 .. Len(node)
      /\ graph.reached \subseteq DOMAIN node /\ S \subseteq graph.reached
      /\ DOMAIN graph = {"reached", "addedLast", "frontier"}
      /\ IsFiniteSet(S) /\ Holds(graph.frontier, S)
  BY StateTypes, WaitingFinite DEF SInv, FrontierRight
<1>3. s \in DOMAIN node \ graph.reached /\ node[s].preds = {current} /\ current \in Left /\ Target(current) = {}
  BY <1>1, HeadHolds
<1>4. CASE partners = {}
  <2>1. StopsAt(node, graph, s) = FALSE
    BY <1>4 DEF MergePartners, StopsAt
  <2>2. ~Orphan(node, graph, s) /\ ~Endless(graph.frontier)
    BY <1>2, <1>3, NotEndless DEF Orphan, Left
  <2>3. Faults(node, graph, s, FALSE) = {}
    BY <2>2 DEF Faults
  <2>4. Settle(node, graph, FALSE)
    BY <1>1, <1>4, <2>1 DEF MergeStop
  <2>5. /\ node' = node
        /\ graph' = ReachedAdd(Waiting(node, graph, s), s)
        /\ IF Target(s) # {} THEN pc' = "check" /\ todo' = <<>> ELSE pc' = pc /\ todo' = Tail(todo)
        /\ UNCHANGED <<task, current, verdict, thrown>>
    BY <2>3, <2>4 DEF Settle
  <2> DEFINE f == FrontierAdd(Keys(node), graph.frontier, s)
             w == [graph EXCEPT !.frontier = f]
  <2>6. graph' = [w EXCEPT !.reached = w.reached \cup {s}, !.addedLast = {s}]
    BY <2>5 DEF ReachedAdd, Waiting
  <2>7. Holds(f, S \cup {s})
    BY <1>2, <1>3, FrontierAddHolds
  <2> HIDE DEF f
  <2>8. DOMAIN w = DOMAIN graph /\ w.reached = graph.reached /\ w.frontier = f
    BY <1>2
  <2> HIDE DEF w
  <2>9. graph'.reached = graph.reached \cup {s} /\ graph'.addedLast = {s} /\ graph'.frontier = f
    BY <1>2, <2>6, <2>8
  <2>10. Adds(s, {})
    BY <1>1, <1>3, <2>5, <2>7, <2>9 DEF Adds
  <2> QED BY <2>10
<1>5. CASE partners # {}
  <2>1. PICK x \in S :
          /\ Partners = {x}
          /\ node[x].control = node[s].control
          /\ \A p \in Merged.preds : p \in Left /\ Target(p) = {}
          /\ node[x].inputs \subseteq Merged.inputs
          /\ node[s].inputs \subseteq Merged.inputs
          /\ DOMAIN MergedNodes = DOMAIN node \cup {Fresh} /\ MergedNodes[Fresh] = Merged
          /\ Fresh \notin DOMAIN node
          /\ \A z \in DOMAIN node : MergedNodes[z] = node[z]
          /\ MergedInto.reached = (graph.reached \cup {Fresh}) \ {x}
          /\ MergedInto.addedLast = {Fresh}
          /\ Holds(MergedInto.frontier, (S \cup {Fresh}) \ {x})
    BY <1>1, <1>5, MergedHolds DEF Partners
  <2>2. s \in Merged.mergeOf /\ Merged.control = node[s].control
    BY <1>3, MergedOK DEF SInv, Merged, Partners
  <2>3. MergeStop(MergedNodes, MergedInto)
    BY <1>1, <1>5 DEF MergedNodes, MergedInto, Merged, Partners
  <2>4. StopsAt(MergedNodes, MergedInto, s) = TRUE
    <3>1. Fresh \in MergedInto.reached /\ MergedNodes[Fresh].control = MergedNodes[s].control
      BY <1>2, <1>3, <2>1, <2>2
    <3> QED BY <2>1, <2>2, <3>1 DEF StopsAt
  <2>5. Faults(MergedNodes, MergedInto, s, TRUE) = {}
    <3>1. \A z \in DOMAIN MergedNodes \ DOMAIN node : ~Orphan(MergedNodes, graph, z)
      BY <2>1 DEF Orphan, Left
    <3>2. IsFiniteSet((S \cup {Fresh}) \ {x})
      BY <1>2, FS_AddElement, FS_RemoveElement
    <3>3. ~Endless(MergedInto.frontier)
      BY <2>1, <3>2, NotEndless
    <3> QED BY <3>1, <3>3 DEF Faults
  <2>6. Settle(MergedNodes, MergedInto, TRUE)
    BY <2>3, <2>4 DEF MergeStop
  <2>7. /\ node' = MergedNodes /\ graph' = MergedInto /\ pc' = pc /\ todo' = Tail(todo)
        /\ UNCHANGED <<task, current, verdict, thrown>>
    BY <2>5, <2>6 DEF Settle
  <2>8. Adds(Fresh, {x})
    BY <1>1, <1>2, <2>1, <2>2, <2>7 DEF Adds
  <2> QED BY <2>1, <2>8
<1> QED BY <1>4, <1>5

LEMMA ProcessSInv ==
  ASSUME SInv, IInv', Decided', Process
  PROVE  SInv'
<1> DEFINE s == Head(todo)
           S == graph.frontier.elements
<1>0. PICK y : \E P \in SUBSET S : Adds(y, P)
  BY ProcessAdds
<1>1. PICK P \in SUBSET S : Adds(y, P)
  BY <1>0
<1>2. /\ Len(node) \in Nat /\ DOMAIN node = 1 .. Len(node)
      /\ graph.reached \subseteq DOMAIN node
      /\ S \subseteq graph.reached
      /\ \A x \in DOMAIN node : Rank(x) \in Int /\ Len(Steps(x)) \in Nat
      /\ todo \in Seq(DOMAIN node)
      /\ Left \subseteq DOMAIN node /\ current \in DOMAIN node
  BY StateTypes DEF SInv, FrontierRight, InRankOrder, Left
<1>3. /\ s = todo[1] /\ 1 \in 1 .. Len(todo)
      /\ s \in DOMAIN node \ graph.reached
      /\ Done \in Nat /\ Done + 1 \in 1 .. Len(Steps(current))
      /\ node[s].control = Steps(current)[Done + 1].to
      /\ node[s].inputs = node[current].inputs \cap Steps(current)[Done + 1].guard
      /\ current \in Left /\ Target(current) = {}
      /\ Rank(current) < Rank(s)
  BY <1>1, HeadHolds DEF Adds
<1>4. /\ UNCHANGED <<task, verdict, current, thrown>> /\ pc = "expand"
      /\ y \in DOMAIN node' \ graph.reached
      /\ DOMAIN node \subseteq DOMAIN node' /\ \A x \in DOMAIN node : node'[x] = node[x]
      /\ graph'.reached = (graph.reached \cup {y}) \ P
      /\ graph'.addedLast = {y}
      /\ node'[y].control = node[s].control
      /\ node[s].inputs \subseteq node'[y].inputs
      /\ \A x \in P : node[x].inputs \subseteq node'[y].inputs /\ node[x].control = node[s].control
      /\ \A p \in node'[y].preds : p \in Left /\ Target(p) = {}
      /\ y = s \/ y \notin DOMAIN node
  BY <1>1 DEF Adds
<1>5. CASE task.error[0] # {}
  <2>1. current \in graph.reached
    BY <1>3 DEF Left
  <2>2. node[current].control = 0
    BY <1>5, <2>1 DEF SInv, InitialTarget
  <2> QED BY <1>3, <1>5, <2>2 DEF Target
<1>6. CASE task.error[0] = {}
  <2>1. /\ graph'.frontier.elements = (S \cup {y}) \ P
        /\ Left' = Left
        /\ FrontierRight'
    <3>1. Holds(graph'.frontier, (S \cup {y}) \ P)
      BY <1>1 DEF Adds
    <3>2. graph'.frontier.elements = (S \cup {y}) \ P
      BY <3>1 DEF Holds
    <3> QED BY <1>2, <1>4, <3>1, <3>2 DEF FrontierRight, Left
  <2>2. \A x \in DOMAIN node : /\ Target(x)' = Target(x) /\ Rank(x)' = Rank(x)
                               /\ Steps(x)' = Steps(x)
    BY <1>4 DEF Target, Rank, Steps
  <2>3. Target(y)' = Target(s) /\ Rank(y)' = Rank(s) /\ Rank(s) \in Int /\ y \in graph'.reached
    <3>1. y \notin P
      BY <1>2, <1>4
    <3> QED BY <1>2, <1>3, <1>4, <3>1 DEF Target, Rank
  <2>4. \A x \in graph.reached :
          \E z \in graph'.reached : node'[z].control = node[x].control /\ node[x].inputs \subseteq node'[z].inputs
    <3> TAKE x \in graph.reached
    <3>1. CASE x \in P
      BY <3>1, <1>4, <2>3
    <3>2. CASE x \notin P
      BY <3>2, <1>2, <1>4
    <3> QED BY <3>1, <3>2
  <2>5. InOrder' /\ Sound' /\ NoException'
    <3>1. Sound'
      BY <1>4 DEF SInv, Sound, Violates, Controls, Reaches, Closed
    <3> QED BY <1>4, <3>1 DEF SInv, InOrder, TopologicalOrder, Controls, NoException
  <2>6. InRankOrder'
    <3>1. current' = current /\ Rank(current)' = Rank(current)
      BY <1>2, <1>4, <2>2
    <3>2. \A x \in Left : Rank(x)' <= Rank(current)
      BY <1>2, <2>2 DEF SInv, InRankOrder
    <3>3. \A x \in S : Rank(current) <= Rank(x)'
      BY <1>2, <2>2 DEF SInv, InRankOrder
    <3>4. Rank(current) <= Rank(y)'
      BY <1>2, <1>3, <2>3
    <3> QED BY <1>2, <1>3, <1>4, <2>1, <3>1, <3>2, <3>3, <3>4 DEF InRankOrder
  <2>7. PredsLeft'
    <3>1. ASSUME NEW x \in graph'.reached, NEW p \in node'[x].preds PROVE p \in Left /\ Target(p) = {}
      BY <1>2, <1>4, <3>1 DEF SInv, PredsLeft
    <3> QED BY <1>2, <2>1, <2>2, <3>1 DEF PredsLeft
  <2>8. pc' = "expand" => todo' = Tail(todo) /\ Done' = Done + 1
    <3>1. pc' = "expand" => todo' = Tail(todo)
      BY <1>1 DEF Adds
    <3>2. Len(Tail(todo)) = Len(todo) - 1 /\ Len(todo) \in Nat
      BY <1>2, <1>3
    <3>3. Len(Steps(current)) \in Nat /\ Len(Steps(current)') = Len(Steps(current)) /\ current' = current
      BY <1>2, <1>4, <2>2
    <3>4. ASSUME pc' = "expand" PROVE Done' = Done + 1
      <4> DEFINE a == Len(Steps(current))
                 b == Len(todo)
      <4>1. Done' = Len(Steps(current)') - Len(todo')
        BY <3>3 DEF Done
      <4>2. Len(todo') = b - 1 /\ Done = a - b
        BY <3>1, <3>2, <3>4 DEF Done
      <4>3. a \in Nat /\ b \in Nat /\ Len(Steps(current)') = a
        BY <3>2, <3>3
      <4> HIDE DEF a, b
      <4> QED BY <4>1, <4>2, <4>3
    <3> QED BY <3>1, <3>4
  <2>9. TodoRight'
    <3> SUFFICES ASSUME pc' = "expand" PROVE TodoRight'
      BY DEF TodoRight
    <3> DEFINE t == Tail(todo)
    <3>1. todo' = t /\ Len(t) = Len(todo) - 1 /\ Len(todo) \in Nat /\ \A j \in 1 .. Len(t) : t[j] = todo[j + 1] /\ j + 1 \in 1 .. Len(todo)
      BY <1>2, <1>3, <2>8
    <3>2. ASSUME NEW j \in 1 .. Len(t)
          PROVE  /\ t[j] \in DOMAIN node
                 /\ t[j] \notin graph'.reached
                 /\ node'[t[j]].control = Steps(current)[Done' + j].to
                 /\ node'[t[j]].inputs = node[current].inputs \cap Steps(current)[Done' + j].guard
                 /\ node'[t[j]].preds = {current}
      <4>1. t[j] = todo[j + 1] /\ j + 1 \in 1 .. Len(todo) /\ Done + (j + 1) = Done' + j /\ j + 1 # 1
        BY <1>3, <2>8, <3>1
      <4>2. /\ t[j] \notin graph.reached
            /\ node[t[j]].control = Steps(current)[Done' + j].to
            /\ node[t[j]].inputs = node[current].inputs \cap Steps(current)[Done' + j].guard
            /\ node[t[j]].preds = {current}
        BY <1>4, <4>1 DEF SInv, TodoRight
      <4>3. t[j] \in DOMAIN node
        BY <1>2, <4>1
      <4>4. t[j] # s
        BY <1>3, <1>4, <4>1 DEF SInv, TodoRight
      <4> QED BY <1>4, <4>2, <4>3, <4>4
    <3>3. \A j, k \in 1 .. Len(t) : t[j] = t[k] => j = k
      <4> SUFFICES ASSUME NEW j \in 1 .. Len(t), NEW k \in 1 .. Len(t), t[j] = t[k] PROVE j = k
        OBVIOUS
      <4>1. todo[j + 1] = todo[k + 1] /\ j + 1 \in 1 .. Len(todo) /\ k + 1 \in 1 .. Len(todo)
        BY <3>1
      <4>2. j + 1 = k + 1
        BY <1>4, <4>1 DEF SInv, TodoRight
      <4> QED BY <3>1, <4>2
    <3>4. /\ current' = current /\ node'[current] = node[current]
          /\ Steps(current)' = Steps(current) /\ Len(Steps(current)) \in Nat
      BY <1>2, <1>4, <2>2
    <3>5. Len(t) <= Len(Steps(current))
      BY <1>4, <3>1, <3>4 DEF SInv, TodoRight
    <3> HIDE DEF t
    <3> QED BY <3>1, <3>2, <3>3, <3>4, <3>5 DEF TodoRight
  <2>10. AllCovered'
    <3>1. pc' # "expand" => Done + 1 = Len(Steps(current))
      <4> SUFFICES ASSUME pc' # "expand" PROVE Done + 1 = Len(Steps(current))
        OBVIOUS
      <4>1. Target(s) # {}
        BY <1>1 DEF Adds
      <4>2. task.error[Steps(current)[Done + 1].to] # {}
        BY <1>3, <4>1 DEF Target
      <4>3. Done + 1 \notin 1 .. Len(Steps(current)) - 1
        BY <1>2, <4>2, StateTypes DEF SInv, InOrder, Steps
      <4> QED BY <1>2, <1>3, <4>3
    <3>2. ASSUME NEW x \in Left, NEW i \in 1 .. Len(Steps(x)), x = current => i <= Done + 1
          PROVE  Covered(x, Steps(x)[i])'
      <4>1. /\ x \in DOMAIN node /\ Steps(x)' = Steps(x) /\ node'[x] = node[x]
            /\ Len(Steps(x)) \in Nat
        BY <1>2, <1>4, <2>2
      <4> DEFINE step == Steps(x)[i]
      <4>2. CASE x = current /\ i = Done + 1
        <5>1. node[x].inputs \cap step.guard \subseteq node'[y].inputs /\ node'[y].control = step.to
          BY <1>3, <1>4, <4>2
        <5> QED BY <2>3, <4>1, <5>1 DEF Covered
      <4>3. CASE ~(x = current /\ i = Done + 1)
        <5>1. x = current => i <= Done
          BY <1>3, <3>2, <4>1, <4>3
        <5>2. Covered(x, step)
          BY <1>4, <5>1 DEF SInv, AllCovered
        <5> HIDE DEF step
        <5>3. node[x].inputs \cap step.guard # {} =>
                \E z \in graph'.reached : /\ node'[z].control = step.to
                                         /\ node[x].inputs \cap step.guard \subseteq node'[z].inputs
          BY <2>4, <5>2 DEF Covered
        <5> USE DEF step
        <5> QED BY <4>1, <5>3 DEF Covered
      <4> QED BY <4>2, <4>3
    <3>3. \A x \in Left : Steps(x)' = Steps(x) /\ Len(Steps(x)) \in Nat
      BY <1>2, <2>2
    <3>4. ASSUME NEW x \in Left', NEW i \in 1 .. Len(Steps(x)'),
                 (pc' = "expand" /\ x = current') => i <= Done'
          PROVE  Covered(x, Steps(x)[i])'
      <4>1. x \in Left /\ i \in 1 .. Len(Steps(x)) /\ Len(Steps(x)) \in Nat
        BY <2>1, <3>3
      <4>2. x = current => i <= Done + 1
        BY <1>4, <2>8, <3>1, <3>4, <4>1
      <4> QED BY <3>2, <4>1, <4>2
    <3> QED BY <3>4 DEF AllCovered
  <2>11. InitialKept' /\ InitialTarget'
    <3>1. InitialKept'
      BY <2>4 DEF SInv, InitialKept
    <3> QED BY <1>4, <1>6, <3>1 DEF InitialTarget
  <2>12. TargetsNoted'
    <3>1. \A x \in graph.reached : Target(x) \subseteq verdict.violated
      BY <1>4, <1>6 DEF SInv, TargetsNoted
    <3>2. Target(s) \subseteq verdict.violated \/ pc' = "check"
      <4>1. CASE P = {}
        BY <1>1, <4>1 DEF Adds
      <4>2. CASE P # {}
        <5>1. PICK x \in P : TRUE
          BY <4>2
        <5>2. Target(x) = Target(s) /\ x \in graph.reached
          BY <1>2, <1>4, <5>1 DEF Target
        <5> QED BY <3>1, <5>2
      <4> QED BY <4>1, <4>2
    <3>3. ASSUME NEW x \in graph'.reached
          PROVE  Target(x)' \subseteq verdict.violated \/ (x \in graph'.addedLast /\ pc' = "check")
      <4>1. CASE x = y
        BY <1>4, <2>3, <3>2, <4>1
      <4>2. CASE x # y
        BY <1>2, <1>4, <2>2, <3>1, <4>2
      <4> QED BY <4>1, <4>2
    <3> QED BY <1>4, <3>3 DEF TargetsNoted
  <2> QED BY <2>1, <2>5, <2>6, <2>7, <2>9, <2>10, <2>11, <2>12 DEF SInv
<1> QED BY <1>5, <1>6

-----------------------------------------------------------------------------
(* Checking the feasibility: an infeasible target covers nothing.             *)

LEMMA SoundStays ==
  ASSUME Sound, UNCHANGED <<task, verdict>>
  PROVE  Sound'
BY DEF Sound, Violates, Controls, Reaches, Closed

LEMMA RemovedTarget ==
  ASSUME SInv, IInv', Decided', NEW t \in graph.addedLast, Target(t) # {}, node[t].inputs = {},
         pc = "check", pc' \in {"report", "begin"},
         UNCHANGED <<task, node, current, todo, verdict, thrown>>,
         graph'.reached = graph.reached \ {t},
         graph'.addedLast = graph.addedLast \ {t},
         Holds(graph'.frontier, graph.frontier.elements \ {t})
  PROVE  SInv'
<1>1. /\ graph'.frontier.elements = graph.frontier.elements \ {t}
      /\ graph.frontier.elements \subseteq graph.reached
      /\ Left' = Left \ {t}
  BY DEF SInv, FrontierRight, Holds, Left
<1>2. \A x : Target(x)' = Target(x) /\ Rank(x)' = Rank(x) /\ Steps(x)' = Steps(x)
  BY DEF Target, Rank, Steps
<1>3. InOrder' /\ Sound' /\ NoException'
  BY SoundStays DEF SInv, InOrder, TopologicalOrder, Controls, NoException
<1>4. FrontierRight' /\ InRankOrder' /\ TodoRight'
  BY <1>1, <1>2 DEF SInv, FrontierRight, InRankOrder, TodoRight
<1>5. PredsLeft'
  BY <1>1, <1>2 DEF SInv, PredsLeft
<1>6. AllCovered'
  <2> SUFFICES ASSUME NEW x \in Left, NEW i \in 1 .. Len(Steps(x)) PROVE Covered(x, Steps(x)[i])'
    BY <1>1, <1>2 DEF AllCovered
  <2>1. Covered(x, Steps(x)[i])
    BY DEF SInv, AllCovered
  <2> DEFINE step == Steps(x)[i]
  <2> HIDE DEF step
  <2>2. ASSUME node[x].inputs \cap step.guard # {}
        PROVE  \E y \in graph'.reached : /\ node[y].control = step.to
                                        /\ node[x].inputs \cap step.guard \subseteq node[y].inputs
    <3>1. PICK y \in graph.reached : /\ node[y].control = step.to
                                     /\ node[x].inputs \cap step.guard \subseteq node[y].inputs
      BY <2>1, <2>2 DEF Covered, step
    <3>2. y # t
      BY <2>2, <3>1
    <3> QED BY <3>1, <3>2
  <2> QED BY <1>2, <2>2 DEF step, Covered
<1>7. InitialKept' /\ InitialTarget'
  BY DEF SInv, InitialKept, InitialTarget
<1>8. TargetsNoted'
  <2>1. graph'.addedLast = {}
    BY DEF SInv, IInv, Latest
  <2>2. \A x \in graph'.reached : Target(x) \subseteq verdict.violated
    BY DEF SInv, IInv, Latest, TargetsNoted
  <2> QED BY <1>2, <2>2 DEF TargetsNoted
<1> QED BY <1>3, <1>4, <1>5, <1>6, <1>7, <1>8 DEF SInv

LEMMA CheckSInv ==
  ASSUME SInv, IInv', Decided', Check
  PROVE  SInv'
<1> DEFINE targets  == {x \in graph.addedLast : Target(x) # {}}
           feasible == \E t \in targets : node[t].inputs # {}
           g        == IF targets = {} \/ feasible THEN graph ELSE Removed(node, graph, targets)
           S        == graph.frontier.elements
<1>1. /\ pc = "check"
      /\ IF Endless(g.frontier) THEN Throw({"no_next_turn"})
         ELSE /\ graph' = g
              /\ pc' = IF feasible \/ IsEmpty(g.frontier) THEN "report" ELSE "begin"
              /\ UNCHANGED <<task, node, current, todo, verdict, thrown>>
  BY Zenon DEF Check
<1>2. IsFiniteSet(S) /\ Holds(graph.frontier, S)
  BY WaitingFinite DEF SInv, FrontierRight
<1>3. CASE targets = {} \/ feasible
  <2>1. ~Endless(g.frontier) /\ g = graph
    BY <1>2, <1>3, NotEndless
  <2>2. /\ UNCHANGED <<task, node, graph, current, todo, verdict, thrown>>
        /\ pc' = IF feasible \/ IsEmpty(g.frontier) THEN "report" ELSE "begin"
    BY <1>1, <2>1
  <2>3. pc' = "begin" => \A x \in graph.addedLast : Target(x) \subseteq verdict'.violated
    BY <1>3, <2>2
  <2>4. Sound'
    BY <2>2, SoundStays DEF SInv
  <2> HIDE DEF g, feasible
  <2>5. pc' \in {"report", "begin"} /\ UNCHANGED <<task, node, graph, current, thrown>> /\ verdict' = verdict
    BY <2>2
  <2> QED BY <1>1, <2>3, <2>4, <2>5, SameGraphSInv
<1>4. CASE ~(targets = {} \/ feasible)
  <2>1. PICK t \in targets : TRUE
    BY <1>4
  <2>2. targets = {t} /\ node[t].inputs = {} /\ Target(t) # {} /\ t \in graph.addedLast
    BY <1>4, <2>1 DEF SInv, IInv, Latest
  <2>3. /\ Len(node) \in Nat /\ DOMAIN node = 1 .. Len(node) /\ t \in 1 .. Len(node)
        /\ DOMAIN graph = {"reached", "addedLast", "frontier"}
    BY <2>2, StateTypes DEF SInv
  <2>4. \A z \in graph.reached : t \notin node[z].preds
    BY <2>2 DEF SInv, PredsLeft
  <2> DEFINE h == Removed(node, graph, {t})
  <2>5. g = h
    BY <1>4, <2>2
  <2>6. /\ h.reached = graph.reached \ {t}
        /\ h.addedLast = graph.addedLast \ {t}
        /\ Holds(h.frontier, S \ {t})
    <3> DEFINE xs == {t}
    <3>1. xs \in SUBSET (1 .. Len(node)) /\ \A z \in graph.reached : node[z].preds \cap xs = {}
      BY <2>3, <2>4
    <3> HIDE DEF xs
    <3>2. LET r == Removed(node, graph, xs)
          IN /\ DOMAIN r = DOMAIN graph
             /\ r.reached = graph.reached \ xs
             /\ r.addedLast = graph.addedLast \ xs
             /\ Holds(r.frontier, S \ xs)
      BY <1>2, <2>3, <3>1, RemovedAlone
    <3> QED BY <3>2 DEF xs
  <2>7. IsFiniteSet(S \ {t})
    BY <1>2, FS_RemoveElement
  <2> HIDE DEF h, g
  <2>8. ~Endless(g.frontier)
    BY <2>5, <2>6, <2>7, NotEndless
  <2>9. /\ graph' = h
        /\ pc' \in {"report", "begin"}
        /\ UNCHANGED <<task, node, current, todo, verdict, thrown>>
    BY <1>1, <2>5, <2>8
  <2> QED BY <1>1, <2>2, <2>6, <2>9, RemovedTarget
<1> QED BY <1>3, <1>4

-----------------------------------------------------------------------------
(* Reporting: when nothing waits, the control states of the reached states    *)
(* that stand for an input are closed under the steps it can take.           *)
LEMMA ExploredAll ==
  ASSUME SInv, pc # "done", pc # "expand", graph.frontier.elements = {},
         NEW v \in Inputs, NEW c, Reaches(v, c)
  PROVE  \E x \in graph.reached : node[x].control = c
<1> DEFINE here == {x \in graph.reached : v \in node[x].inputs}
           S    == {node[x].control : x \in here}
<1>1. S \in SUBSET Controls
  BY StateTypes DEF SInv
<1>2. Closed(S, v)
  <2>1. 0 \in S
    BY DEF SInv, InitialKept
  <2>2. ASSUME NEW d \in S, NEW i \in DOMAIN task.steps[d], v \in task.steps[d][i].guard
        PROVE  task.steps[d][i].to \in S
    <3>1. PICK x \in here : node[x].control = d
      BY <2>2
    <3>2. i \in 1 .. Len(Steps(x)) /\ x \in Left /\ Steps(x) = task.steps[d]
      <4>1. Steps(x) \in Seq(StepType) /\ Steps(x) = task.steps[d]
        BY <3>1, StateTypes DEF SInv, Steps
      <4> QED BY <4>1 DEF Left
    <3>3. Covered(x, Steps(x)[i])
      BY <3>2 DEF SInv, AllCovered
    <3>4. v \in node[x].inputs \cap Steps(x)[i].guard
      BY <2>2, <3>2
    <3>5. PICK y \in graph.reached : /\ node[y].control = Steps(x)[i].to
                                     /\ node[x].inputs \cap Steps(x)[i].guard \subseteq node[y].inputs
      BY <3>3, <3>4 DEF Covered
    <3>6. v \in node[y].inputs
      BY <3>4, <3>5
    <3> QED BY <3>2, <3>5, <3>6
  <2> QED BY <2>1, <2>2 DEF Closed
<1>3. c \in S
  BY <1>1, <1>2 DEF Reaches
<1> QED BY <1>3

LEMMA ReportSInv ==
  ASSUME SInv, IInv', Decided', Report
  PROVE  SInv'
<1> DEFINE found == UNION {Target(x) : x \in graph.addedLast}
<1>1. /\ pc = "report" /\ pc' \in {"begin", "done"}
      /\ UNCHANGED <<task, node, graph, current, todo, thrown>>
  BY DEF Report
<1>2. /\ verdict'.violated = verdict.violated \cup found
      /\ \/ verdict'.satisfied = verdict.satisfied
         \/ verdict'.satisfied = verdict.unknown \ (verdict.violated \cup found)
  BY ReportHolds DEF SInv, Decided
<1>3. \A p : Violates(p)' <=> Violates(p)
  BY <1>1 DEF Violates, Controls, Reaches, Closed
<1>4. Sound'
  <2>1. CASE verdict'.satisfied = verdict.satisfied
    BY <1>3, <2>1 DEF SInv, Sound
  <2>2. CASE verdict'.satisfied # verdict.satisfied
    <3>1. IsEmpty(graph.frontier)
      <4>1. DOMAIN verdict = {"violated", "satisfied", "unknown"}
        BY DEF SInv, Decided, VerdictShape
      <4> SUFFICES ASSUME ~IsEmpty(graph.frontier) PROVE FALSE
        OBVIOUS
      <4> DEFINE violated == verdict.violated \cup found
                 unknown  == verdict.unknown \ violated
      <4>2. verdict' = [verdict EXCEPT !.violated = violated, !.unknown = unknown]
        BY DEF Report
      <4> HIDE DEF unknown, violated
      <4> QED BY <2>2, <4>1, <4>2
    <3>2. graph.frontier.elements = {}
      BY <3>1, WaitingFinite, NotEndless DEF SInv, FrontierRight
    <3>3. ASSUME NEW p \in verdict'.satisfied, Violates(p) PROVE FALSE
      <4>1. p \notin verdict.violated \cup found
        BY <1>2, <2>2, <3>3
      <4>2. PICK c \in Controls : p \in task.error[c] /\ \E v \in Inputs : Reaches(v, c)
        BY <3>3 DEF Violates
      <4>3. PICK x \in graph.reached : node[x].control = c
        BY <1>1, <3>2, <4>2, ExploredAll
      <4>4. p \in Target(x)
        BY <4>2, <4>3 DEF Target
      <4> QED BY <4>1, <4>3, <4>4 DEF SInv, TargetsNoted
    <3> QED BY <1>3, <3>3 DEF Sound
  <2> QED BY <2>1, <2>2
<1>5. \A x \in graph.addedLast : Target(x) \subseteq verdict'.violated
  BY <1>2
<1> QED BY <1>1, <1>2, <1>4, <1>5, SameGraphSInv

LEMMA NextSInv ==
  ASSUME SInv, IInv', Decided', [Next]_vars
  PROVE  SInv'
<1>1. CASE Choose
  BY <1>1, ChooseSInv
<1>2. CASE Process
  BY <1>2, ProcessSInv
<1>3. CASE Check
  BY <1>3, CheckSInv
<1>4. CASE Report
  BY <1>4, ReportSInv
<1>5. CASE Begin \/ Expanded \/ Explored \/ Exhausted \/ UNCHANGED vars
  <2>1. /\ UNCHANGED <<task, node, graph, current, todo, verdict, thrown>>
        /\ pc' = "expand" => pc = "expand"
        /\ pc = "done" => pc' = "done"
        /\ pc = "expand" => pc' \in {"expand", "done"} \/ todo = <<>>
        /\ pc \in {"check", "report"} => pc' = pc
    BY <1>5 DEF Begin, Expanded, Explored, Exhausted, vars
  <2>2. todo = <<>> => Done = Len(Steps(current))
    BY StateTypes DEF SInv, InRankOrder, Done
  <2>3. Sound'
    BY <2>1, SoundStays DEF SInv
  <2>4. pc = "expand" => pc' \in {"expand", "done"} \/ Done = Len(Steps(current))
    BY <2>1, <2>2
  <2> QED BY <2>1, <2>3, <2>4, SameGraphSInv
<1> QED BY <1>1, <1>2, <1>3, <1>4, <1>5 DEF Next

LEMMA InOrderStays == Spec /\ InOrder => []SInv
<1>1. Init /\ InOrder => SInv
  BY InitSInv
<1>2. ASSUME SInv, IInv', Decided', [Next]_vars PROVE SInv'
  BY <1>2, NextSInv
<1> QED BY <1>1, <1>2, Deciding, PTL DEF Spec

-----------------------------------------------------------------------------
(* The theorems, for every program of InOrder, any inputs and properties,     *)
(* whether the analysis goes on after a violation, and wherever the budget   *)
(* is exhausted.                                                             *)

(* What is reported as satisfied is: no execution violates it.  When nothing  *)
(* waits any more, the reached states cover what the executions reach, and   *)
(* each target among them was reported (ReachabilityAlgorithm.run,            *)
(* FeasibilityAlgorithm.run, MultiPropertyAlgorithm.run).                    *)
THEOREM SoundInOrder == Spec /\ InOrder => []Sound
<1>1. SInv => Sound
  BY DEF SInv
<1> QED BY <1>1, InOrderStays, PTL

(* Between two expansions, the successors of the expanded states are covered  *)
(* by reached states, although merging takes states out of the graph          *)
(* (NewMergeIntoOperator, removeState).                                      *)
THEOREM RepresentedInOrder == Spec /\ InOrder => []Represented
<1>1. SInv => Represented
  <2> SUFFICES ASSUME SInv, pc \in {"begin", "choose"}, NEW x \in Left,
                      NEW i \in DOMAIN task.steps[node[x].control]
               PROVE  Covered(x, task.steps[node[x].control][i])
    BY DEF Represented, Left
  <2>1. i \in 1 .. Len(Steps(x))
    <3>1. Steps(x) \in Seq(StepType)
      BY StateTypes DEF SInv, Left
    <3> QED BY <3>1 DEF Steps
  <2> QED BY <2>1 DEF SInv, AllCovered, Steps
<1> QED BY <1>1, InOrderStays, PTL

(* The frontier counts right, holds no element twice and none that is not     *)
(* reached (DifferencingFrontierSet.add and remove).                         *)
THEOREM FrontierInOrder == Spec /\ InOrder => []FrontierConsistent
<1>1. SInv => FrontierConsistent
  BY DEF SInv, FrontierRight, FrontierConsistent, Holds, SetToBag
<1> QED BY <1>1, InOrderStays, PTL

(* Neither the reached set nor the frontier throws an exception, or searches  *)
(* its next turn for ever.                                                   *)
THEOREM NoExceptionInOrder == Spec /\ InOrder => []NoException
<1>1. SInv => NoException
  BY DEF SInv
<1> QED BY <1>1, InOrderStays, PTL

(* The algorithms implement Verdicts, without a premise on what they report:  *)
(* a property that is called satisfied is, one that is called violated is,    *)
(* and neither is taken back.                                                *)
THEOREM VerdictsKeptInOrder == Spec /\ InOrder => KeepsPromise
BY SoundInOrder, VerdictsKept, PTL
=============================================================================
