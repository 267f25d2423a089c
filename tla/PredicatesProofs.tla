--------------------------- MODULE PredicatesProofs ---------------------------
(***************************************************************************)
(* What holds of Predicates for all programs, in any order of the frontier:  *)
(* the blocks of a trace are determined by the last one, an infeasible trace *)
(* has a place for interpolants, a refinement finds a new predicate, and     *)
(* executions violate what is reported as violated.  And for the programs    *)
(* whose states are explored in order: no execution violates what is reported *)
(* as satisfied, and nothing is thrown.                                      *)
(***************************************************************************)
EXTENDS Predicates, ExplorationProofs

-----------------------------------------------------------------------------
(* The inductive invariant.                                                  *)

Controls == DOMAIN task.steps
StepType == [to : Controls, change : SUBSET (Values \X Values)]
NodeType == [control : Controls, part : Controls, preds : SUBSET Nat, mergeOf : SUBSET Nat,
             block : Nat, entering : SUBSET Values, formula : SUBSET (Values \X Values),
             widened : BOOLEAN]

(* A block starts at the root, or where a state was widened. *)
Starts(nodes, b) == b = 1 \/ nodes[b].widened

(* The states of a block have the same summary, and their predecessors are in *)
(* the same block; those of the state that starts one are in one block.      *)
Linked(nodes, x) ==
  /\ nodes[x].preds \subseteq 1 .. x - 1
  /\ nodes[x].preds = {} => x = 1
  /\ nodes[x].block \in DOMAIN nodes /\ nodes[x].block <= x /\ Starts(nodes, nodes[x].block)
  /\ nodes[x].entering = nodes[nodes[x].block].entering
  /\ nodes[x].widened => nodes[x].block = x /\ nodes[x].control \in task.heads
  /\ ~nodes[x].widened => \A p \in nodes[x].preds : nodes[p].block = nodes[x].block

(* The summaries along the starts of blocks t follow from each other. *)
Chain(nodes, t) ==
  \A i \in 1 .. Len(t) :
    /\ nodes[t[i]].widened
    /\ nodes[t[i]].entering =
         Abstraction(Image(nodes[t[i]].formula,
                           IF i = 1 THEN Values ELSE nodes[t[i - 1]].entering))

(* U gives the starts of blocks before and including each of them; the         *)
(* summaries of the states L were computed with the current precision.        *)
Traced(nodes, U, L) ==
  /\ U \in [DOMAIN nodes -> Seq(DOMAIN nodes)]
  /\ U[1] = <<>> /\ \A x \in DOMAIN nodes : U[x] \in Seq(1 .. x)
  /\ \A x \in DOMAIN nodes : nodes[x].widened =>
       /\ U[x] # <<>> /\ U[x][Len(U[x])] = x
       /\ x \in L => Chain(nodes, U[x])
       /\ \A p \in nodes[x].preds : U[x] = Append(U[nodes[p].block], x)

NodesOK(nodes, L) ==
  /\ nodes \in Seq(NodeType) /\ nodes # <<>> /\ nodes[1] = Root
  /\ \A x \in DOMAIN nodes : Linked(nodes, x)
  /\ \E U : Traced(nodes, U, L)

(* The states L, those that were created since the last refinement and are    *)
(* not below one that was removed by it, are closed under predecessors.       *)
Living(nodes, L) ==
  /\ 1 \in L /\ L \subseteq DOMAIN nodes
  /\ \A x \in L : nodes[x].preds \subseteq L /\ nodes[x].block \in L

(* What is still to be processed is nobody's predecessor yet. *)
Pending ==
  /\ todo \in Seq(DOMAIN node)
  /\ pc \notin {"expand", "done"} => todo = <<>>
  /\ \A j \in 1 .. Len(todo) :
       /\ todo[j] # 1 /\ ~node[todo[j]].widened
       /\ \A x \in DOMAIN node : todo[j] \notin node[x].preds
  /\ \A j, k \in 1 .. Len(todo) : todo[j] = todo[k] => j = k

(* Targets are feasible within their block. *)
FeasibleTargets ==
  \A x \in graph.reached \cup {todo[j] : j \in 1 .. Len(todo)} :
    Target(x) # {} => Feasible(node[x])

Shape ==
  /\ DOMAIN graph = {"reached", "addedLast", "frontier"}
  /\ graph.reached \subseteq DOMAIN node
  /\ graph.addedLast \subseteq graph.reached

(* The predecessors of a state that was not removed were not removed. *)
Connected == \A x \in graph.reached : node[x].preds \subseteq graph.reached

(* A successor of a state that a refinement removed has no predecessor in L. *)
Lost(L) ==
  \A j \in 1 .. Len(todo) : todo[j] \in L \/ node[todo[j]].preds \cap L = {}

IInv(L) ==
  /\ task \in Tasks
  /\ NodesOK(node, L)
  /\ Living(node, L)
  /\ graph.reached \subseteq L
  /\ Lost(L)
  /\ Shape
  /\ Connected
  /\ Pending
  /\ FeasibleTargets

Consistent == \E L : IInv(L)

-----------------------------------------------------------------------------
(* Widening a state that is nobody's predecessor starts a block.             *)
LEMMA WideningHolds ==
  ASSUME task \in Tasks, NEW L, NodesOK(node, L), Living(node, L), NEW s \in DOMAIN node, s # 1, ~node[s].widened,
         \A x \in DOMAIN node : s \notin node[x].preds
  PROVE  /\ NodesOK(Widening(s), L) /\ Living(Widening(s), L)
         /\ DOMAIN Widening(s) = DOMAIN node
         /\ \A x \in DOMAIN node \ {s} : Widening(s)[x] = node[x]
         /\ Widening(s)[s].preds = node[s].preds
<1> DEFINE nodes == Widening(s)
           w     == Widened(node[s], s)
<1>0. CASE node[s].control \notin task.heads
  BY <1>0 DEF Widening
<1> SUFFICES ASSUME node[s].control \in task.heads
             PROVE  /\ NodesOK(nodes, L) /\ Living(nodes, L)
                    /\ DOMAIN nodes = DOMAIN node
                    /\ \A x \in DOMAIN node \ {s} : nodes[x] = node[x]
                    /\ nodes[s].preds = node[s].preds
  BY <1>0
<1>1. /\ node \in Seq(NodeType) /\ node[s] \in NodeType /\ Len(node) \in Nat
      /\ DOMAIN node = 1 .. Len(node) /\ node[1] = Root /\ node # <<>>
      /\ \A x \in DOMAIN node : Linked(node, x)
  BY DEF NodesOK
<1>2. nodes = [node EXCEPT ![s] = w]
  BY DEF Widening
<1>3. /\ w.control \in task.heads /\ w.control \in Controls
      /\ w.block = s /\ w.widened /\ w.preds = node[s].preds /\ w.formula = node[s].formula
      /\ w.entering = Abstraction(Image(node[s].formula, node[s].entering))
      /\ w \in NodeType
  <2>1. task.widened[node[s].control] \in task.heads /\ task.heads \subseteq Controls
    <3>1. IsTask(task)
      BY PredicateTasksAssumption
    <3>2. task.widened \in [task.heads -> task.heads] /\ task.heads \subseteq Controls
      BY <3>1 DEF IsTask, Controls
    <3> QED BY <3>2
  <2>2. Abstraction(Image(node[s].formula, node[s].entering)) \in SUBSET Values
    BY DEF Abstraction, Strongest
  <2>3. s \in Nat
    BY <1>1
  <2> QED BY <1>1, <2>1, <2>2, <2>3 DEF Widened, NodeType
<1> HIDE DEF w
<1>4. /\ nodes \in Seq(NodeType) /\ nodes # <<>>
      /\ DOMAIN nodes = DOMAIN node /\ nodes[s] = w
      /\ \A x \in DOMAIN node \ {s} : nodes[x] = node[x]
  BY <1>1, <1>2, <1>3
<1> HIDE DEF nodes
<1>5. nodes[1] = Root /\ 1 \in DOMAIN node
  BY <1>1, <1>4
<1>6. \A x \in DOMAIN node : node[x].block \in DOMAIN node \ {s}
  BY <1>1 DEF Linked, Starts
<1>7. ASSUME NEW x \in DOMAIN node PROVE Linked(nodes, x)
  <2>1. CASE x # s
    <3>1. nodes[x] = node[x] /\ Linked(node, x)
      BY <2>1, <1>1, <1>4
    <3>2. nodes[node[x].block] = node[node[x].block] /\ node[x].block \in DOMAIN nodes
      BY <1>4, <1>6
    <3>3. \A p \in node[x].preds : p \in DOMAIN node \ {s}
      BY <1>1, <3>1 DEF Linked
    <3>4. \A p \in node[x].preds : nodes[p] = node[p]
      BY <1>4, <3>3
    <3> QED BY <3>1, <3>2, <3>4 DEF Linked, Starts
  <2>2. CASE x = s
    BY <2>2, <1>1, <1>3, <1>4 DEF Linked, Starts
  <2> QED BY <2>1, <2>2
<1>8. \E U : Traced(nodes, U, L)
  <2>1. PICK U : Traced(node, U, L)
    BY DEF NodesOK
  <2>2. PICK p \in node[s].preds : TRUE
    BY <1>1 DEF Linked
  <2> DEFINE b == node[s].block
             t == Append(U[b], s)
             V == [U EXCEPT ![s] = t]
  <2>3. \A q \in node[s].preds : node[q].block = b
    BY <1>1 DEF Linked
  <2>4. b \in DOMAIN node \ {s} /\ Starts(node, b) /\ node[s].entering = node[b].entering
    BY <1>1, <1>6 DEF Linked
  <2>5. U[b] \in Seq(DOMAIN node) /\ t \in Seq(DOMAIN node)
    BY <2>1, <2>4 DEF Traced
  <2>6. /\ Len(t) = Len(U[b]) + 1 /\ Len(U[b]) \in Nat
        /\ t[Len(t)] = s /\ \A i \in 1 .. Len(U[b]) : t[i] = U[b][i]
    BY <2>5
  <2>7. ASSUME s \in L PROVE Chain(node, U[b])
    <3>1. CASE b = 1
      BY <3>1, <2>1 DEF Traced, Chain
    <3>2. CASE node[b].widened
      <4>1. b \in L
        BY <2>7 DEF Living
      <4> QED BY <3>2, <4>1, <2>1, <2>4 DEF Traced
    <3> QED BY <3>1, <3>2, <2>4 DEF Starts
  <2>8. node[b].entering = IF Len(U[b]) = 0 THEN Values ELSE node[U[b][Len(U[b])]].entering
    <3>1. CASE b = 1
      BY <3>1, <2>1, <1>1 DEF Traced, Root
    <3>2. CASE node[b].widened
      BY <3>2, <2>1, <2>4, <2>5 DEF Traced
    <3> QED BY <3>1, <3>2, <2>4 DEF Starts
  <2>9. \A u \in Seq(DOMAIN node) : Chain(node, u) => Chain(nodes, u)
    <3> SUFFICES ASSUME NEW u \in Seq(DOMAIN node), Chain(node, u), NEW i \in 1 .. Len(u)
                 PROVE  /\ nodes[u[i]].widened
                        /\ nodes[u[i]].entering =
                             Abstraction(Image(nodes[u[i]].formula,
                                               IF i = 1 THEN Values ELSE nodes[u[i - 1]].entering))
      BY DEF Chain
    <3>1. \A j \in 1 .. Len(u) : nodes[u[j]] = node[u[j]]
      BY <1>4 DEF Chain
    <3>2. i # 1 => i - 1 \in 1 .. Len(u)
      OBVIOUS
    <3> QED BY <3>1, <3>2 DEF Chain
  <2>10. ASSUME s \in L PROVE Chain(nodes, t)
    <3>0. Chain(node, U[b])
      BY <2>7, <2>10
    <3> SUFFICES ASSUME NEW i \in 1 .. Len(t)
                 PROVE  /\ nodes[t[i]].widened
                        /\ nodes[t[i]].entering =
                             Abstraction(Image(nodes[t[i]].formula,
                                               IF i = 1 THEN Values ELSE nodes[t[i - 1]].entering))
      BY DEF Chain
    <3>1. CASE i = Len(t)
      <4>1. nodes[t[i]] = w
        BY <3>1, <2>6, <1>4
      <4>2. node[s].entering = IF i = 1 THEN Values ELSE node[t[i - 1]].entering
        BY <3>1, <2>4, <2>6, <2>8
      <4>3. i # 1 => nodes[t[i - 1]] = node[t[i - 1]]
        <5>1. i # 1 => i - 1 \in 1 .. Len(U[b]) /\ t[i - 1] = U[b][i - 1]
          BY <3>1, <2>6
        <5>2. \A j \in 1 .. Len(U[b]) : U[b][j] \in DOMAIN node \ {s}
          BY <2>5, <3>0 DEF Chain
        <5> QED BY <5>1, <5>2, <1>4
      <4> QED BY <4>1, <4>2, <4>3, <1>3
    <3>2. CASE i # Len(t)
      <4>1. i \in 1 .. Len(U[b]) /\ t[i] = U[b][i]
        BY <3>2, <2>6
      <4>2. i # 1 => t[i - 1] = U[b][i - 1]
        BY <4>1, <2>6
      <4>3. Chain(nodes, U[b])
        BY <2>5, <3>0, <2>9
      <4> QED BY <4>1, <4>2, <4>3 DEF Chain
    <3> QED BY <3>1, <3>2
  <2>10a. /\ U \in [DOMAIN node -> Seq(DOMAIN node)] /\ U[1] = <<>>
          /\ \A x \in DOMAIN node : U[x] \in Seq(1 .. x)
    BY <2>1 DEF Traced
  <2>10b. t \in Seq(1 .. s)
    <3>1. b \in 1 .. s /\ s \in Nat
      BY <2>4, <1>1 DEF Linked
    <3>2. 1 .. b \subseteq 1 .. s
      BY <3>1
    <3>3. U[b] \in Seq(1 .. s)
      BY <2>4, <2>10a, <3>2, SeqMonotonic
    <3> QED BY <3>1, <3>3
  <2>11. V \in [DOMAIN nodes -> Seq(DOMAIN nodes)] /\ V[1] = <<>> /\ V[s] = t
    <3> HIDE DEF t
    <3> QED BY <2>10a, <2>5, <1>4
  <2>12. \A x \in DOMAIN node \ {s} : V[x] = U[x]
    <3> HIDE DEF t
    <3> QED BY <2>10a
  <2> HIDE DEF V
  <2>12a. \A x \in DOMAIN nodes : V[x] \in Seq(1 .. x)
    <3> HIDE DEF t
    <3> QED BY <2>10a, <2>10b, <2>11, <2>12, <1>4
  <2>13. ASSUME NEW x \in DOMAIN nodes, nodes[x].widened
         PROVE  /\ V[x] # <<>> /\ V[x][Len(V[x])] = x
                /\ x \in L => Chain(nodes, V[x])
                /\ \A q \in nodes[x].preds : V[x] = Append(V[nodes[q].block], x)
    <3>0. \A q \in nodes[x].preds : q \in DOMAIN node \ {s} /\ nodes[q] = node[q]
      <4>1. x \in DOMAIN node /\ nodes[x].preds = node[x].preds
        BY <1>3, <1>4
      <4>2. node[x].preds \subseteq 1 .. x - 1
        BY <4>1, <1>1 DEF Linked
      <4>3. node[x].preds \subseteq DOMAIN node \ {s}
        BY <4>1, <4>2, <1>1
      <4> QED BY <4>1, <4>3, <1>4
    <3>1. \A q \in nodes[x].preds : V[nodes[q].block] = U[node[q].block]
      BY <3>0, <1>6, <2>12
    <3>2. CASE x = s
      <4>1. V[x] = t /\ t # <<>> /\ t[Len(t)] = x
        <5> HIDE DEF t
        <5>1. t # <<>>
          BY <2>5, <2>6
        <5> QED BY <5>1, <3>2, <2>6, <2>11
      <4>2. \A q \in nodes[x].preds : node[q].block = b
        BY <3>2, <2>3, <1>3, <1>4
      <4>3. \A q \in nodes[x].preds : V[x] = Append(V[nodes[q].block], x)
        BY <4>1, <4>2, <3>1, <3>2
      <4>4. V[x] # <<>> /\ V[x][Len(V[x])] = x /\ (x \in L => Chain(nodes, V[x]))
        <5> HIDE DEF t
        <5> QED BY <4>1, <3>2, <2>10
      <4> QED BY <4>3, <4>4
    <3>3. CASE x # s
      <4>1. nodes[x] = node[x] /\ V[x] = U[x] /\ node[x].widened /\ x \in DOMAIN node
        BY <3>3, <1>4, <2>12, <2>13
      <4>2. /\ U[x] # <<>> /\ U[x][Len(U[x])] = x /\ (x \in L => Chain(node, U[x]))
            /\ U[x] \in Seq(DOMAIN node)
            /\ \A q \in node[x].preds : U[x] = Append(U[node[q].block], x)
        BY <4>1, <2>1 DEF Traced
      <4> QED BY <4>1, <4>2, <3>1, <2>9
    <3> QED BY <3>2, <3>3
  <2>14. Traced(nodes, V, L)
    BY <2>11, <2>12a, <2>13 DEF Traced
  <2> QED BY <2>14
<1>9. Living(nodes, L)
  <2>1. \A x \in L : x \in DOMAIN node /\ node[x].preds \subseteq L /\ node[x].block \in L
    BY DEF Living
  <2>2. \A x \in L : nodes[x].preds \subseteq L /\ nodes[x].block \in L
    BY <1>3, <1>4, <2>1
  <2> QED BY <1>4, <2>2 DEF Living
<1> QED BY <1>3, <1>4, <1>5, <1>7, <1>8, <1>9 DEF NodesOK
-----------------------------------------------------------------------------
(* New states in the blocks of their predecessors.                           *)
Continues(nodes, n) ==
  /\ n \in NodeType /\ ~n.widened
  /\ n.preds # {} /\ n.preds \subseteq DOMAIN nodes
  /\ n.block \in DOMAIN nodes /\ Starts(nodes, n.block)
  /\ n.entering = nodes[n.block].entering
  /\ \A p \in n.preds : nodes[p].block = n.block

LEMMA GrownHolds ==
  ASSUME NEW nodes, NEW L, NodesOK(nodes, L), NEW next \in Seq(NodeType),
         \A i \in DOMAIN next : Continues(nodes, next[i]),
         NEW M, M \cap DOMAIN nodes \subseteq L
  PROVE  NodesOK(nodes \o next, M)
<1> DEFINE all == nodes \o next
<1>1. nodes \in Seq(NodeType) /\ nodes # <<>> /\ nodes[1] = Root
  BY DEF NodesOK
<1>2. /\ all \in Seq(NodeType)
      /\ Len(nodes) \in Nat /\ DOMAIN nodes = 1 .. Len(nodes)
      /\ Len(next) \in Nat /\ DOMAIN next = 1 .. Len(next)
      /\ DOMAIN all = 1 .. Len(nodes) + Len(next)
      /\ \A x \in DOMAIN nodes : all[x] = nodes[x]
      /\ \A i \in DOMAIN next : all[Len(nodes) + i] = next[i]
      /\ \A x \in DOMAIN all : x \in DOMAIN nodes \/ \E i \in DOMAIN next : x = Len(nodes) + i
  BY <1>1, Concatenated
<1> HIDE DEF all
<1>3. Len(nodes) # 0 /\ 1 \in DOMAIN nodes /\ DOMAIN nodes \subseteq DOMAIN all /\ all # <<>>
  BY <1>1, <1>2
<1>4. \A x \in DOMAIN nodes : Linked(nodes, x)
  BY DEF NodesOK
<1>5. ASSUME NEW x \in DOMAIN all PROVE Linked(all, x)
  <2>1. CASE x \in DOMAIN nodes
    <3>1. all[x] = nodes[x] /\ Linked(nodes, x)
      BY <2>1, <1>2, <1>4
    <3>2. nodes[x].block \in DOMAIN nodes /\ \A p \in nodes[x].preds : p \in DOMAIN nodes
      BY <2>1, <3>1, <1>2 DEF Linked
    <3>3. all[nodes[x].block] = nodes[nodes[x].block] /\ \A p \in nodes[x].preds : all[p] = nodes[p]
      BY <3>2, <1>2
    <3> QED BY <3>1, <3>2, <3>3, <1>3 DEF Linked, Starts
  <2>2. CASE x \notin DOMAIN nodes
    <3>1. PICK i \in DOMAIN next : x = Len(nodes) + i
      BY <2>2, <1>2
    <3>2. all[x] = next[i] /\ Continues(nodes, next[i])
      BY <3>1, <1>2
    <3>3. /\ next[i].preds # {} /\ next[i].preds \subseteq DOMAIN nodes /\ ~next[i].widened
          /\ next[i].block \in DOMAIN nodes /\ Starts(nodes, next[i].block)
          /\ next[i].entering = nodes[next[i].block].entering
          /\ \A p \in next[i].preds : nodes[p].block = next[i].block
      BY <3>2 DEF Continues
    <3>4. all[next[i].block] = nodes[next[i].block] /\ \A p \in next[i].preds : all[p] = nodes[p]
      BY <3>3, <1>2
    <3>5. next[i].preds \subseteq 1 .. x - 1 /\ next[i].block <= x
      BY <3>1, <3>3, <1>2
    <3> QED BY <3>2, <3>3, <3>4, <3>5, <1>3 DEF Linked, Starts
  <2> QED BY <2>1, <2>2
<1>6. \E U : Traced(all, U, M)
  <2>1. PICK U : Traced(nodes, U, L)
    BY DEF NodesOK
  <2> DEFINE V == [x \in DOMAIN all |-> IF x \in DOMAIN nodes THEN U[x] ELSE <<>>]
  <2>2. \A x \in DOMAIN nodes : U[x] \in Seq(DOMAIN nodes)
    BY <2>1 DEF Traced
  <2>3. Seq(DOMAIN nodes) \subseteq Seq(DOMAIN all) /\ <<>> \in Seq(DOMAIN all)
    BY <1>3, SeqMonotonic
  <2>4. V \in [DOMAIN all -> Seq(DOMAIN all)]
    BY <2>2, <2>3
  <2>5. \A x \in DOMAIN nodes : V[x] = U[x]
    BY <1>3
  <2>6. V[1] = <<>>
    BY <2>1, <2>5, <1>3 DEF Traced
  <2> HIDE DEF V
  <2>7. ASSUME NEW x \in DOMAIN all, all[x].widened
        PROVE  /\ V[x] # <<>> /\ V[x][Len(V[x])] = x
               /\ x \in M => Chain(all, V[x])
               /\ \A q \in all[x].preds : V[x] = Append(V[all[q].block], x)
    <3>1. x \in DOMAIN nodes
      BY <2>7, <1>2 DEF Continues
    <3>2. all[x] = nodes[x] /\ V[x] = U[x] /\ nodes[x].widened
      BY <3>1, <2>5, <2>7, <1>2
    <3>3. /\ U[x] # <<>> /\ U[x][Len(U[x])] = x /\ (x \in M => Chain(nodes, U[x]))
          /\ \A q \in nodes[x].preds : U[x] = Append(U[nodes[q].block], x)
      BY <3>1, <3>2, <2>1 DEF Traced
    <3>4. \A q \in nodes[x].preds : q \in DOMAIN nodes /\ nodes[q].block \in DOMAIN nodes
      BY <3>1, <1>2, <1>4 DEF Linked
    <3>5. \A q \in nodes[x].preds : V[all[q].block] = U[nodes[q].block]
      BY <3>4, <2>5, <1>2
    <3>6. ASSUME x \in M PROVE Chain(all, U[x])
      <4>1. \A j \in 1 .. Len(U[x]) : U[x][j] \in DOMAIN nodes
        BY <3>1, <2>2
      <4>2. \A j \in 1 .. Len(U[x]) : all[U[x][j]] = nodes[U[x][j]]
        BY <4>1, <1>2
      <4>3. ASSUME NEW i \in 1 .. Len(U[x])
            PROVE  /\ all[U[x][i]].widened
                   /\ all[U[x][i]].entering =
                        Abstraction(Image(all[U[x][i]].formula,
                                          IF i = 1 THEN Values ELSE all[U[x][i - 1]].entering))
        <5>1. i # 1 => i - 1 \in 1 .. Len(U[x])
          BY <3>1, <2>2
        <5> QED BY <5>1, <4>2, <3>3, <3>6 DEF Chain
      <4> QED BY <4>3 DEF Chain
    <3> QED BY <3>2, <3>3, <3>5, <3>6
  <2>8. Traced(all, V, M)
    <3>1. \A x \in DOMAIN nodes : U[x] \in Seq(1 .. x)
      BY <2>1 DEF Traced
    <3>2. \A x \in DOMAIN all : x \notin DOMAIN nodes => V[x] = <<>>
      BY DEF V
    <3>3. \A x \in DOMAIN all : <<>> \in Seq(1 .. x)
      OBVIOUS
    <3>4. \A x \in DOMAIN all : V[x] \in Seq(1 .. x)
      BY <2>5, <3>1, <3>2, <3>3
    <3> QED BY <2>4, <2>6, <2>7, <3>4 DEF Traced
  <2> QED BY <2>8
<1>7. all[1] = Root
  BY <1>1, <1>2, <1>3
<1> QED BY <1>2, <1>3, <1>5, <1>6, <1>7 DEF NodesOK, all

-----------------------------------------------------------------------------
(* The successors that are kept: in their order, the targets feasible.       *)
Places(n) == Fresh .. Fresh + n - 1

Keeps(s) == task.error[s.control] = {} \/ Feasible(s)

(* What is kept of the first i successors. *)
KeptOf(next, i, q) ==
  /\ q \in Seq(Places(i))
  /\ \A j, k \in 1 .. Len(q) : q[j] = q[k] => j = k
  /\ \A j, k \in 1 .. Len(q) : j < k => q[j] < q[k]
  /\ \A j \in 1 .. Len(q) : Keeps(next[q[j] - Fresh + 1])
  /\ \A h \in 1 .. i : Keeps(next[h]) => \E j \in 1 .. Len(q) : q[j] = Fresh + h - 1

LEMMA KeptHolds ==
  ASSUME Len(node) \in Nat, NEW next \in Seq(NodeType)
  PROVE  KeptOf(next, Len(next), Kept(next))
<1> DEFINE n == Len(next)
           Step(f) == [i \in 0 .. n |->
                         IF i = 0 THEN <<>>
                         ELSE IF Keeps(next[i]) THEN Append(f[i - 1], Fresh + i - 1) ELSE f[i - 1]]
           G == [p \in (1 .. n) \X Seq(Nat) |->
                   IF Keeps(next[p[1]]) THEN Append(p[2], Fresh + p[1] - 1) ELSE p[2]]
<1>1. n \in Nat /\ Fresh \in Nat
  BY DEF Fresh
<1>2. Kept(next) = (CHOOSE f : f = Step(f))[n]
  BY DEF Kept, Keeps
<1>0. n = Len(next)
  OBVIOUS
<1> HIDE DEF n
<1>3. G \in [(1 .. n) \X Seq(Nat) -> Seq(Nat)]
  <2>1. ASSUME NEW i \in 1 .. n, NEW q \in Seq(Nat)
        PROVE  Append(q, Fresh + i - 1) \in Seq(Nat)
    BY <1>1
  <2> QED BY <2>1
<1>4. \A i \in 1 .. n, q \in Seq(Nat) :
        G[<<i, q>>] = IF Keeps(next[i]) THEN Append(q, Fresh + i - 1) ELSE q
  OBVIOUS
<1>5. <<>> \in Seq(Nat)
  OBVIOUS
<1> HIDE DEF G
<1>6. PICK g \in [0 .. n -> Seq(Nat)] : g[0] = <<>> /\ \A i \in 1 .. n : g[i] = G[<<i, g[i - 1]>>]
  <2>1. G \in [(0 + 1 .. n) \X Seq(Nat) -> Seq(Nat)] /\ 0 <= n
    BY <1>1, <1>3
  <2>2. \E g : Follows(G, <<>>, 0, n, Seq(Nat), g)
    BY <1>1, <1>5, <2>1, Recursion
  <2>3. 0 + 1 .. n = 1 .. n
    OBVIOUS
  <2> QED BY <2>2, <2>3 DEF Follows
<1>7. g = Step(g)
  <2>1. \A i \in 0 .. n : i # 0 => i \in 1 .. n /\ i - 1 \in 0 .. n /\ g[i - 1] \in Seq(Nat)
    BY <1>1
  <2> QED BY <2>1, <1>4, <1>6
<1>8. PICK f : f = Step(f) /\ Kept(next) = f[n]
  BY <1>2, <1>7
<1> DEFINE Bad == {i \in 0 .. n : ~KeptOf(next, i, f[i])}
<1>9. CASE Bad # {}
  <2>0. Bad \in SUBSET Nat
    BY <1>1
  <2>1. PICK m \in Bad : \A k \in Bad : m <= k
    <3> HIDE DEF Bad
    <3> QED BY <1>9, <2>0, LeastElement
  <2>2. m \in 0 .. n /\ ~KeptOf(next, m, f[m])
    OBVIOUS
  <2> HIDE DEF Bad
  <2>3. m # 0
    <3>1. KeptOf(next, 0, <<>>)
      BY DEF KeptOf
    <3>2. m = 0 => f[m] = <<>>
      BY <1>8, <2>2
    <3> QED BY <3>1, <3>2, <2>2
  <2>4. m \in 1 .. n /\ m - 1 \in 0 .. n /\ m - 1 \notin Bad
    BY <1>1, <2>0, <2>1, <2>2, <2>3
  <2>5. KeptOf(next, m - 1, f[m - 1])
    BY <2>4 DEF Bad
  <2> DEFINE q == f[m - 1]
  <2>6. f[m] = IF Keeps(next[m]) THEN Append(q, Fresh + m - 1) ELSE q
    BY <1>8, <2>2, <2>3
  <2> HIDE DEF q
  <2>7. /\ q \in Seq(Places(m - 1)) /\ q \in Seq(Places(m))
        /\ \A j, k \in 1 .. Len(q) : q[j] = q[k] => j = k
        /\ \A j, k \in 1 .. Len(q) : j < k => q[j] < q[k]
        /\ \A j \in 1 .. Len(q) : Keeps(next[q[j] - Fresh + 1])
        /\ \A h \in 1 .. m - 1 : Keeps(next[h]) => \E j \in 1 .. Len(q) : q[j] = Fresh + h - 1
        /\ Len(q) \in Nat /\ \A h \in 1 .. m : h \in 1 .. m - 1 \/ h = m
    <3>1. Places(m - 1) \subseteq Places(m)
      BY <1>1, <2>4 DEF Places
    <3>2. \A h \in 1 .. m : h \in 1 .. m - 1 \/ h = m
      BY <2>4
    <3> QED BY <3>1, <3>2, <2>5, SeqMonotonic DEF q, KeptOf
  <2>8. CASE ~Keeps(next[m])
    <3>1. \A h \in 1 .. m : Keeps(next[h]) => h \in 1 .. m - 1
      BY <2>7, <2>8
    <3>2. KeptOf(next, m, q)
      BY <2>7, <3>1 DEF KeptOf
    <3> QED BY <2>2, <2>6, <2>8, <3>2
  <2>9. CASE Keeps(next[m])
    <3> DEFINE r == Append(q, Fresh + m - 1)
    <3>1. Fresh + m - 1 \in Places(m) /\ Fresh + m - 1 \notin Places(m - 1)
      BY <1>1, <2>4 DEF Places
    <3>2. /\ r \in Seq(Places(m)) /\ Len(r) = Len(q) + 1 /\ r[Len(r)] = Fresh + m - 1
          /\ \A j \in 1 .. Len(q) : r[j] = q[j] /\ r[j] # Fresh + m - 1
      BY <2>7, <3>1
    <3> HIDE DEF r
    <3>3. \A j \in 1 .. Len(r) : j = Len(r) \/ j \in 1 .. Len(q)
      BY <2>7, <3>2
    <3>4. \A j, k \in 1 .. Len(r) : r[j] = r[k] => j = k
      BY <2>7, <3>2, <3>3
    <3>5. Fresh + m - 1 - Fresh + 1 = m
      BY <1>1, <2>4
    <3>6. ASSUME NEW j \in 1 .. Len(r) PROVE Keeps(next[r[j] - Fresh + 1])
      <4>1. CASE j = Len(r)
        <5>1. r[j] - Fresh + 1 = m
          <6>1. r[j] = Fresh + m - 1
            BY <4>1, <3>2
          <6> QED BY <6>1, <1>1, <2>4
        <5> QED BY <5>1, <2>9
      <4>2. CASE j \in 1 .. Len(q)
        <5>1. r[j] = q[j]
          BY <4>2, <3>2
        <5> QED BY <4>2, <5>1, <2>7
      <4> QED BY <4>1, <4>2, <3>3
    <3>7. \A j, k \in 1 .. Len(r) : j < k => r[j] < r[k]
      <4>1. \A j \in 1 .. Len(q) : q[j] \in Places(m - 1)
        BY <2>7
      <4>2. \A y \in Places(m - 1) : y < Fresh + m - 1
        BY <1>1, <2>4 DEF Places
      <4>3. \A j, k \in 1 .. Len(r) : j < k => j \in 1 .. Len(q)
        BY <2>7, <3>2
      <4> QED BY <2>7, <3>2, <3>3, <4>1, <4>2, <4>3
    <3>8. \A h \in 1 .. m : Keeps(next[h]) => \E j \in 1 .. Len(r) : r[j] = Fresh + h - 1
      <4>1. Len(r) \in 1 .. Len(r) /\ \A j \in 1 .. Len(q) : j \in 1 .. Len(r)
        BY <2>7, <3>2
      <4> QED BY <2>7, <3>2, <4>1
    <3>9. KeptOf(next, m, r)
      BY <3>2, <3>4, <3>6, <3>7, <3>8 DEF KeptOf
    <3>10. f[m] = r
      BY <2>6, <2>9 DEF r
    <3> QED BY <2>2, <3>9, <3>10
  <2> QED BY <2>8, <2>9
<1>10. CASE Bad = {}
  <2>1. n \in 0 .. n
    <3> HIDE DEF Bad
    <3> QED BY <1>1
  <2>2. KeptOf(next, n, f[n])
    BY <2>1, <1>10, Zenon
  <2> HIDE DEF Bad
  <2> QED BY <1>0, <1>8, <2>2
<1> QED BY <1>9, <1>10

-----------------------------------------------------------------------------
(* The steps.                                                                *)

LEMMA TaskFacts ==
  ASSUME task \in Tasks
  PROVE  /\ 0 \in Controls
         /\ task.heads \subseteq Controls
         /\ task.widened \in [task.heads -> task.heads]
         /\ \A c \in Controls : /\ task.steps[c] \in Seq(StepType)
                                /\ task.error[c] # {} => c \notin task.heads
<1>1. IsTask(task)
  BY PredicateTasksAssumption
<1> QED BY <1>1 DEF IsTask, Controls, StepType

LEMMA NodesStay ==
  ASSUME NEW nodes, NEW L, NodesOK(nodes, L), UNCHANGED <<task, precision>>, node' = nodes
  PROVE  NodesOK(node, L)'
<1>1. (node \in Seq(NodeType) /\ node # <<>> /\ node[1] = Root)'
  BY DEF NodesOK, NodeType, Controls, Root
<1>2. \A x \in DOMAIN node' : Linked(node, x)'
  BY DEF NodesOK, Linked, Starts
<1>3. \A t : Chain(node, t)' <=> Chain(nodes, t)
  BY DEF Chain, Abstraction
<1>4. \A U : Traced(nodes, U, L) => Traced(node, U, L)'
  BY <1>3 DEF Traced
<1>5. \E U : Traced(node, U, L)'
  BY <1>4 DEF NodesOK
<1> QED BY <1>1, <1>2, <1>5 DEF NodesOK

LEMMA NodesFacts ==
  ASSUME NEW nodes, NEW L, NodesOK(nodes, L)
  PROVE  /\ nodes \in Seq(NodeType) /\ nodes[1] = Root
         /\ Len(nodes) \in Nat /\ Len(nodes) >= 1 /\ DOMAIN nodes = 1 .. Len(nodes)
         /\ \A x \in DOMAIN nodes : nodes[x] \in NodeType /\ Linked(nodes, x)
BY DEF NodesOK

LEMMA InitIInv == Init => IInv({1})
<1> SUFFICES ASSUME Init PROVE IInv({1})
  OBVIOUS
<1> USE DEF Init
<1>1. 0 \in Controls
  BY TaskFacts
<1>2. Root \in NodeType
  BY <1>1 DEF Root, NodeType, Identity
<1>3. node \in Seq(NodeType) /\ node # <<>> /\ node[1] = Root /\ DOMAIN node = {1}
  BY <1>2
<1>4. \A x \in DOMAIN node : Linked(node, x)
  BY <1>3 DEF Linked, Starts, Root
<1>5. Traced(node, [x \in {1} |-> <<>>], {1})
  BY <1>3 DEF Traced, Root
<1>6. NodesOK(node, {1}) /\ Living(node, {1}) /\ graph.reached \subseteq {1} /\ Lost({1})
  <2>1. NodesOK(node, {1})
    BY <1>3, <1>4, <1>5 DEF NodesOK
  <2>2. Living(node, {1})
    BY <1>3 DEF Living, Root
  <2>3. graph.reached \subseteq {1} /\ Lost({1})
    BY DEF Lost
  <2> QED BY <2>1, <2>2, <2>3
<1>7. Shape /\ Connected
  BY <1>3 DEF Shape, Connected, Root
<1>8. Pending
  BY DEF Pending
<1>9. Feasible(Root)
  <2>1. Image(Identity, Values) = Values
    BY DEF Image, Identity
  <2> QED BY <2>1, PredicateConstantsAssumption DEF Feasible, Root
<1>10. FeasibleTargets
  BY <1>3, <1>9 DEF FeasibleTargets
<1> QED BY <1>6, <1>7, <1>8, <1>10 DEF IInv

LEMMA SameGraph ==
  ASSUME NEW L, IInv(L), UNCHANGED <<task, node, graph, todo, precision>>,
         pc' \notin {"expand", "done"} => todo = <<>>
  PROVE  IInv(L)'
<1>1. NodesOK(node, L)'
  BY NodesStay DEF IInv
<1>1a. (Living(node, L) /\ graph.reached \subseteq L /\ Lost(L))'
  BY DEF IInv, Living, Lost
<1>2. Pending'
  BY DEF IInv, Pending
<1>3. (Shape /\ Connected)'
  BY DEF IInv, Shape, Connected
<1>4. FeasibleTargets'
  BY DEF IInv, FeasibleTargets, Feasible, Target
<1> QED BY <1>1, <1>1a, <1>2, <1>3, <1>4 DEF IInv

LEMMA ThrowIInv ==
  ASSUME NEW L, IInv(L), NEW faults, Throw(faults), UNCHANGED precision
  PROVE  IInv(L)'
BY SameGraph DEF Throw

(* The successors of a state are in its block. *)
LEMMA SuccessorsContinue ==
  ASSUME NEW L, IInv(L), NEW e \in DOMAIN node
  PROVE  /\ Successors(e) \in Seq(NodeType)
         /\ Len(Successors(e)) = Len(task.steps[node[e].control])
         /\ \A i \in DOMAIN Successors(e) :
              Continues(node, Successors(e)[i]) /\ Successors(e)[i].preds = {e}
<1> DEFINE steps == task.steps[node[e].control]
           n     == Len(steps)
           next  == Successors(e)
<1>1. /\ Len(node) \in Nat /\ DOMAIN node = 1 .. Len(node)
      /\ node[e] \in NodeType /\ Linked(node, e)
  BY NodesFacts DEF IInv
<1>2. steps \in Seq(StepType) /\ n \in Nat
  BY <1>1, TaskFacts DEF IInv, NodeType
<1>3. next = [i \in 1 .. n |-> SuccessorOf(e, steps[i], Fresh + i - 1)]
  BY DEF Successors
<1> HIDE DEF next
<1>4. ASSUME NEW step \in StepType, NEW id \in Nat
      PROVE  Continues(node, SuccessorOf(e, step, id)) /\ SuccessorOf(e, step, id).preds = {e}
  <2> DEFINE s == SuccessorOf(e, step, id)
  <2>1. /\ s.preds = {e} /\ s.block = node[e].block /\ s.entering = node[e].entering
        /\ s.widened = FALSE
    BY DEF SuccessorOf
  <2>2. s \in NodeType
    <3>1. \A r, c : Compose(r, c) \in SUBSET (Values \X Values)
      BY DEF Compose
    <3>2. e \in Nat
      BY <1>1
    <3>3. s = [control |-> step.to, part |-> step.to, preds |-> {e}, mergeOf |-> {id},
               block |-> node[e].block, entering |-> node[e].entering, widened |-> FALSE,
               formula |-> Compose(IF node[e].widened THEN Identity ELSE node[e].formula, step.change)]
      BY DEF SuccessorOf
    <3> HIDE DEF s
    <3> QED BY <1>1, <1>4, <3>1, <3>2, <3>3 DEF NodeType, StepType
  <2> HIDE DEF s
  <2>3. Continues(node, s)
    BY <1>1, <2>1, <2>2 DEF Continues, Linked
  <2> QED BY <2>1, <2>3 DEF s
<1>5. \A i \in 1 .. n : steps[i] \in StepType /\ Fresh + i - 1 \in Nat
  BY <1>1, <1>2 DEF Fresh
<1>6. \A i \in 1 .. n : Continues(node, next[i]) /\ next[i].preds = {e}
  BY <1>3, <1>4, <1>5
<1>7. next \in Seq(NodeType) /\ DOMAIN next = 1 .. n /\ Len(next) = n
  <2>1. \A i \in 1 .. n : next[i] \in NodeType
    BY <1>6 DEF Continues
  <2>2. next \in [1 .. n -> NodeType]
    BY <1>3, <2>1
  <2> HIDE DEF n
  <2> QED BY <1>2, <2>2
<1> QED BY <1>6, <1>7 DEF next

(* The states of node \o next. *)
Lengthens(nodes, next, all) ==
  /\ Len(next) \in Nat /\ DOMAIN next = 1 .. Len(next)
  /\ DOMAIN all = 1 .. Len(nodes) + Len(next)
  /\ \A x \in DOMAIN nodes : all[x] = nodes[x]
  /\ \A i \in DOMAIN next : all[Len(nodes) + i] = next[i]
  /\ \A x \in DOMAIN all : x \in DOMAIN nodes \/ \E i \in DOMAIN next : x = Len(nodes) + i

LEMMA AllLengthened ==
  ASSUME NEW nodes \in Seq(NodeType), NEW next \in Seq(NodeType)
  PROVE  Lengthens(nodes, next, nodes \o next)
BY Concatenated DEF Lengthens

LEMMA ChooseIInv ==
  ASSUME NEW L, IInv(L), Choose
  PROVE  \E M : IInv(M)'
<1>1. PICK e \in DOMAIN node : Expand(e, Successors(e), Kept(Successors(e)))
  BY Zenon DEF Choose
<1> DEFINE next == Successors(e)
           kept == Kept(Successors(e))
<1>2. CASE \E faults : Throw(faults)
  <2>1. IInv(L)'
    BY <1>2, ThrowIInv DEF Choose
  <2> QED BY <2>1
<1>3. CASE ~ \E faults : Throw(faults)
  <2>1. /\ \E others : graph' = [graph EXCEPT !.frontier = others]
        /\ node' = node \o next /\ todo' = kept /\ pc' = "expand"
        /\ UNCHANGED <<task, precision>>
    BY <1>1, <1>3, Zenon DEF Expand, Choose
  <2>2. /\ NodesOK(node, L) /\ Living(node, L) /\ graph.reached \subseteq L /\ Shape /\ Connected /\ FeasibleTargets
        /\ node \in Seq(NodeType) /\ Len(node) \in Nat /\ DOMAIN node = 1 .. Len(node)
    BY NodesFacts DEF IInv
  <2>3. /\ next \in Seq(NodeType)
        /\ \A i \in DOMAIN next : Continues(node, next[i]) /\ next[i].preds = {e}
    BY SuccessorsContinue
  <2>4. ASSUME NEW M, M \cap DOMAIN node \subseteq L
        PROVE  NodesOK(node, M)'
    <3>1. NodesOK(node \o next, M)
      BY <2>2, <2>3, <2>4, GrownHolds
    <3> QED BY <2>1, <3>1, NodesStay
  <2>6. /\ kept \in Seq(Places(Len(next)))
        /\ \A j, k \in 1 .. Len(kept) : kept[j] = kept[k] => j = k
        /\ \A j \in 1 .. Len(kept) : task.error[next[kept[j] - Fresh + 1].control] # {}
                                     => Feasible(next[kept[j] - Fresh + 1])
    BY <2>2, <2>3, KeptHolds DEF KeptOf, Keeps
  <2> HIDE DEF next, kept
  <2>7. /\ Len(next) \in Nat /\ DOMAIN next = 1 .. Len(next)
        /\ DOMAIN node' = 1 .. Len(node) + Len(next)
        /\ \A x \in DOMAIN node : node'[x] = node[x]
        /\ \A i \in DOMAIN next : node'[Len(node) + i] = next[i]
        /\ \A x \in DOMAIN node' : x \in DOMAIN node \/ \E i \in DOMAIN next : x = Len(node) + i
    <3>1. node \in Seq(NodeType) /\ next \in Seq(NodeType) /\ DOMAIN node = 1 .. Len(node)
      BY <2>2, <2>3
    <3>2. Lengthens(node, next, node \o next)
      BY <3>1, AllLengthened
    <3> QED BY <2>1, <3>1, <3>2 DEF Lengthens
  <2>8. ASSUME NEW j \in 1 .. Len(kept)
        PROVE  \E i \in DOMAIN next : /\ kept[j] = Len(node) + i /\ kept[j] \in DOMAIN node' \ DOMAIN node
                                      /\ kept[j] - Fresh + 1 = i
    <3>1. kept[j] \in Places(Len(next))
      BY <2>6
    <3>2. kept[j] \in Len(node) + 1 .. Len(node) + Len(next)
      BY <2>2, <2>7, <3>1 DEF Places, Fresh
    <3>3. kept[j] - Len(node) \in DOMAIN next
      BY <2>2, <2>7, <3>2
    <3> QED BY <2>2, <2>7, <3>2, <3>3 DEF Fresh
  <2>9. /\ DOMAIN graph' = DOMAIN graph
        /\ graph'.reached = graph.reached /\ graph'.addedLast = graph.addedLast
    BY <2>1, <2>2 DEF Shape
  <2>10. (Shape /\ Connected)'
    BY <2>2, <2>7, <2>9 DEF Shape, Connected
  <2>11. todo' \in Seq(DOMAIN node')
    <3>1. Places(Len(next)) \subseteq DOMAIN node'
      BY <2>2, <2>7 DEF Places, Fresh
    <3> QED BY <2>1, <2>6, <3>1, SeqMonotonic
  <2>12. \A x \in DOMAIN node' : node'[x].preds \subseteq DOMAIN node
    <3>1. \A x \in DOMAIN node : node[x].preds \subseteq 1 .. x - 1
      BY <2>2, NodesFacts DEF Linked
    <3>2. \A x \in DOMAIN node : node[x].preds \subseteq DOMAIN node
      BY <2>2, <3>1
    <3> QED BY <2>3, <2>7, <3>2
  <2>13. \A j \in 1 .. Len(kept) : kept[j] # 1 /\ ~node'[kept[j]].widened
    <3>1. 1 \in DOMAIN node
      BY <2>2, NodesFacts
    <3> QED BY <2>3, <2>7, <2>8, <3>1 DEF Continues
  <2>14. Pending'
    BY <2>1, <2>6, <2>8, <2>11, <2>12, <2>13 DEF Pending
  <2>15. FeasibleTargets'
    <3>1. \A x \in graph'.reached : x \in DOMAIN node /\ node'[x] = node[x]
      BY <2>2, <2>7, <2>9 DEF Shape
    <3>2. \A j \in 1 .. Len(kept) : task.error[node'[kept[j]].control] # {} => Feasible(node'[kept[j]])
      <4> SUFFICES ASSUME NEW j \in 1 .. Len(kept) PROVE
                     task.error[node'[kept[j]].control] # {} => Feasible(node'[kept[j]])
        OBVIOUS
      <4>1. PICK i \in DOMAIN next : kept[j] = Len(node) + i /\ kept[j] - Fresh + 1 = i
        BY <2>8
      <4>2. node'[kept[j]] = next[kept[j] - Fresh + 1]
        BY <2>7, <4>1
      <4> QED BY <2>6, <4>2
    <3>3. ASSUME NEW x \in graph'.reached \cup {todo'[j] : j \in 1 .. Len(todo')},
                 task.error[node'[x].control] # {}
          PROVE  Feasible(node'[x])
      <4>1. CASE x \in graph'.reached
        BY <2>2, <2>9, <3>1, <3>3, <4>1 DEF FeasibleTargets, Target
      <4>2. CASE x \in {todo'[j] : j \in 1 .. Len(todo')}
        BY <2>1, <3>2, <3>3, <4>2
      <4> QED BY <4>1, <4>2
    <3> QED BY <2>1, <3>3 DEF FeasibleTargets, Target, Feasible
  <2>16. task' \in Tasks
    BY <2>1 DEF IInv
  <2> DEFINE new == IF e \in L THEN DOMAIN node' \ DOMAIN node ELSE {}
  <2>17. PICK M : M = L \cup new
    OBVIOUS
  <2>18. /\ L \subseteq M /\ M \cap DOMAIN node = L /\ L \subseteq DOMAIN node
         /\ M \subseteq DOMAIN node'
         /\ e \in L => \A x \in DOMAIN node' : x \in DOMAIN node \/ x \in M
         /\ e \notin L => M = L
    BY <2>2, <2>7, <2>17 DEF Living
  <2> HIDE DEF new
  <2>19. NodesOK(node, M)'
    BY <2>4, <2>18
  <2>20. ASSUME NEW x \in M PROVE node'[x].preds \subseteq M /\ node'[x].block \in M
    <3>1. CASE x \in L
      <4>1. node'[x] = node[x] /\ node[x].preds \subseteq L /\ node[x].block \in L
        BY <2>2, <2>7, <3>1 DEF Living
      <4> QED BY <4>1, <2>18
    <3>2. CASE x \notin L
      <4>1. x \in DOMAIN node' /\ x \notin DOMAIN node /\ e \in L
        BY <2>18, <2>20, <3>2
      <4>2. PICK i \in DOMAIN next : node'[x] = next[i]
        BY <2>7, <4>1
      <4>3. next[i].preds = {e} /\ next[i].block = node[e].block
        BY <2>3 DEF Continues
      <4>4. node[e].block \in L
        BY <2>2, <4>1 DEF Living
      <4> QED BY <2>18, <4>1, <4>2, <4>3, <4>4
    <3> QED BY <3>1, <3>2
  <2>21. Living(node, M)'
    <3>1. 1 \in M
      BY <2>2, <2>18 DEF Living
    <3> QED BY <2>18, <2>20, <3>1 DEF Living
  <2>22. (graph.reached \subseteq M)'
    BY <2>2, <2>9, <2>18
  <2>23. Lost(M)'
    <3>1. ASSUME NEW j \in 1 .. Len(kept), kept[j] \notin M
          PROVE  node'[kept[j]].preds \cap M = {}
      <4>1. PICK i \in DOMAIN next : kept[j] = Len(node) + i /\ kept[j] \in DOMAIN node' \ DOMAIN node
        BY <2>8
      <4>2. node'[kept[j]].preds = {e}
        BY <2>3, <2>7, <4>1
      <4>3. e \notin L
        BY <2>18, <3>1, <4>1
      <4> QED BY <2>18, <4>2, <4>3
    <3> QED BY <2>1, <3>1 DEF Lost
  <2>24. IInv(M)'
    BY <2>10, <2>14, <2>15, <2>16, <2>19, <2>21, <2>22, <2>23 DEF IInv
  <2> QED BY <2>24
<1> QED BY <1>2, <1>3

(* MERGE and STOP for the next successor, when the new states and the new     *)
(* graph are right.                                                          *)
LEMMA SettleIInv ==
  ASSUME NEW L, IInv(L), pc = "expand", todo # <<>>, UNCHANGED precision,
         NEW nodes, NEW g, NEW covered, Settle(nodes, g, covered),
         Faults(nodes, g, Head(todo), covered) = {},
         NEW M, NodesOK(nodes, M), Living(nodes, M), g.reached \subseteq M,
         Head(todo) \in M \/ covered,
         DOMAIN node \subseteq DOMAIN nodes,
         DOMAIN g = {"reached", "addedLast", "frontier"},
         g.reached \subseteq DOMAIN nodes, g.addedLast \subseteq g.reached,
         \A x \in g.reached : nodes[x].preds \subseteq g.reached,
         \A j \in 2 .. Len(todo) : /\ nodes[todo[j]] = node[todo[j]]
                                   /\ todo[j] \in M \/ nodes[todo[j]].preds \cap M = {}
                                   /\ \A x \in DOMAIN nodes : todo[j] \notin nodes[x].preds,
         \A x \in g.reached \cup {Head(todo)} :
           task.error[nodes[x].control] # {} => Feasible(nodes[x])
  PROVE  IInv(M)'
<1> DEFINE s      == Head(todo)
           faults == Faults(nodes, g, s, covered)
<1>2. faults = {}
  OBVIOUS
<1>3. QED
  <2>1. /\ node' = nodes /\ UNCHANGED <<task, precision>>
        /\ \/ graph' = g /\ pc' = pc /\ todo' = Tail(todo)
           \/ /\ ~covered
              /\ graph' = ReachedAdd(Waiting(nodes, g, s), s)
              /\ \/ pc' = "check" /\ todo' = <<>>
                 \/ pc' = pc /\ todo' = Tail(todo)
    BY <1>2, Zenon DEF Settle
  <2>2. /\ todo \in Seq(DOMAIN node) /\ Len(todo) \in Nat /\ Len(todo) >= 1
        /\ s = todo[1] /\ s \in DOMAIN node
    BY DEF IInv, Pending
  <2>3. /\ Tail(todo) \in Seq(DOMAIN node) /\ Len(Tail(todo)) = Len(todo) - 1
        /\ \A j \in 1 .. Len(Tail(todo)) : Tail(todo)[j] = todo[j + 1]
    BY <2>2
  <2>4. NodesOK(node, M)' /\ Living(node, M)'
    BY <2>1, NodesStay DEF Living
  <2>5. ~covered => nodes[s].preds \subseteq g.reached
    BY <1>2 DEF Faults, Orphan
  <2> HIDE DEF s, faults
  <2>6. /\ DOMAIN graph' = {"reached", "addedLast", "frontier"}
        /\ \/ graph'.reached = g.reached /\ graph'.addedLast = g.addedLast
           \/ ~covered /\ graph'.reached = g.reached \cup {s} /\ graph'.addedLast = {s}
    BY <2>1 DEF ReachedAdd, Waiting
  <2>7. (Shape /\ Connected)'
    BY <1>2, <2>1, <2>2, <2>5, <2>6 DEF Shape, Connected, faults, s
  <2>8. \/ todo' = <<>> /\ pc' = "check"
        \/ todo' = Tail(todo) /\ pc' = "expand"
    BY <2>1
  <2>9. Pending'
    <3>1. CASE todo' = <<>>
      <4>1. <<>> \in Seq(DOMAIN node') /\ Len(<<>>) = 0
        OBVIOUS
      <4> QED BY <3>1, <4>1 DEF Pending
    <3>2. CASE todo' = Tail(todo) /\ pc' = "expand"
      <4>1. todo' \in Seq(DOMAIN node')
        BY <2>1, <2>3, <3>2, SeqMonotonic
      <4>2. \A j \in 1 .. Len(Tail(todo)) : j + 1 \in 2 .. Len(todo) /\ j + 1 \in 1 .. Len(todo)
        BY <2>2, <2>3
      <4>3. \A j \in 1 .. Len(Tail(todo)) :
              /\ Tail(todo)[j] # 1 /\ ~nodes[Tail(todo)[j]].widened
              /\ \A x \in DOMAIN nodes : Tail(todo)[j] \notin nodes[x].preds
        BY <2>3, <4>2 DEF IInv, Pending
      <4>4. \A j, k \in 1 .. Len(Tail(todo)) : Tail(todo)[j] = Tail(todo)[k] => j = k
        <5> SUFFICES ASSUME NEW j \in 1 .. Len(Tail(todo)), NEW k \in 1 .. Len(Tail(todo)),
                            Tail(todo)[j] = Tail(todo)[k]
                     PROVE  j = k
          OBVIOUS
        <5>1. todo[j + 1] = todo[k + 1]
          BY <2>3
        <5>2. j + 1 = k + 1
          BY <4>2, <5>1 DEF IInv, Pending
        <5> QED BY <5>2
      <4> QED BY <2>1, <3>2, <4>1, <4>3, <4>4 DEF Pending
    <3> QED BY <2>8, <3>1, <3>2
  <2>10. FeasibleTargets'
    <3>1. ASSUME NEW x \in graph'.reached \cup {todo'[j] : j \in 1 .. Len(todo')},
                 task.error[nodes[x].control] # {}
          PROVE  Feasible(nodes[x])
      <4>1. CASE x \in graph'.reached
        BY <2>6, <3>1, <4>1 DEF s
      <4>2. CASE x \in {todo'[j] : j \in 1 .. Len(todo')}
        <5>1. PICK j \in 1 .. Len(Tail(todo)) : x = Tail(todo)[j]
          BY <2>8, <4>2
        <5>2. j + 1 \in 2 .. Len(todo) /\ j + 1 \in 1 .. Len(todo) /\ x = todo[j + 1]
          BY <2>2, <2>3, <5>1
        <5>3. nodes[x] = node[x] /\ x \in {todo[k] : k \in 1 .. Len(todo)}
          BY <5>2
        <5> QED BY <3>1, <5>3 DEF IInv, FeasibleTargets, Target
      <4> QED BY <4>1, <4>2
    <3> QED BY <2>1, <3>1 DEF FeasibleTargets, Target, Feasible
  <2>11. (graph.reached \subseteq M)'
    BY <2>6 DEF s
  <2>12. Lost(M)'
    <3>1. CASE todo' = <<>>
      <4>1. Len(<<>>) = 0
        OBVIOUS
      <4> QED BY <3>1, <4>1 DEF Lost
    <3>2. CASE todo' = Tail(todo)
      <4>1. \A j \in 1 .. Len(Tail(todo)) : j + 1 \in 2 .. Len(todo)
        BY <2>2, <2>3
      <4> QED BY <2>1, <2>3, <3>2, <4>1 DEF Lost
    <3> QED BY <2>8, <3>1, <3>2
  <2> QED BY <2>1, <2>4, <2>7, <2>9, <2>10, <2>11, <2>12 DEF IInv

(* A merge of states in one block. *)
LEMMA MergedContinues ==
  ASSUME NEW L, IInv(L), NEW nodes, NodesOK(nodes, L), DOMAIN nodes = DOMAIN node, NEW s \in DOMAIN node,
         nodes[s].preds # {}, NEW partners, partners = MergePartners(nodes, s), partners # {}
  PROVE  LET m == MergedState(nodes, s, partners)
         IN /\ Continues(nodes, m)
            /\ \A p \in m.preds : \E x \in DOMAIN nodes : p \in nodes[x].preds
            /\ m.control = nodes[s].control /\ m.entering = nodes[s].entering
            /\ nodes[s].formula \subseteq m.formula
            /\ nodes[s].preds \subseteq m.preds /\ m.block = nodes[s].block
<1> DEFINE m     == MergedState(nodes, s, partners)
           parts == partners \cup {s}
<1>1. /\ DOMAIN nodes = 1 .. Len(nodes) /\ Len(nodes) \in Nat
      /\ \A x \in DOMAIN nodes : nodes[x] \in NodeType /\ Linked(nodes, x)
  BY NodesFacts
<1>2. /\ nodes[s].control \notin task.heads
      /\ \A r \in parts : /\ r \in DOMAIN nodes /\ nodes[r].control = nodes[s].control
                          /\ nodes[r].block = nodes[s].block
  BY DEF MergePartners, IInv, Shape
<1>3. \A r \in parts : ~nodes[r].widened
  BY <1>1, <1>2 DEF Linked
<1>4. \A r \in parts : \A p \in nodes[r].preds : p \in DOMAIN nodes /\ nodes[p].block = nodes[s].block
  <2> SUFFICES ASSUME NEW r \in parts, NEW p \in nodes[r].preds
               PROVE  p \in DOMAIN nodes /\ nodes[p].block = nodes[s].block
    OBVIOUS
  <2>1. Linked(nodes, r) /\ r \in DOMAIN nodes
    BY <1>1, <1>2
  <2>2. p \in 1 .. r - 1
    BY <2>1 DEF Linked
  <2>3. p \in DOMAIN nodes
    BY <1>1, <2>1, <2>2
  <2> QED BY <1>2, <1>3, <2>1, <2>3 DEF Linked
<1> HIDE DEF parts
<1>5. m = [nodes[s] EXCEPT !.preds   = UNION {nodes[r].preds : r \in parts},
                           !.mergeOf = {Fresh} \cup UNION {nodes[r].mergeOf : r \in parts},
                           !.formula = UNION {nodes[r].formula : r \in parts}]
  BY DEF MergedState, parts
<1>6. Fresh \in Nat
  BY NodesFacts DEF IInv, Fresh
<1>7. \A r \in parts : nodes[r] \in NodeType
  BY <1>1, <1>2
<1>8. /\ nodes[s] \in NodeType /\ s \in parts /\ Linked(nodes, s)
  BY <1>1 DEF parts
<1>9. /\ m \in NodeType
      /\ m.preds = UNION {nodes[r].preds : r \in parts} /\ m.control = nodes[s].control
      /\ m.block = nodes[s].block /\ m.entering = nodes[s].entering /\ m.widened = nodes[s].widened
      /\ m.formula = UNION {nodes[r].formula : r \in parts}
  <2> DEFINE P == UNION {nodes[r].preds : r \in parts}
             O == {Fresh} \cup UNION {nodes[r].mergeOf : r \in parts}
             F == UNION {nodes[r].formula : r \in parts}
  <2>1. \A r \in parts : /\ nodes[r].preds \in SUBSET Nat /\ nodes[r].mergeOf \in SUBSET Nat
                         /\ nodes[r].formula \in SUBSET (Values \X Values)
    BY <1>7 DEF NodeType
  <2>2. P \in SUBSET Nat
    BY <2>1
  <2>3. O \in SUBSET Nat
    BY <2>1, <1>6
  <2>4. F \in SUBSET (Values \X Values)
    BY <2>1
  <2>5. m = [nodes[s] EXCEPT !.preds = P, !.mergeOf = O, !.formula = F]
    BY <1>5
  <2> HIDE DEF P, O, F, m
  <2>6. m \in NodeType
    BY <2>2, <2>3, <2>4, <2>5, <1>8 DEF NodeType
  <2>7. /\ m.preds = P /\ m.control = nodes[s].control
        /\ m.block = nodes[s].block /\ m.entering = nodes[s].entering /\ m.widened = nodes[s].widened
        /\ m.formula = F
    BY <2>5, <1>8 DEF NodeType
  <2> QED BY <2>6, <2>7 DEF P, F
<1> HIDE DEF m
<1>10. m.preds # {} /\ m.preds \subseteq DOMAIN nodes /\ \A p \in m.preds : nodes[p].block = m.block
  BY <1>4, <1>8, <1>9
<1>11. Continues(nodes, m)
  BY <1>3, <1>8, <1>9, <1>10 DEF Continues, Linked
<1>12. \A p \in m.preds : \E x \in DOMAIN nodes : p \in nodes[x].preds
  BY <1>2, <1>9
<1>13. nodes[s].preds \subseteq m.preds
  BY <1>8, <1>9
<1> QED BY <1>8, <1>9, <1>11, <1>12, <1>13 DEF m

LEMMA ProcessIInv ==
  ASSUME NEW L, IInv(L), Process
  PROVE  \E M : IInv(M)'
<1> DEFINE s        == Head(todo)
           nodes    == Widening(s)
           partners == MergePartners(nodes, s)
<1>1. /\ pc = "expand" /\ todo # <<>> /\ UNCHANGED precision
      /\ IF partners = {} THEN MergeStop(nodes, graph)
         ELSE LET merged == Append(nodes, MergedState(nodes, s, partners))
              IN MergeStop(merged, MergedGraph(merged, partners))
  BY DEF Process
<1>2. /\ todo \in Seq(DOMAIN node) /\ Len(todo) \in Nat /\ s = todo[1] /\ 1 \in 1 .. Len(todo)
      /\ s \in DOMAIN node
  BY <1>1 DEF IInv, Pending
<1>3. /\ s # 1 /\ ~node[s].widened /\ \A x \in DOMAIN node : s \notin node[x].preds
      /\ \A j \in 2 .. Len(todo) : todo[j] \in DOMAIN node \ {s}
  <2>1. \A j \in 2 .. Len(todo) : j \in 1 .. Len(todo) /\ j # 1
    BY <1>2
  <2> QED BY <1>2, <2>1 DEF IInv, Pending
<1> HIDE DEF s
<1>4. /\ NodesOK(nodes, L) /\ Living(nodes, L)
      /\ DOMAIN nodes = DOMAIN node
      /\ \A x \in DOMAIN node \ {s} : nodes[x] = node[x]
      /\ nodes[s].preds = node[s].preds
  BY <1>2, <1>3, WideningHolds DEF IInv
<1>5. \A j \in 2 .. Len(todo) : /\ nodes[todo[j]] = node[todo[j]]
                                /\ todo[j] \in L \/ nodes[todo[j]].preds \cap L = {}
                                /\ \A x \in DOMAIN nodes : todo[j] \notin nodes[x].preds
  <2>1. \A j \in 2 .. Len(todo) : j \in 1 .. Len(todo)
    BY <1>2
  <2>2. \A x \in DOMAIN nodes : nodes[x].preds = node[x].preds
    BY <1>4
  <2>3. \A j \in 2 .. Len(todo) : todo[j] \in L \/ node[todo[j]].preds \cap L = {}
    BY <2>1 DEF IInv, Lost
  <2> QED BY <1>3, <1>4, <2>1, <2>2, <2>3 DEF IInv, Pending
<1>6. \A x \in graph.reached \cup {s} : task.error[nodes[x].control] # {} => Feasible(nodes[x])
  <2> SUFFICES ASSUME NEW x \in graph.reached \cup {s}, task.error[nodes[x].control] # {}
               PROVE  Feasible(nodes[x])
    OBVIOUS
  <2>1. x \in DOMAIN node /\ x \in graph.reached \cup {todo[j] : j \in 1 .. Len(todo)}
    BY <1>2 DEF IInv, Shape
  <2>2. nodes[x] = node[x]
    <3>1. nodes[x].control \in Controls
      BY <2>1, <1>4, NodesFacts DEF NodeType
    <3>2. nodes[x].control \notin task.heads
      BY <2>1, <3>1, TaskFacts DEF IInv
    <3>3. x = s => nodes = node
      <4>1. CASE node[s].control \in task.heads
        <5>1. nodes[s] = Widened(node[s], s)
          BY <4>1, <1>2, NodesFacts DEF Widening, IInv
        <5>2. Widened(node[s], s).control = task.widened[node[s].control]
          <6>1. node[s] \in NodeType
            BY <1>2, NodesFacts DEF IInv
          <6> QED BY <6>1 DEF Widened, NodeType
        <5>3. nodes[s].control \in task.heads
          BY <4>1, <5>1, <5>2, TaskFacts DEF IInv
        <5> QED BY <3>2, <5>3
      <4>2. CASE node[s].control \notin task.heads
        BY <4>2 DEF Widening
      <4> QED BY <4>1, <4>2
    <3> QED BY <2>1, <3>3, <1>4
  <2> QED BY <2>1, <2>2 DEF IInv, FeasibleTargets, Target
<1>7. \A x \in graph.reached : nodes[x].preds \subseteq graph.reached
  BY <1>4 DEF IInv, Connected, Shape
<1>8. /\ DOMAIN graph = {"reached", "addedLast", "frontier"}
      /\ graph.reached \subseteq DOMAIN nodes /\ graph.addedLast \subseteq graph.reached
  BY <1>4 DEF IInv, Shape
<1>8a. s \in L \/ ~(nodes[s].preds \subseteq L)
  <2>1. Linked(node, s) /\ (s \in L \/ node[s].preds \cap L = {})
    BY <1>2, NodesFacts DEF IInv, Lost
  <2>2. node[s].preds # {}
    BY <1>3, <2>1 DEF Linked
  <2> QED BY <1>4, <2>1, <2>2
<1>8b. graph.reached \subseteq L
  BY DEF IInv
<1>8c. ASSUME NEW faults, Throw(faults) PROVE \E M : IInv(M)'
  <2>1. IInv(L)'
    BY <1>1, <1>8c, ThrowIInv
  <2> QED BY <2>1
<1> HIDE DEF nodes
<1>9. CASE partners = {}
  <2> DEFINE covered == StopsAt(nodes, graph, s)
  <2>1. Settle(nodes, graph, covered)
    BY <1>1, <1>9 DEF MergeStop, s
  <2> HIDE DEF covered
  <2>2. CASE Faults(nodes, graph, s, covered) # {}
    <3>1. Throw(Faults(nodes, graph, s, covered))
      BY <2>1, <2>2, Zenon DEF Settle, s
    <3> QED BY <3>1, <1>8c
  <2>3. CASE Faults(nodes, graph, s, covered) = {}
    <3>1. s \in L \/ covered
      BY <1>8a, <1>8b, <2>3 DEF Faults, Orphan
    <3>2. IInv(L)'
      BY <2>1, <2>3, <3>1, <1>1, <1>4, <1>5, <1>6, <1>7, <1>8, <1>8b, SettleIInv DEF s
    <3> QED BY <3>2
  <2> QED BY <2>2, <2>3
<1>10. CASE partners # {}
  <2> DEFINE m      == MergedState(nodes, s, partners)
             merged == Append(nodes, m)
             g      == MergedGraph(merged, partners)
             covered == StopsAt(merged, g, s)
  <2>1. Settle(merged, g, covered)
    BY <1>1, <1>10 DEF MergeStop, s
  <2> HIDE DEF covered
  <2>2. nodes[s].preds # {} /\ partners \subseteq graph.reached
    <3>1. Linked(nodes, s)
      BY <1>2, <1>4, NodesFacts
    <3> QED BY <3>1, <1>3 DEF Linked, MergePartners
  <2>3. /\ Continues(nodes, m)
        /\ \A p \in m.preds : \E x \in DOMAIN nodes : p \in nodes[x].preds
        /\ m.control = nodes[s].control /\ m.entering = nodes[s].entering
        /\ nodes[s].formula \subseteq m.formula
        /\ nodes[s].preds \subseteq m.preds /\ m.block = nodes[s].block
    BY <1>2, <1>4, <1>10, <2>2, MergedContinues
  <2> HIDE DEF m
  <2>4. /\ nodes \in Seq(NodeType) /\ Len(nodes) \in Nat /\ DOMAIN nodes = 1 .. Len(nodes)
        /\ m \in NodeType
    BY <1>4, <2>3, NodesFacts DEF Continues
  <2>5. /\ merged = nodes \o <<m>>
        /\ Len(merged) = Len(nodes) + 1
        /\ DOMAIN merged = 1 .. Len(nodes) + 1
        /\ \A x \in DOMAIN nodes : merged[x] = nodes[x]
        /\ merged[Fresh] = m /\ Fresh = Len(nodes) + 1
    <3>1. Len(nodes) = Len(node)
      <4>1. Len(node) \in Nat /\ Len(node) >= 1 /\ DOMAIN node = 1 .. Len(node)
        BY NodesFacts DEF IInv
      <4>2. Len(nodes) \in Nat /\ Len(nodes) >= 1
        BY <1>4, NodesFacts
      <4>3. Len(nodes) \in 1 .. Len(node) /\ Len(node) \in 1 .. Len(nodes)
        <5>1. Len(nodes) \in 1 .. Len(nodes) /\ Len(node) \in 1 .. Len(node)
          BY <4>1, <4>2
        <5>2. 1 .. Len(nodes) = 1 .. Len(node)
          BY <1>4, <2>4, <4>1
        <5> QED BY <5>1, <5>2
      <4> QED BY <4>1, <4>2, <4>3
    <3> QED BY <2>4, <3>1 DEF Fresh
  <2> HIDE DEF merged
  <2>5a. PICK M : M = L \cup {Fresh}
    OBVIOUS
  <2>6. NodesOK(merged, M)
    <3>1. <<m>> \in Seq(NodeType) /\ DOMAIN <<m>> = {1} /\ <<m>>[1] = m
      BY <2>4
    <3>2. M \cap DOMAIN nodes \subseteq L
      BY <2>4, <2>5, <2>5a
    <3>3. \A i \in DOMAIN <<m>> : Continues(nodes, <<m>>[i])
      BY <2>3, <3>1
    <3>4. NodesOK(nodes \o <<m>>, M)
      BY <1>4, <3>1, <3>2, <3>3, GrownHolds
    <3> QED BY <2>5, <3>4
  <2>7. Ordered(merged, [reached |-> graph.reached \cup {Fresh}])
    <3>1. \A x \in DOMAIN merged : merged[x].preds \subseteq 1 .. x - 1
      BY <2>6, NodesFacts DEF Linked
    <3>2. graph.reached \cup {Fresh} \subseteq DOMAIN merged
      BY <1>8, <2>4, <2>5
    <3> QED BY <2>4, <2>5, <3>1, <3>2 DEF Ordered
  <2>8. /\ DOMAIN g = {"reached", "addedLast", "frontier"}
        /\ g.reached \subseteq (graph.reached \cup {Fresh}) \ partners
        /\ g.addedLast \subseteq g.reached
        /\ \A z \in g.reached :
             merged[z].preds \cap ((graph.reached \cup {Fresh}) \ g.reached) = {}
    BY <1>8, <2>2, <2>7, MergedGraphHolds
  <2> HIDE DEF g
  <2>9. DOMAIN node \subseteq DOMAIN merged /\ g.reached \subseteq DOMAIN merged
    BY <1>4, <1>8, <2>4, <2>5, <2>8
  <2>9a. CASE Faults(merged, g, s, covered) # {}
    <3>1. Throw(Faults(merged, g, s, covered))
      BY <2>1, <2>9a, Zenon DEF Settle, s
    <3> QED BY <3>1, <1>8c
  <2>9b. CASE Faults(merged, g, s, covered) = {}
    <3>0. m.preds \subseteq graph.reached
      <4>1. Fresh \in DOMAIN merged \ DOMAIN node
        BY <1>4, <2>4, <2>5
      <4> QED BY <2>5, <2>9b, <4>1 DEF Faults, Orphan
    <3>1. s \in L
      BY <1>8a, <1>8b, <2>3, <3>0
    <3>2. Living(merged, M)
      <4>1. \A x \in L : merged[x].preds \subseteq L /\ merged[x].block \in L /\ x \in DOMAIN merged
        BY <1>4, <2>4, <2>5 DEF Living
      <4>2. merged[Fresh].preds \subseteq L /\ merged[Fresh].block \in L
        BY <1>4, <1>8b, <2>3, <2>5, <3>0, <3>1 DEF Living
      <4>3. 1 \in L /\ Fresh \in DOMAIN merged
        BY <1>4, <2>4, <2>5 DEF Living
      <4> QED BY <2>5a, <4>1, <4>2, <4>3 DEF Living
    <3>3. g.reached \subseteq M /\ s \in M /\ NodesOK(merged, M)
      BY <1>8b, <2>6, <2>8, <3>1, <2>5a
    <3>10. ASSUME NEW x \in g.reached
           PROVE  merged[x].preds \subseteq g.reached
      <4>1. x \in graph.reached \/ x = Fresh
        BY <2>8
      <4>4. merged[x].preds \subseteq graph.reached
        BY <1>7, <1>8, <2>5, <4>1, <3>0
      <4> QED BY <2>8, <4>4
    <3>11. \A j \in 2 .. Len(todo) : /\ merged[todo[j]] = node[todo[j]]
                                     /\ todo[j] \in M \/ merged[todo[j]].preds \cap M = {}
                                     /\ \A x \in DOMAIN merged : todo[j] \notin merged[x].preds
      <4>1. \A j \in 2 .. Len(todo) : todo[j] \in DOMAIN nodes /\ todo[j] \notin m.preds
        BY <1>3, <1>4, <1>5, <2>3
      <4>2. \A x \in DOMAIN merged : x \in DOMAIN nodes \/ x = Fresh
        BY <2>4, <2>5
      <4>3. \A j \in 2 .. Len(todo) : Fresh \notin nodes[todo[j]].preds
        <5>1. \A x \in DOMAIN nodes : nodes[x].preds \subseteq 1 .. x - 1
          BY <1>4, NodesFacts DEF Linked
        <5>2. \A x \in DOMAIN nodes : Fresh \notin 1 .. x - 1
          BY <2>4, <2>5
        <5> QED BY <4>1, <5>1, <5>2
      <4>4. \A j \in 2 .. Len(todo) : todo[j] \in M \/ merged[todo[j]].preds \cap M = {}
        BY <1>5, <2>5, <2>5a, <4>1, <4>3
      <4> QED BY <1>5, <2>5, <4>1, <4>2, <4>4
    <3>12. \A x \in g.reached \cup {s} : task.error[merged[x].control] # {} => Feasible(merged[x])
      <4>1. s \in DOMAIN nodes /\ merged[s] = nodes[s]
        BY <1>2, <1>4, <2>5
      <4>2. task.error[m.control] # {} => Feasible(m)
        BY <1>6, <2>3 DEF Feasible, Image
      <4>3. \A x \in graph.reached : merged[x] = nodes[x]
        BY <1>8, <2>5
      <4> QED BY <1>6, <2>5, <2>8, <4>1, <4>2, <4>3
    <3>13. IInv(M)'
      BY <1>1, <2>1, <2>8, <2>9, <2>9b, <3>2, <3>3, <3>10, <3>11, <3>12, SettleIInv DEF s
    <3> QED BY <3>13
  <2> QED BY <2>9a, <2>9b
<1> QED BY <1>9, <1>10

(* How many states are kept at a refinement. *)
LEMMA SomeKept ==
  ASSUME NEW n \in Nat, NEW S \in SUBSET (1 .. n), 1 \in S
  PROVE  Max(S) \in 1 .. n /\ \A y \in S : y <= Max(S)
<1> DEFINE Above == {k \in 1 .. n : \A y \in S : y <= k}
<1>1. Above \in SUBSET Nat /\ n \in Above
  OBVIOUS
<1>2. PICK m \in Above : \A k \in Above : m <= k
  <2> HIDE DEF Above
  <2> QED BY <1>1, LeastElement
<1>3. m \in 1 .. n /\ \A y \in S : y <= m
  OBVIOUS
<1>4. ASSUME m \notin S PROVE FALSE
  <2>1. \A y \in S : y \in 1 .. n /\ y <= m /\ y # m
    BY <1>3, <1>4
  <2>2. \A y \in S : y <= m - 1
    BY <1>3, <2>1
  <2>3. m - 1 \in 1 .. n
    BY <1>3, <2>2
  <2>4. m - 1 \in Above
    BY <2>2, <2>3
  <2>5. m <= m - 1
    BY <1>2, <2>4
  <2> QED BY <1>3, <2>5
<1>5. m \in S /\ \A y \in S : m >= y
  BY <1>3, <1>4
<1>6. Max(S) \in S /\ \A y \in S : Max(S) >= y
  BY <1>5, Zenon DEF Max
<1> QED BY <1>6

(* The first states, of which none but the root is in use any more. *)
LEMMA PrefixHolds ==
  ASSUME task \in Tasks, NEW L, NodesOK(node, L), NEW k \in 1 .. Len(node),
         task' = task, node' = SubSeq(node, 1, k)
  PROVE  /\ NodesOK(node, {1})' /\ Living(node, {1})'
         /\ DOMAIN node' = 1 .. k /\ node'[1] = Root
<1>1. /\ node \in Seq(NodeType) /\ Len(node) \in Nat /\ Len(node) >= 1 /\ DOMAIN node = 1 .. Len(node)
      /\ node[1] = Root /\ \A x \in DOMAIN node : node[x] \in NodeType /\ Linked(node, x)
  BY NodesFacts
<1> DEFINE q == SubSeq(node, 1, k)
<1>2. q \in Seq(NodeType) /\ Len(q) = k /\ \A i \in 1 .. k : q[i] = node[i]
  <2>1. 1 \in Int /\ k \in Int /\ \A i \in 1 .. k : node[i] \in NodeType
    BY <1>1
  <2>2. /\ q \in Seq(NodeType)
        /\ Len(q) = IF 1 <= k THEN k - 1 + 1 ELSE 0
        /\ \A i \in 1 .. k - 1 + 1 : q[i] = node[1 + i - 1]
    BY <2>1, SubSeqProperties
  <2> HIDE DEF q
  <2>3. 1 <= k /\ k - 1 + 1 = k /\ \A i \in 1 .. k : 1 + i - 1 = i
    BY <1>1
  <2> QED BY <2>2, <2>3
<1> HIDE DEF q
<1>3. DOMAIN q = 1 .. k /\ q # <<>> /\ q[1] = Root /\ 1 .. k \subseteq DOMAIN node
  BY <1>1, <1>2
<1>4. ASSUME NEW x \in DOMAIN q PROVE Linked(q, x)
  <2>1. q[x] = node[x] /\ Linked(node, x) /\ x \in 1 .. k
    BY <1>1, <1>2, <1>3
  <2>2. node[x].block \in 1 .. k /\ node[x].preds \subseteq 1 .. k
    BY <1>1, <2>1 DEF Linked
  <2>3. q[node[x].block] = node[node[x].block] /\ \A p \in node[x].preds : q[p] = node[p]
    BY <1>2, <2>2
  <2> QED BY <1>3, <2>1, <2>2, <2>3 DEF Linked, Starts
<1>5. \E U : Traced(q, U, {1})
  <2>1. PICK U : Traced(node, U, L)
    BY DEF NodesOK
  <2>2. U[1] = <<>> /\ \A x \in DOMAIN node : U[x] \in Seq(1 .. x)
    BY <2>1 DEF Traced
  <2> DEFINE V == [x \in 1 .. k |-> U[x]]
  <2>3. \A x \in 1 .. k : V[x] = U[x] /\ V[x] \in Seq(1 .. x)
    BY <1>3, <2>2
  <2>4. \A x \in 1 .. k : V[x] \in Seq(1 .. k)
    <3>1. \A x \in 1 .. k : 1 .. x \subseteq 1 .. k
      OBVIOUS
    <3> QED BY <2>3, <3>1, SeqMonotonic
  <2>5. V \in [DOMAIN q -> Seq(DOMAIN q)] /\ V[1] = <<>>
    BY <1>1, <1>3, <2>2, <2>4
  <2> HIDE DEF V
  <2>6. ASSUME NEW x \in DOMAIN q, q[x].widened
        PROVE  /\ V[x] # <<>> /\ V[x][Len(V[x])] = x
               /\ x \in {1} => Chain(q, V[x])
               /\ \A p \in q[x].preds : V[x] = Append(V[q[p].block], x)
    <3>1. x \in DOMAIN node /\ x \in 1 .. k /\ q[x] = node[x] /\ V[x] = U[x]
      BY <1>2, <1>3, <2>3
    <3>2. /\ U[x] # <<>> /\ U[x][Len(U[x])] = x
          /\ \A p \in node[x].preds : U[x] = Append(U[node[p].block], x)
      BY <2>1, <2>6, <3>1 DEF Traced
    <3>3. x # 1
      BY <1>3, <2>6 DEF Root
    <3>4. ASSUME NEW p \in node[x].preds PROVE V[q[p].block] = U[node[p].block]
      <4>1. p \in 1 .. k /\ p \in DOMAIN q
        BY <1>1, <1>3, <3>1 DEF Linked
      <4>2. q[p] = node[p] /\ q[p].block \in 1 .. k
        BY <1>2, <1>3, <1>4, <4>1 DEF Linked
      <4> QED BY <2>3, <4>2
    <3> QED BY <3>1, <3>2, <3>3, <3>4
  <2>7. Traced(q, V, {1})
    BY <1>3, <2>3, <2>5, <2>6 DEF Traced
  <2> QED BY <2>7
<1>6. NodesOK(q, {1}) /\ Living(q, {1})
  BY <1>2, <1>3, <1>4, <1>5 DEF NodesOK, Living, Root
<1>7. node' = q /\ task' = task
  BY DEF q
<1>8. ~q[1].widened
  BY <1>3 DEF Root
<1>9. ASSUME NEW V, Traced(q, V, {1}) PROVE Traced(node, V, {1})'
  <2>1. /\ V \in [DOMAIN node' -> Seq(DOMAIN node')]
        /\ V[1] = <<>> /\ \A x \in DOMAIN node' : V[x] \in Seq(1 .. x)
    BY <1>7, <1>9 DEF Traced
  <2>2. ASSUME NEW x \in DOMAIN node', node'[x].widened
        PROVE  /\ V[x] # <<>> /\ V[x][Len(V[x])] = x
               /\ x \notin {1}
               /\ \A p \in node'[x].preds : V[x] = Append(V[node'[p].block], x)
    <3>1. x \in DOMAIN q /\ q[x].widened
      BY <1>7, <2>2
    <3>2. /\ V[x] # <<>> /\ V[x][Len(V[x])] = x
          /\ \A p \in q[x].preds : V[x] = Append(V[q[p].block], x)
      BY <1>9, <3>1 DEF Traced
    <3> QED BY <1>7, <1>8, <3>1, <3>2
  <2> QED BY <2>1, <2>2 DEF Traced
<1>10. NodesOK(node, {1})'
  <2>1. (node \in Seq(NodeType) /\ node # <<>> /\ node[1] = Root)'
    BY <1>2, <1>3, <1>7 DEF NodeType, Controls, Root
  <2>2. \A x \in DOMAIN node' : Linked(node, x)'
    <3>1. \A x \in DOMAIN q : Linked(q, x) <=> Linked(node, x)'
      BY <1>7 DEF Linked, Starts
    <3> QED BY <1>4, <1>7, <3>1
  <2> QED BY <1>5, <1>9, <2>1, <2>2 DEF NodesOK
<1> QED BY <1>3, <1>6, <1>7, <1>10 DEF Living

(* Only the root is left in the graph. *)
LEMMA RestartIInv ==
  ASSUME NEW L, IInv(L), pc = "check", NEW found, Restart(found)
  PROVE  IInv({1})'
<1> DEFINE children == {y \in graph.reached : 1 \in node[y].preds}
           w == Waiting(node, graph, 1)
           g == Removed(node, w, children)
<1>1. /\ graph' = g /\ node' = SubSeq(node, 1, Max(StillNamed(g))) /\ UNCHANGED <<task, todo>>
      /\ pc' \in {"report", "begin"}
  BY DEF Restart
<1>2. /\ node \in Seq(NodeType) /\ Len(node) \in Nat /\ Len(node) >= 1 /\ DOMAIN node = 1 .. Len(node)
      /\ node[1] = Root /\ \A x \in DOMAIN node : Linked(node, x)
      /\ Shape /\ Connected /\ Pending /\ task \in Tasks /\ NodesOK(node, L)
  BY NodesFacts DEF IInv
<1>3. /\ NodesOK(node, {1})' /\ Living(node, {1})'
      /\ 1 \in DOMAIN node' /\ node'[1] = Root
  <2>1. StillNamed(g) \in SUBSET (1 .. Len(node)) /\ 1 \in StillNamed(g)
    BY <1>2 DEF StillNamed
  <2>2. Max(StillNamed(g)) \in 1 .. Len(node)
    <3> HIDE DEF g
    <3> QED BY <1>2, <2>1, SomeKept
  <2> HIDE DEF g
  <2> QED BY <1>1, <1>2, <2>2, PrefixHolds
<1>4. DOMAIN w = {"reached", "addedLast", "frontier"} /\ w.reached = graph.reached /\ w.addedLast = graph.addedLast
  BY <1>2 DEF Waiting, Shape
<1> HIDE DEF w
<1>5. Ordered(node, w) /\ children \subseteq 1 .. Len(node)
  BY <1>2, <1>4 DEF Ordered, Shape, Linked
<1>6. /\ DOMAIN g = DOMAIN w
      /\ g.reached \subseteq w.reached \ children
      /\ \E lost : g.reached = w.reached \ lost /\ g.addedLast = w.addedLast \ lost
      /\ \A z \in g.reached : node[z].preds \cap (w.reached \ g.reached) = {}
  <2> HIDE DEF children
  <2>1. Shrinks(node, w, Removed(node, w, children), children)
    BY <1>4, <1>5, RemovedKeeps, Zenon
  <2> QED BY <2>1 DEF Shrinks
<1> HIDE DEF g
<1>7. g.reached \subseteq {1}
  <2> DEFINE Rest == {z \in g.reached : z # 1}
  <2>1. CASE Rest # {}
    <3>1. Rest \in SUBSET Nat
      BY <1>2, <1>4, <1>6 DEF Shape
    <3>2. PICK z \in Rest : \A k \in Rest : z <= k
      <4> HIDE DEF Rest
      <4> QED BY <2>1, <3>1, LeastElement
    <3>3. z \in g.reached /\ z # 1 /\ z \in graph.reached /\ z \in DOMAIN node
      BY <1>2, <1>4, <1>6 DEF Shape
    <3>4. PICK p \in node[z].preds : p \in 1 .. z - 1 /\ p \in graph.reached
      <4>1. Linked(node, z) /\ node[z].preds \subseteq graph.reached
        BY <1>2, <3>3 DEF Connected
      <4> QED BY <3>3, <4>1 DEF Linked
    <3>5. p \in g.reached
      BY <1>4, <1>6, <3>3, <3>4
    <3>6. p = 1
      BY <1>2, <3>1, <3>2, <3>3, <3>4, <3>5
    <3>7. z \in children
      BY <3>3, <3>4, <3>6
    <3> QED BY <1>6, <3>3, <3>7
  <2> QED BY <2>1
<1>11. (Shape /\ Connected /\ graph.reached \subseteq {1})'
  <2>1. graph'.addedLast \subseteq graph'.reached /\ DOMAIN graph' = {"reached", "addedLast", "frontier"}
    BY <1>1, <1>2, <1>4, <1>6 DEF Shape
  <2>2. graph'.reached \subseteq {1}
    BY <1>1, <1>7
  <2> QED BY <2>1, <2>2, <1>3 DEF Shape, Connected, Root
<1>12. (Pending /\ Lost({1}))'
  <2>1. todo' = <<>>
    BY <1>1, <1>2 DEF Pending
  <2>2. <<>> \in Seq(DOMAIN node') /\ Len(<<>>) = 0
    OBVIOUS
  <2> QED BY <2>1, <2>2 DEF Pending, Lost
<1>13. Feasible(Root)
  <2>1. Image(Identity, Values) = Values
    BY DEF Image, Identity
  <2> QED BY <2>1, PredicateConstantsAssumption DEF Feasible, Root
<1>14. FeasibleTargets'
  <2>1. todo' = <<>> /\ Len(<<>>) = 0
    BY <1>1, <1>2 DEF Pending
  <2>2. \A x \in graph'.reached : node'[x] = Root
    BY <1>3, <1>11
  <2> QED BY <1>13, <2>1, <2>2 DEF FeasibleTargets, Feasible
<1> QED BY <1>1, <1>2, <1>3, <1>11, <1>12, <1>14 DEF IInv

LEMMA RefineIInv ==
  ASSUME NEW L, IInv(L), Refine
  PROVE  \E M : IInv(M)'
<1>1. CASE \E found : Restart(found)
  <2>1. IInv({1})'
    BY <1>1, RestartIInv DEF Refine
  <2> QED BY <2>1
<1>2. CASE ~ \E found : Restart(found)
  <2>1. Throw({"no_interpolants"}) /\ UNCHANGED precision
    BY <1>2, Zenon DEF Refine
  <2>2. IInv(L)'
    BY <2>1, ThrowIInv
  <2> QED BY <2>2
<1> QED BY <1>1, <1>2

LEMMA NextIInv ==
  ASSUME NEW L, IInv(L), [Next]_allVars
  PROVE  \E M : IInv(M)'
<1>1. CASE Choose
  BY <1>1, ChooseIInv
<1>2. CASE Process
  BY <1>2, ProcessIInv
<1>3. CASE Check
  <2>1. pc' \in {"report", "begin"} /\ UNCHANGED <<task, node, graph, todo, precision>> /\ pc = "check"
    BY <1>3 DEF Check
  <2>2. IInv(L)'
    BY <2>1, SameGraph DEF IInv, Pending
  <2> QED BY <2>2
<1>4. CASE Refine
  BY <1>4, RefineIInv
<1>5. CASE (Begin \/ Expanded \/ Explored \/ Report) /\ UNCHANGED precision
  <2>1. UNCHANGED <<task, node, graph, todo, precision>> /\ todo = <<>>
    BY <1>5 DEF Begin, Expanded, Explored, Report, IInv, Pending
  <2>2. IInv(L)'
    BY <2>1, SameGraph
  <2> QED BY <2>2
<1>6. CASE UNCHANGED allVars
  <2>1. IInv(L)'
    BY <1>6, SameGraph DEF allVars, vars, IInv, Pending
  <2> QED BY <2>1
<1> QED BY <1>1, <1>2, <1>3, <1>4, <1>5, <1>6 DEF Next

LEMMA Invariance == Spec => []Consistent
<1>1. Init => Consistent
  <2> SUFFICES ASSUME Init PROVE Consistent
    OBVIOUS
  <2>1. IInv({1})
    BY InitIInv
  <2> QED BY <2>1 DEF Consistent
<1>2. Consistent /\ [Next]_allVars => Consistent'
  <2> SUFFICES ASSUME Consistent, [Next]_allVars PROVE Consistent'
    OBVIOUS
  <2>1. PICK L : IInv(L)
    BY DEF Consistent
  <2>2. PICK M : IInv(M)'
    BY <2>1, NextIInv
  <2> QED BY <2>2 DEF Consistent
<1> QED BY <1>1, <1>2, PTL DEF Spec

-----------------------------------------------------------------------------
(* Traces.                                                                   *)

LEMMA Reassociated ==
  ASSUME NEW T, NEW s \in Seq(T), NEW t \in Seq(T), NEW e \in T
  PROVE  /\ <<e>> \o t \in Seq(T)
         /\ s \o (<<e>> \o t) = Append(s, e) \o t
<1>1. <<e>> \in Seq(T)
  OBVIOUS
<1>2. (s \o <<e>>) \o t = s \o (<<e>> \o t)
  BY <1>1, ConcatAssociative
<1>3. s \o <<e>> = Append(s, e)
  OBVIOUS
<1> QED BY <1>1, <1>2, <1>3

(* Whatever predecessors are followed, the trace to x is the one that the     *)
(* start of its block determines.                                            *)
LEMMA OnlyTrace ==
  ASSUME NEW L, NodesOK(node, L), NEW U, Traced(node, U, L), NEW x \in DOMAIN node
  PROVE  Traces(x) = {U[node[x].block]}
<1> DEFINE back(w) ==
             IF node[w.at].preds = {} THEN {w}
             ELSE {[at |-> p, seen |-> IF node[w.at].widened THEN <<w.at>> \o w.seen ELSE w.seen] :
                     p \in node[w.at].preds}
           first   == {[at |-> x, seen |-> <<>>]}
           Step(f) == [i \in 0 .. x |-> IF i = 0 THEN first ELSE UNION {back(w) : w \in f[i - 1]}]
           Walk    == [at : DOMAIN node, seen : Seq(DOMAIN node)]
           G       == [q \in (0 + 1 .. x) \X SUBSET Walk |-> UNION {back(w) : w \in q[2]}]
           Right(w) == U[node[w.at].block] \o w.seen = U[node[x].block]
<1>1. /\ Len(node) \in Nat /\ DOMAIN node = 1 .. Len(node) /\ node[1] = Root
      /\ \A y \in DOMAIN node : node[y] \in NodeType /\ Linked(node, y)
      /\ x \in Nat /\ x >= 1
  BY NodesFacts
<1>2. U \in [DOMAIN node -> Seq(DOMAIN node)] /\ U[1] = <<>>
  BY DEF Traced
<1>3. Traces(x) = {w.seen : w \in (CHOOSE f : f = Step(f))[x]}
  BY DEF Traces
<1>4. ASSUME NEW w \in Walk
      PROVE  /\ back(w) \in SUBSET Walk /\ back(w) # {}
             /\ \A v \in back(w) : /\ Right(w) => Right(v)
                                   /\ v.at = 1 \/ v.at <= w.at - 1
  <2>1. /\ w.at \in DOMAIN node /\ w.seen \in Seq(DOMAIN node) /\ w.at \in Nat
        /\ Linked(node, w.at)
    BY <1>1
  <2>2. CASE node[w.at].preds = {}
    <3>1. back(w) = {w}
      BY <2>2
    <3>2. w.at = 1
      BY <2>1, <2>2 DEF Linked
    <3> QED BY <3>1, <3>2
  <2>3. CASE node[w.at].preds # {}
    <3> DEFINE next(p) == [at |-> p, seen |-> IF node[w.at].widened THEN <<w.at>> \o w.seen ELSE w.seen]
    <3>1. back(w) = {next(p) : p \in node[w.at].preds}
      BY <2>3
    <3>2. ASSUME NEW p \in node[w.at].preds
          PROVE  /\ next(p) \in Walk
                 /\ Right(w) => Right(next(p))
                 /\ next(p).at <= w.at - 1
      <4>1. p \in DOMAIN node /\ p <= w.at - 1
        BY <1>1, <2>1 DEF Linked
      <4>2. U[node[p].block] \in Seq(DOMAIN node)
        BY <1>1, <1>2, <4>1 DEF Linked
      <4>3. CASE node[w.at].widened
        <5>1. next(p) = [at |-> p, seen |-> <<w.at>> \o w.seen]
          BY <4>3
        <5>2. node[w.at].block = w.at /\ U[w.at] = Append(U[node[p].block], w.at)
          BY <2>1, <4>3 DEF Linked, Traced
        <5>3. /\ <<w.at>> \o w.seen \in Seq(DOMAIN node)
              /\ U[node[p].block] \o (<<w.at>> \o w.seen) = Append(U[node[p].block], w.at) \o w.seen
          <6>1. \A s, t \in Seq(DOMAIN node), y \in DOMAIN node :
                  <<y>> \o t \in Seq(DOMAIN node) /\ s \o (<<y>> \o t) = Append(s, y) \o t
            BY Reassociated, Zenon
          <6> QED BY <2>1, <4>2, <6>1
        <5> QED BY <4>1, <5>1, <5>2, <5>3
      <4>4. CASE ~node[w.at].widened
        <5>1. next(p) = [at |-> p, seen |-> w.seen]
          BY <4>4
        <5>2. node[p].block = node[w.at].block
          BY <2>1, <4>4 DEF Linked
        <5> QED BY <2>1, <4>1, <5>1, <5>2
      <4> QED BY <4>3, <4>4
    <3> HIDE DEF next
    <3> HIDE DEF Right, Walk, back
    <3> QED BY <2>3, <3>1, <3>2
  <2> QED BY <2>2, <2>3
<1>5. first \in SUBSET Walk /\ first # {} /\ \A w \in first : Right(w) /\ w.at = x
  <2>1. /\ U[node[x].block] \in Seq(DOMAIN node)
    BY <1>1, <1>2 DEF Linked
  <2>2. U[node[x].block] \o <<>> = U[node[x].block]
    BY <2>1, ConcatEmptySeq
  <2> QED BY <2>2
<1>6. \A w \in Walk : w.at \in Nat /\ w.at >= 1 /\ w.at \in DOMAIN node /\ w.seen \in Seq(DOMAIN node)
  BY <1>1
<1> HIDE DEF first, back, Right, Walk
<1>7. G \in [(0 + 1 .. x) \X SUBSET Walk -> SUBSET Walk]
  BY <1>4
<1>8. \A i \in 0 + 1 .. x, S \in SUBSET Walk : G[<<i, S>>] = UNION {back(w) : w \in S}
  OBVIOUS
<1> HIDE DEF G
<1>9. PICK h : Follows(G, first, 0, x, SUBSET Walk, h)
  <2>1. 0 <= x
    BY <1>1
  <2> QED BY <1>1, <1>5, <1>7, <2>1, Recursion
<1>10. h = Step(h)
  <2>1. \A i \in 0 .. x : i # 0 => i \in 0 + 1 .. x /\ i - 1 \in 0 .. x
    BY <1>1
  <2> QED BY <2>1, <1>8, <1>9 DEF Follows
<1>11. PICK f : f = Step(f) /\ Traces(x) = {w.seen : w \in f[x]}
  BY <1>3, <1>10
<1>12. \A i \in 0 .. x : f[i] = IF i = 0 THEN first ELSE UNION {back(w) : w \in f[i - 1]}
  BY <1>11
<1> DEFINE Good(i) == /\ f[i] \in SUBSET Walk /\ f[i] # {}
                      /\ \A w \in f[i] : Right(w) /\ (w.at = 1 \/ w.at <= x - i)
           Bad == {i \in 0 .. x : ~Good(i)}
<1>13. Good(x)
  <2>1. CASE Bad # {}
    <3>1. Bad \in SUBSET Nat
      BY <1>1
    <3>2. PICK m \in Bad : \A k \in Bad : m <= k
      <4> HIDE DEF Bad
      <4> QED BY <2>1, <3>1, LeastElement
    <3>3. m \in 0 .. x /\ ~Good(m)
      OBVIOUS
    <3>4. m # 0
      <4>0. 0 \in 0 .. x
        BY <1>1
      <4>1. f[0] = first
        BY <1>12, <4>0, Zenon
      <4>2. Good(0)
        BY <1>1, <1>5, <4>1
      <4> QED BY <3>3, <4>2
    <3>5. m - 1 \in 0 .. x /\ ~(m <= m - 1)
      BY <1>1, <3>3, <3>4
    <3>6. Good(m - 1)
      BY <3>2, <3>5
    <3>7. f[m] = UNION {back(w) : w \in f[m - 1]}
      BY <1>12, <3>3, <3>4
    <3>8. f[m] \in SUBSET Walk /\ f[m] # {}
      BY <1>4, <3>6, <3>7
    <3>9. ASSUME NEW v \in f[m] PROVE Right(v) /\ (v.at = 1 \/ v.at <= x - m)
      <4>1. PICK w \in f[m - 1] : v \in back(w)
        BY <3>7
      <4>2. w \in Walk /\ Right(w) /\ (w.at = 1 \/ w.at <= x - (m - 1))
        BY <3>6, <4>1
      <4>3. Right(v) /\ (v.at = 1 \/ v.at <= w.at - 1) /\ v \in Walk
        BY <1>4, <4>1, <4>2
      <4>4. w.at \in Nat /\ v.at \in Nat /\ v.at >= 1
        BY <1>6, <4>2, <4>3
      <4> QED BY <1>1, <3>3, <4>2, <4>3, <4>4
    <3> QED BY <3>3, <3>8, <3>9
  <2>2. CASE Bad = {}
    <3>1. x \in 0 .. x
      BY <1>1
    <3> QED BY <2>2, <3>1
  <2> QED BY <2>1, <2>2
<1>14. ASSUME NEW w \in f[x] PROVE w.seen = U[node[x].block]
  <2>1. w \in Walk /\ Right(w) /\ w.at = 1
    BY <1>1, <1>6, <1>13
  <2>2. U[node[w.at].block] = <<>> /\ w.seen \in Seq(DOMAIN node)
    BY <1>1, <1>2, <1>6, <2>1 DEF Root
  <2>3. <<>> \o w.seen = w.seen
    BY <2>2, ConcatEmptySeq
  <2> QED BY <2>1, <2>2, <2>3 DEF Right
<1> QED BY <1>11, <1>13, <1>14

(* "There is only one unique sequence of abstraction states" (checkIsFeasible): *)
(* whichever predecessors of merged states are followed, in every program and *)
(* in any order of exploration, the states on the way for which a widening    *)
(* was computed are the same, so that the formulas of the blocks describe all *)
(* paths to a target.                                                        *)
THEOREM OneTrace == Spec => []UniqueTrace
<1>1. Consistent => UniqueTrace
  <2> SUFFICES ASSUME NEW L, IInv(L), NEW x \in graph.reached
               PROVE  Cardinality(Traces(x)) = 1
    BY DEF UniqueTrace, Consistent
  <2>1. NodesOK(node, L) /\ x \in DOMAIN node
    BY DEF IInv, Shape
  <2>2. PICK U : Traced(node, U, L)
    BY <2>1 DEF NodesOK
  <2>3. Traces(x) = {U[node[x].block]}
    BY <2>1, <2>2, OnlyTrace
  <2> QED BY <2>3, FS_Singleton
<1> QED BY <1>1, Invariance, PTL

-----------------------------------------------------------------------------
(* Refinement.                                                               *)

Relations == SUBSET (Values \X Values)

LEMMA PassedSteps ==
  ASSUME NEW blocks \in Seq(Relations)
  PROVE  LET f == Passed(blocks)
         IN /\ f[0] = Values
            /\ \A i \in 1 .. Len(blocks) : f[i] = Image(blocks[i], f[i - 1])
<1> DEFINE n       == Len(blocks)
           Step(f) == [i \in 0 .. n |-> IF i = 0 THEN Values ELSE Image(blocks[i], f[i - 1])]
           G       == [q \in (0 + 1 .. n) \X SUBSET Values |-> Image(blocks[q[1]], q[2])]
<1>1. n \in Nat /\ 0 <= n
  OBVIOUS
<1>2. Passed(blocks) = CHOOSE f : f = Step(f)
  BY DEF Passed
<1>3. /\ G \in [(0 + 1 .. n) \X SUBSET Values -> SUBSET Values] /\ Values \in SUBSET Values
      /\ \A i \in 0 + 1 .. n, S \in SUBSET Values : G[<<i, S>>] = Image(blocks[i], S)
  BY DEF Image
<1>4. n = Len(blocks)
  OBVIOUS
<1> HIDE DEF G, n
<1>5. PICK h : Follows(G, Values, 0, n, SUBSET Values, h)
  BY <1>1, <1>3, Recursion
<1>6. h = Step(h)
  <2>1. \A i \in 0 .. n : i # 0 => i \in 0 + 1 .. n /\ i - 1 \in 0 .. n
    BY <1>1
  <2> QED BY <2>1, <1>3, <1>5 DEF Follows
<1>7. PICK f : f = Step(f) /\ Passed(blocks) = f
  BY <1>2, <1>6
<1>8. 0 \in 0 .. n /\ \A i \in 1 .. n : i \in 0 .. n /\ i # 0
  BY <1>1
<1>9. f[0] = Values /\ \A i \in 1 .. n : f[i] = Image(blocks[i], f[i - 1])
  BY <1>7, <1>8
<1> QED BY <1>4, <1>7, <1>9

(* Each interpolant holds of what the rest of the trace starts from, and of   *)
(* nothing that the trace so far leads to.                                   *)
Separates(blocks, t) ==
  /\ t \in Seq(SUBSET Values) /\ Len(t) = Len(blocks) - 1
  /\ \A j \in 1 .. Len(t) : /\ t[j] \cap Passed(blocks)[j] = {}
                            /\ Origins(blocks[j + 1], IF j = Len(t) THEN Values ELSE t[j + 1]) \subseteq t[j]

LEMMA InterpolantsSeparate ==
  ASSUME NEW blocks \in Seq(Relations), Len(blocks) > 1, NEW itp \in Interpolants(blocks)
  PROVE  Separates(blocks, itp)
<1> DEFINE n             == Len(blocks)
           passed        == Passed(blocks)
           Between(S, i) == {p \in SUBSET Values : S \subseteq p /\ p \cap passed[i] = {}}
           last          == {<<p>> : p \in Between(Origins(blocks[n], Values), n - 1)}
           before(i, T)  == UNION {{<<p>> \o t : p \in Between(Origins(blocks[i], t[1]), i - 1)} : t \in T}
           Step(f)       == [i \in 1 .. n |-> IF i = n THEN last ELSE before(i, f[i + 1])]
           Tails         == SUBSET Seq(SUBSET Values)
           G             == [q \in (1 + 1 .. n) \X Tails |-> before(n + 1 - q[1], q[2])]
<1>1. n \in Nat /\ n > 1 /\ 1 <= n
  OBVIOUS
<1>2. Interpolants(blocks) = (CHOOSE f : f = Step(f))[2]
  BY DEF Interpolants
<1>3. \A p \in SUBSET Values, t \in Seq(SUBSET Values) :
        /\ <<p>> \o t \in Seq(SUBSET Values) /\ Len(<<p>> \o t) = Len(t) + 1 /\ Len(t) \in Nat
        /\ (<<p>> \o t)[1] = p /\ \A j \in 1 .. Len(t) : (<<p>> \o t)[j + 1] = t[j]
  <2> SUFFICES ASSUME NEW p \in SUBSET Values, NEW t \in Seq(SUBSET Values)
               PROVE  /\ <<p>> \o t \in Seq(SUBSET Values) /\ Len(<<p>> \o t) = Len(t) + 1 /\ Len(t) \in Nat
                      /\ (<<p>> \o t)[1] = p /\ \A j \in 1 .. Len(t) : (<<p>> \o t)[j + 1] = t[j]
    OBVIOUS
  <2>1. <<p>> \in Seq(SUBSET Values) /\ Len(<<p>>) = 1 /\ <<p>>[1] = p
    OBVIOUS
  <2> DEFINE s == <<p>>
  <2> HIDE DEF s
  <2>2. \A j \in 1 .. Len(t) : 1 + j = j + 1
    OBVIOUS
  <2>3. /\ s \o t \in Seq(SUBSET Values) /\ Len(s \o t) = 1 + Len(t) /\ Len(t) \in Nat
        /\ DOMAIN t = 1 .. Len(t) /\ DOMAIN s = 1 .. 1
        /\ \A x \in DOMAIN s : (s \o t)[x] = s[x]
        /\ \A j \in DOMAIN t : (s \o t)[1 + j] = t[j]
    BY <2>1, Concatenated DEF s
  <2> QED BY <2>1, <2>2, <2>3 DEF s
<1>4. \A i, S : Between(S, i) \subseteq SUBSET Values
  OBVIOUS
<1>5. \A i, S : \A p \in Between(S, i) : S \subseteq p /\ p \cap passed[i] = {}
  OBVIOUS
<1>6. \A q \in last : \E p \in Between(Origins(blocks[n], Values), n - 1) : q = <<p>>
  OBVIOUS
<1>7. \A i, T : \A q \in before(i, T) :
        \E t \in T : \E p \in Between(Origins(blocks[i], t[1]), i - 1) : q = <<p>> \o t
  OBVIOUS
<1>8. n = Len(blocks) /\ passed = Passed(blocks)
  OBVIOUS
<1> HIDE DEF Between, n, passed, last, before
<1>9. last \in Tails /\ \A i : \A T \in Tails : before(i, T) \in Tails
  <2>1. \A q \in last : q \in Seq(SUBSET Values)
    <3>1. \A p \in SUBSET Values : <<p>> \in Seq(SUBSET Values)
      OBVIOUS
    <3> QED BY <1>4, <1>6, <3>1
  <2>2. \A i : \A T \in Tails : \A q \in before(i, T) : q \in Seq(SUBSET Values)
    <3> SUFFICES ASSUME NEW i, NEW T \in Tails, NEW q \in before(i, T) PROVE q \in Seq(SUBSET Values)
      OBVIOUS
    <3>1. PICK t \in T : \E p \in Between(Origins(blocks[i], t[1]), i - 1) : q = <<p>> \o t
      BY DEF before
    <3>2. PICK p \in SUBSET Values : q = <<p>> \o t
      BY <1>4, <3>1
    <3> QED BY <1>3, <3>2
  <2> QED BY <2>1, <2>2
<1> HIDE DEF Tails
<1>10. /\ G \in [(1 + 1 .. n) \X Tails -> Tails]
       /\ \A i \in 1 + 1 .. n, T \in Tails : G[<<i, T>>] = before(n + 1 - i, T)
  BY <1>9
<1> HIDE DEF G
<1>11. PICK h : Follows(G, last, 1, n, Tails, h)
  <2>1. 1 \in Nat
    OBVIOUS
  <2> QED BY <1>1, <1>9, <1>10, <2>1, Recursion
<1> DEFINE g == [i \in 1 .. n |-> h[n + 1 - i]]
<1>12. g = Step(g)
  <2> SUFFICES ASSUME NEW i \in 1 .. n PROVE g[i] = IF i = n THEN last ELSE before(i, g[i + 1])
    OBVIOUS
  <2>1. CASE i = n
    <3>1. n + 1 - i = 1
      BY <1>1, <2>1
    <3> QED BY <2>1, <3>1, <1>11 DEF Follows
  <2>2. CASE i # n
    <3>0. i \in Int /\ 1 <= i /\ i < n /\ n \in Int
      BY <1>1, <2>2
    <3> DEFINE k == n + 1 - i
    <3>1. /\ k \in 1 + 1 .. n /\ i + 1 \in 1 .. n /\ k - 1 \in 1 .. n
          /\ n + 1 - (i + 1) = k - 1 /\ n + 1 - k = i
      BY <3>0
    <3>2. g[i] = h[k] /\ g[i + 1] = h[k - 1]
      BY <3>1
    <3> HIDE DEF k, g
    <3>3. h[k] = G[<<k, h[k - 1]>>] /\ h[k - 1] \in Tails
      BY <1>11, <3>1 DEF Follows
    <3>4. G[<<k, h[k - 1]>>] = before(i, h[k - 1])
      BY <1>10, <3>1, <3>3
    <3> QED BY <2>2, <3>2, <3>3, <3>4
  <2> QED BY <2>1, <2>2
<1>13. PICK f : f = Step(f) /\ Interpolants(blocks) = f[2]
  BY <1>2, <1>12
<1>14. \A i \in 1 .. n : f[i] = IF i = n THEN last ELSE before(i, f[i + 1])
  BY <1>13
<1> DEFINE Good(i) == \A t \in f[i] :
             /\ t \in Seq(SUBSET Values) /\ Len(t) = n - i + 1
             /\ \A j \in 1 .. Len(t) :
                  /\ t[j] \cap passed[i + j - 2] = {}
                  /\ Origins(blocks[i + j - 1], IF j = Len(t) THEN Values ELSE t[j + 1]) \subseteq t[j]
           Bad == {k \in 0 .. n - 1 : ~Good(n - k)}
<1>15. Good(2)
  <2> HIDE DEF Good
  <2>1. CASE Bad # {}
    <3>1. Bad \in SUBSET Nat
      BY <1>1
    <3>2. PICK m \in Bad : \A k \in Bad : m <= k
      <4> HIDE DEF Bad
      <4> QED BY <2>1, <3>1, LeastElement
    <3>3. m \in 0 .. n - 1 /\ ~Good(n - m)
      OBVIOUS
    <3> DEFINE i == n - m
    <3>4. i \in 1 .. n /\ (m # 0 => i # n)
      BY <1>1, <3>3
    <3>5. m # 0
      <4> SUFFICES ASSUME m = 0 PROVE FALSE
        OBVIOUS
      <4>1. i = n /\ f[i] = last /\ n \in 1 .. n
        BY <1>1, <1>14, <3>4
      <4>2. ASSUME NEW t \in last
            PROVE  /\ t \in Seq(SUBSET Values) /\ Len(t) = n - n + 1
                   /\ \A j \in 1 .. Len(t) :
                        /\ t[j] \cap passed[n + j - 2] = {}
                        /\ Origins(blocks[n + j - 1], IF j = Len(t) THEN Values ELSE t[j + 1]) \subseteq t[j]
        <5>1. PICK p \in Between(Origins(blocks[n], Values), n - 1) : t = <<p>>
          BY <1>6
        <5>2. p \in SUBSET Values /\ Origins(blocks[n], Values) \subseteq p /\ p \cap passed[n - 1] = {}
          BY <1>4, <1>5
        <5>3. t \in Seq(SUBSET Values) /\ Len(t) = 1 /\ t[1] = p
          BY <5>1, <5>2
        <5>4. \A j \in 1 .. 1 : j = 1 /\ n + j - 2 = n - 1 /\ n + j - 1 = n
          BY <1>1
        <5>5. n - n + 1 = 1
          BY <1>1
        <5> QED BY <5>2, <5>3, <5>4, <5>5
      <4>3. Good(n)
        BY <4>1, <4>2 DEF Good
      <4> QED BY <3>3, <4>1, <4>3
    <3>6. i # n /\ i + 1 \in 1 .. n /\ m - 1 \in 0 .. n - 1 /\ ~(m <= m - 1) /\ n - (m - 1) = i + 1
      BY <1>1, <3>3, <3>5
    <3>7. Good(i + 1)
      <4>1. m - 1 \notin Bad
        <5> HIDE DEF Bad
        <5> QED BY <3>2, <3>6
      <4> HIDE DEF i
      <4> QED BY <3>6, <4>1
    <3>8. f[i] = before(i, f[i + 1])
      BY <1>14, <3>4, <3>6
    <3> HIDE DEF i
    <3>9. ASSUME NEW t \in f[i]
          PROVE  /\ t \in Seq(SUBSET Values) /\ Len(t) = n - i + 1
                 /\ \A j \in 1 .. Len(t) :
                      /\ t[j] \cap passed[i + j - 2] = {}
                      /\ Origins(blocks[i + j - 1], IF j = Len(t) THEN Values ELSE t[j + 1]) \subseteq t[j]
      <4>1. PICK r \in f[i + 1] :
              \E p \in Between(Origins(blocks[i], r[1]), i - 1) : t = <<p>> \o r
        <5>1. t \in before(i, f[i + 1])
          BY <3>8
        <5> QED BY <5>1 DEF before
      <4>2. PICK p \in Between(Origins(blocks[i], r[1]), i - 1) : t = <<p>> \o r
        BY <4>1
      <4>3. p \in SUBSET Values /\ Origins(blocks[i], r[1]) \subseteq p /\ p \cap passed[i - 1] = {}
        BY <1>4, <1>5
      <4>4. /\ r \in Seq(SUBSET Values) /\ Len(r) = n - (i + 1) + 1
            /\ \A j \in 1 .. Len(r) :
                 /\ r[j] \cap passed[i + 1 + j - 2] = {}
                 /\ Origins(blocks[i + 1 + j - 1], IF j = Len(r) THEN Values ELSE r[j + 1]) \subseteq r[j]
        BY <3>7 DEF Good
      <4>0. n \in Int /\ i \in Int /\ 1 <= i /\ i < n
        BY <1>1, <3>4, <3>6
      <4>5. /\ t \in Seq(SUBSET Values) /\ Len(t) = Len(r) + 1 /\ Len(r) \in Nat /\ Len(r) >= 1
            /\ t[1] = p /\ \A j \in 1 .. Len(r) : t[j + 1] = r[j]
        <5>1. /\ <<p>> \o r \in Seq(SUBSET Values) /\ Len(<<p>> \o r) = Len(r) + 1 /\ Len(r) \in Nat
              /\ (<<p>> \o r)[1] = p /\ \A j \in 1 .. Len(r) : (<<p>> \o r)[j + 1] = r[j]
          BY <1>3, <4>3, <4>4, Zenon
        <5>2. Len(r) >= 1
          BY <4>0, <4>4
        <5> QED BY <4>2, <5>1, <5>2, Zenon
      <4>6. Len(t) = n - i + 1
        BY <4>0, <4>4, <4>5
      <4>7. ASSUME NEW j \in 1 .. Len(t)
            PROVE  /\ t[j] \cap passed[i + j - 2] = {}
                   /\ Origins(blocks[i + j - 1], IF j = Len(t) THEN Values ELSE t[j + 1]) \subseteq t[j]
        <5>1. CASE j = 1
          <6>1. i + j - 2 = i - 1 /\ i + j - 1 = i /\ j # Len(t) /\ 1 \in 1 .. Len(r)
            BY <3>4, <4>5, <5>1
          <6>2. t[j + 1] = r[1]
            BY <4>5, <5>1, <6>1
          <6> QED BY <4>3, <4>5, <5>1, <6>1, <6>2
        <5>2. CASE j # 1
          <6> DEFINE k == j - 1
          <6>0. j \in Int /\ 2 <= j /\ j <= Len(r) + 1 /\ Len(r) \in Int /\ Len(t) = Len(r) + 1
            BY <4>5, <5>2
          <6>1. /\ k \in 1 .. Len(r) /\ k + 1 = j
                /\ i + 1 + k - 2 = i + j - 2 /\ i + 1 + k - 1 = i + j - 1
                /\ (k = Len(r) <=> j = Len(t))
                /\ (k # Len(r) => k + 1 \in 1 .. Len(r))
            BY <4>0, <6>0
          <6> HIDE DEF k
          <6>2. t[j] = r[k] /\ (k # Len(r) => t[j + 1] = r[k + 1])
            BY <4>5, <6>1
          <6>3. r[k] \cap passed[i + j - 2] = {}
            BY <4>4, <6>1
          <6>4. Origins(blocks[i + j - 1], IF k = Len(r) THEN Values ELSE r[k + 1]) \subseteq r[k]
            BY <4>4, <6>1
          <6> QED BY <6>1, <6>2, <6>3, <6>4
        <5> QED BY <5>1, <5>2
      <4> QED BY <4>5, <4>6, <4>7
    <3>10. Good(i)
      BY <3>9 DEF Good
    <3> QED BY <3>3, <3>10 DEF i
  <2>2. CASE Bad = {}
    <3>1. n - 2 \in 0 .. n - 1 /\ n - (n - 2) = 2
      BY <1>1
    <3> QED BY <2>2, <3>1
  <2> QED BY <2>1, <2>2
<1>16. itp \in Seq(SUBSET Values) /\ Len(itp) = n - 1
  <2>1. n - 2 + 1 = n - 1
    BY <1>1
  <2> QED BY <1>13, <1>15, <2>1
<1>17. ASSUME NEW j \in 1 .. Len(itp)
       PROVE  /\ itp[j] \cap passed[j] = {}
              /\ Origins(blocks[j + 1], IF j = Len(itp) THEN Values ELSE itp[j + 1]) \subseteq itp[j]
  <2>1. 2 + j - 2 = j /\ 2 + j - 1 = j + 1
    BY <1>16
  <2> QED BY <1>13, <1>15, <2>1
<1> QED BY <1>8, <1>16, <1>17 DEF Separates

(* The summaries along a trace to the target at its end: each follows from    *)
(* the one before by the abstraction, and the last block can be passed.      *)
Summarised(blocks, sums) ==
  /\ DOMAIN sums = 0 .. Len(blocks) - 1 /\ sums[0] = Values
  /\ \A i \in 1 .. Len(blocks) - 1 : sums[i] = Abstraction(Image(blocks[i], sums[i - 1]))
  /\ Image(blocks[Len(blocks)], sums[Len(blocks) - 1]) # {}

LEMMA TargetSummaries ==
  ASSUME NEW L, IInv(L), pc = "check", NEW x \in Targets, NEW trace \in Traces(x)
  PROVE  /\ Blocks(trace, x) \in Seq(Relations) /\ Len(Blocks(trace, x)) \in Nat
         /\ Len(Blocks(trace, x)) >= 1
         /\ \E sums : Summarised(Blocks(trace, x), sums)
<1>1. /\ node \in Seq(NodeType) /\ Len(node) \in Nat /\ DOMAIN node = 1 .. Len(node)
      /\ node[1] = Root /\ \A y \in DOMAIN node : node[y] \in NodeType /\ Linked(node, y)
  BY NodesFacts DEF IInv
<1>2. x \in graph.reached /\ x \in DOMAIN node /\ task.error[node[x].control] # {}
  BY DEF IInv, Shape, Targets, Target
<1>3. Feasible(node[x])
  BY <1>2 DEF IInv, FeasibleTargets, Target
<1>4. ~node[x].widened
  <2>1. node[x].control \in Controls
    BY <1>1, <1>2 DEF NodeType
  <2>2. node[x].control \notin task.heads
    BY <1>2, <2>1, TaskFacts DEF IInv
  <2> QED BY <1>1, <1>2, <2>2 DEF Linked
<1>5. PICK U : Traced(node, U, L)
  BY DEF IInv, NodesOK
<1> DEFINE b      == node[x].block
           n      == Len(trace) + 1
           blocks == Blocks(trace, x)
<1>6. b \in DOMAIN node /\ Starts(node, b) /\ node[x].entering = node[b].entering
  BY <1>1, <1>2 DEF Linked
<1>7. trace = U[b] /\ trace \in Seq(DOMAIN node)
  <2>1. Traces(x) = {U[b]}
    BY <1>2, <1>5, OnlyTrace DEF IInv
  <2> QED BY <1>5, <1>6, <2>1 DEF Traced
<1>8. Chain(node, trace)
  <2>1. CASE b = 1
    BY <2>1, <1>5, <1>7 DEF Traced, Chain
  <2>2. CASE node[b].widened
    <3>1. b \in L
      BY <1>2 DEF IInv, Living
    <3> QED BY <2>2, <3>1, <1>5, <1>6, <1>7 DEF Traced
  <2> QED BY <2>1, <2>2, <1>6 DEF Starts
<1>9. node[b].entering = IF Len(trace) = 0 THEN Values ELSE node[trace[Len(trace)]].entering
  <2>1. CASE b = 1
    BY <2>1, <1>1, <1>5, <1>7 DEF Traced, Root
  <2>2. CASE node[b].widened
    <3>1. trace # <<>> /\ trace[Len(trace)] = b
      BY <2>2, <1>5, <1>6, <1>7 DEF Traced
    <3> QED BY <3>1, <1>7
  <2> QED BY <2>1, <2>2, <1>6 DEF Starts
<1>10. Len(trace) \in Nat /\ n \in Nat /\ n >= 1 /\ n - 1 = Len(trace)
  BY <1>7
<1>11. /\ \A i \in 1 .. Len(trace) : Append(trace, x)[i] = trace[i] /\ trace[i] \in DOMAIN node
       /\ Append(trace, x)[n] = x
  BY <1>2, <1>7
<1>12. blocks = [i \in 1 .. n |-> node[Append(trace, x)[i]].formula]
  BY DEF Blocks
<1> HIDE DEF b, n, blocks
<1>13. \A i \in 1 .. n : i = n \/ i \in 1 .. Len(trace)
  BY <1>10
<1>14. \A y \in DOMAIN node : node[y].formula \in Relations
  BY <1>1 DEF NodeType, Relations
<1>15. /\ blocks[n] = node[x].formula
       /\ \A i \in 1 .. Len(trace) : blocks[i] = node[trace[i]].formula
  BY <1>10, <1>11, <1>12
<1>16. \A i \in 1 .. n : blocks[i] \in Relations
  BY <1>2, <1>11, <1>13, <1>14, <1>15
<1>17. blocks \in Seq(Relations) /\ Len(blocks) = n
  <2>1. blocks \in [1 .. n -> Relations]
    BY <1>12, <1>16
  <2> HIDE DEF Relations
  <2> QED BY <1>10, <2>1
<1> DEFINE sums == [i \in 0 .. n - 1 |-> IF i = 0 THEN Values ELSE node[trace[i]].entering]
<1>18. /\ DOMAIN sums = 0 .. n - 1 /\ sums[0] = Values
       /\ \A i \in 1 .. n - 1 : sums[i] = node[trace[i]].entering
  BY <1>10
<1> HIDE DEF sums
<1>19. ASSUME NEW i \in 1 .. n - 1
       PROVE  sums[i] = Abstraction(Image(blocks[i], sums[i - 1]))
  <2>1. i \in 1 .. Len(trace)
    BY <1>10
  <2>2. node[trace[i]].entering =
          Abstraction(Image(node[trace[i]].formula, IF i = 1 THEN Values ELSE node[trace[i - 1]].entering))
    BY <1>8, <2>1 DEF Chain
  <2>3. sums[i - 1] = IF i = 1 THEN Values ELSE node[trace[i - 1]].entering
    <3>1. CASE i = 1
      BY <3>1, <1>18
    <3>2. CASE i # 1
      <4>1. i - 1 \in 1 .. n - 1
        BY <1>10, <3>2
      <4> QED BY <3>2, <4>1, <1>18
    <3> QED BY <3>1, <3>2
  <2> QED BY <2>1, <2>2, <2>3, <1>15, <1>18
<1>20. Image(blocks[n], sums[n - 1]) # {}
  <2>1. sums[n - 1] = node[x].entering
    <3>1. CASE n = 1
      BY <3>1, <1>6, <1>9, <1>10, <1>18
    <3>2. CASE n # 1
      <4>1. n - 1 \in 1 .. n - 1 /\ Len(trace) # 0
        BY <1>10, <3>2
      <4> QED BY <4>1, <1>6, <1>9, <1>10, <1>18
    <3> QED BY <3>1, <3>2
  <2> QED BY <2>1, <1>3, <1>15 DEF Feasible
<1>21. Summarised(blocks, sums)
  BY <1>17, <1>18, <1>19, <1>20 DEF Summarised
<1> QED BY <1>10, <1>17, <1>21 DEF blocks

(* A trace of one block is feasible, as the target is within its block.      *)
LEMMA PlaceForInterpolants ==
  ASSUME NEW L, IInv(L), pc = "check", NEW x \in Targets, NEW trace \in Traces(x),
         ~FeasibleTrace(Blocks(trace, x))
  PROVE  Len(Blocks(trace, x)) > 1
<1> DEFINE blocks == Blocks(trace, x)
<1>1. /\ blocks \in Seq(Relations) /\ Len(blocks) \in Nat /\ Len(blocks) >= 1
      /\ \E sums : Summarised(blocks, sums)
  BY TargetSummaries
<1> HIDE DEF blocks
<1>2. PICK sums : Summarised(blocks, sums)
  BY <1>1
<1>3. ASSUME Len(blocks) = 1 PROVE FALSE
  <2>1. Image(blocks[1], Values) # {}
    BY <1>2, <1>3 DEF Summarised
  <2>2. Passed(blocks)[0] = Values /\ Passed(blocks)[1] = Image(blocks[1], Passed(blocks)[1 - 1])
    <3>1. 1 \in 1 .. Len(blocks)
      BY <1>3
    <3> QED BY <1>1, <3>1, PassedSteps
  <2>3. Passed(blocks)[1] = Image(blocks[1], Values)
    BY <2>2
  <2>4. FeasibleTrace(blocks)
    BY <2>1, <2>3, <1>3 DEF FeasibleTrace
  <2> QED BY <2>4 DEF blocks
<1>4. Len(blocks) \in Nat /\ Len(blocks) >= 1 /\ Len(blocks) # 1
  <2>1. Len(blocks) # 1
    BY <1>3 DEF blocks
  <2> QED BY <1>1, <2>1
<1>5. Len(blocks) > 1
  <2>1. \A k \in Nat : k >= 1 /\ k # 1 => k > 1
    OBVIOUS
  <2> QED BY <1>4, <2>1, Zenon
<1> QED BY <1>5 DEF blocks

(* The interpolants are not all in the precision: the summaries would have    *)
(* kept the target from being reached.                                       *)
LEMMA NewPredicate ==
  ASSUME NEW blocks \in Seq(Relations), Len(blocks) > 1,
         NEW sums, Summarised(blocks, sums),
         NEW itp \in Interpolants(blocks)
  PROVE  ~(Range(itp) \subseteq precision)
<1> SUFFICES ASSUME Range(itp) \subseteq precision PROVE FALSE
  OBVIOUS
<1> DEFINE n == Len(blocks)
<1>1. n \in Nat /\ n > 1
  OBVIOUS
<1>2. /\ itp \in Seq(SUBSET Values) /\ Len(itp) = n - 1
      /\ \A j \in 1 .. n - 1 :
           /\ itp[j] \cap Passed(blocks)[j] = {}
           /\ Origins(blocks[j + 1], IF j = n - 1 THEN Values ELSE itp[j + 1]) \subseteq itp[j]
  BY InterpolantsSeparate DEF Separates
<1>3. /\ sums[0] = Values
      /\ \A i \in 1 .. n - 1 : sums[i] = Strongest(Image(blocks[i], sums[i - 1]), precision)
      /\ Image(blocks[n], sums[n - 1]) # {}
  BY DEF Summarised, Abstraction
<1>4. \A j \in 1 .. n - 1 : itp[j] \in precision
  BY <1>2 DEF Range
<1>5. Passed(blocks)[1] = Image(blocks[1], Values)
  <2>1. 1 \in 1 .. n /\ 1 - 1 = 0
    BY <1>1
  <2>2. Passed(blocks)[0] = Values /\ Passed(blocks)[1] = Image(blocks[1], Passed(blocks)[1 - 1])
    BY <2>1, PassedSteps
  <2> QED BY <2>1, <2>2
<1> HIDE DEF n
<1> DEFINE Bad == {j \in 1 .. n - 1 : sums[j] \cap itp[j] # {}}
<1>6. CASE Bad # {}
  <2>1. Bad \in SUBSET Nat
    BY <1>1
  <2>2. PICK m \in Bad : \A k \in Bad : m <= k
    <3> HIDE DEF Bad
    <3> QED BY <1>6, <2>1, LeastElement
  <2>3. m \in 1 .. n - 1 /\ sums[m] \cap itp[m] # {}
    OBVIOUS
  <2>4. sums[m] = Strongest(Image(blocks[m], sums[m - 1]), precision) /\ itp[m] \in precision
    BY <1>3, <1>4, <2>3
  <2>5. PICK u \in Image(blocks[m], sums[m - 1]) : u \in itp[m]
    <3>1. PICK v \in sums[m] : v \in itp[m]
      BY <2>3
    <3>2. \E u \in Image(blocks[m], sums[m - 1]) : \A p \in precision : v \in p <=> u \in p
      BY <2>4, <3>1 DEF Strongest
    <3> QED BY <2>4, <3>1, <3>2
  <2>6. CASE m = 1
    <3>1. u \in Passed(blocks)[1]
      BY <1>3, <1>5, <2>5, <2>6
    <3>2. itp[1] \cap Passed(blocks)[1] = {}
      BY <1>2, <2>3, <2>6
    <3> QED BY <2>5, <2>6, <3>1, <3>2
  <2>7. CASE m # 1
    <3> DEFINE k == m - 1
    <3>1. k \in 1 .. n - 1 /\ k # n - 1 /\ k + 1 = m /\ ~(m <= k)
      BY <1>1, <2>3, <2>7
    <3>2. k \notin Bad
      <4>1. \A j \in Bad : m <= j
        BY <2>2
      <4> HIDE DEF Bad, k
      <4> QED BY <3>1, <4>1
    <3>3. sums[k] \cap itp[k] = {} /\ Origins(blocks[m], itp[m]) \subseteq itp[k]
      BY <1>2, <3>1, <3>2
    <3>4. PICK w \in sums[k] : <<w, u>> \in blocks[m]
      BY <2>5 DEF Image
    <3>5. w \in Origins(blocks[m], itp[m])
      <4>1. m \in 1 .. Len(blocks)
        BY <1>1, <2>3 DEF n
      <4>2. blocks[m] \in Relations
        BY <4>1, ElementOfSeq
      <4>3. w \in Values
        BY <3>4, <4>2 DEF Relations
      <4> QED BY <2>5, <3>4, <4>3 DEF Origins
    <3> QED BY <3>3, <3>4, <3>5
  <2> QED BY <2>6, <2>7
<1>7. CASE Bad = {}
  <2>1. n - 1 \in 1 .. n - 1 /\ n - 1 + 1 = n
    BY <1>1
  <2>2. sums[n - 1] \cap itp[n - 1] = {} /\ Origins(blocks[n], Values) \subseteq itp[n - 1]
    BY <1>2, <1>7, <2>1
  <2>3. PICK v \in Values : \E u \in sums[n - 1] : <<u, v>> \in blocks[n]
    BY <1>3 DEF Image
  <2>4. PICK u \in sums[n - 1] : <<u, v>> \in blocks[n]
    BY <2>3
  <2>5. u \in Values
    <3>1. blocks[n] \in Relations
      BY <1>1 DEF n
    <3> QED BY <2>4, <3>1 DEF Relations
  <2>6. u \in Origins(blocks[n], Values)
    BY <2>4, <2>5 DEF Origins
  <2> QED BY <2>2, <2>4, <2>6
<1> QED BY <1>6, <1>7

-----------------------------------------------------------------------------
(* "There should have been at least 2" formulas (buildInterpolationProblem):  *)
(* an infeasible trace always has a place for an interpolant.                *)
THEOREM InterpolationPossible == Spec => []("no_interpolants" \notin thrown)
<1>1. Init => "no_interpolants" \notin thrown
  BY DEF Init
<1>2. ASSUME Consistent, [Next]_allVars, "no_interpolants" \notin thrown
      PROVE  ("no_interpolants" \notin thrown)'
  <2>1. CASE Choose
    <3>1. PICK e \in DOMAIN node : Expand(e, Successors(e), Kept(Successors(e)))
      BY <2>1, Zenon DEF Choose
    <3>2. Throw({"no_next_turn"}) \/ UNCHANGED thrown
      BY <3>1, Zenon DEF Expand
    <3> QED BY <1>2, <3>2 DEF Throw
  <2>2. CASE Process
    <3>1. \E nodes, g, covered : Settle(nodes, g, covered)
      BY <2>2, Zenon DEF Process, MergeStop
    <3>2. PICK nodes, g, covered : Settle(nodes, g, covered)
      BY <3>1
    <3>3. Throw(Faults(nodes, g, Head(todo), covered)) \/ UNCHANGED thrown
      BY <3>2, Zenon DEF Settle
    <3>4. "no_interpolants" \notin Faults(nodes, g, Head(todo), covered)
      BY DEF Faults
    <3> QED BY <1>2, <3>3, <3>4 DEF Throw
  <2>3. CASE Refine
    <3>1. PICK x \in Targets : \E trace \in Traces(x) :
            /\ ~FeasibleTrace(Blocks(trace, x))
            /\ \/ Len(Blocks(trace, x)) = 1
               \/ \E found : Restart(found)
      BY <2>3, Zenon DEF Refine
    <3>2. PICK trace \in Traces(x) :
            /\ ~FeasibleTrace(Blocks(trace, x))
            /\ \/ Len(Blocks(trace, x)) = 1
               \/ \E found : Restart(found)
      BY <3>1
    <3>3. Len(Blocks(trace, x)) > 1 /\ Len(Blocks(trace, x)) \in Nat
      BY <1>2, <2>3, <3>2, PlaceForInterpolants, TargetSummaries DEF Refine, Consistent
    <3>4. Len(Blocks(trace, x)) # 1
      <4>1. \A k \in Nat : k > 1 => k # 1
        OBVIOUS
      <4> QED BY <3>3, <4>1, Zenon
    <3>5. \E found : Restart(found)
      BY <3>2, <3>4, Zenon
    <3> QED BY <1>2, <3>5 DEF Restart
  <2>4. CASE Check \/ (Begin \/ Expanded \/ Explored \/ Report) \/ UNCHANGED allVars
    BY <1>2, <2>4 DEF Check, Begin, Expanded, Explored, Report, allVars, vars
  <2> QED BY <1>2, <2>1, <2>2, <2>3, <2>4 DEF Next
<1> QED BY <1>1, <1>2, Invariance, PTL DEF Spec

(* A refinement makes the precision larger, so that the same target is not    *)
(* found for ever (refinePrecision): the predicates found so far let the      *)
(* exploration reach the target, the interpolants would not have.            *)
THEOREM RefinementsAdvance == Spec => RefinesAlways
<1>1. ASSUME Consistent, [Next]_allVars, pc = "check", graph' # graph
      PROVE  precision' # precision
  <2>1. Refine
    BY <1>1 DEF Next, allVars, vars, Choose, Process, Check, Begin, Expanded, Explored, Report
  <2>2. ~ \E faults : Throw(faults)
    BY <1>1 DEF Throw
  <2> DEFINE Restarts(x, trace) ==
               /\ Len(Blocks(trace, x)) > 1
               /\ \E itp \in Interpolants(Blocks(trace, x)) :
                    \E more : Restart(Range(itp) \cup more)
  <2>3. \E x \in Targets : \E trace \in Traces(x) : Restarts(x, trace)
    BY <2>1, <2>2, Zenon DEF Refine
  <2>4. PICK x \in Targets : \E trace \in Traces(x) : Restarts(x, trace)
    BY <2>3
  <2>5. PICK trace \in Traces(x) : Restarts(x, trace)
    BY <2>4
  <2>6. PICK itp \in Interpolants(Blocks(trace, x)) : \E more : Restart(Range(itp) \cup more)
    BY <2>5
  <2>7. \E more : precision' = precision \cup (Range(itp) \cup more)
    BY <2>6 DEF Restart
  <2>8. Blocks(trace, x) \in Seq(Relations) /\ \E sums : Summarised(Blocks(trace, x), sums)
    BY <1>1, TargetSummaries DEF Consistent
  <2>9. ~(Range(itp) \subseteq precision)
    BY <2>5, <2>8, NewPredicate
  <2> QED BY <2>7, <2>9
<1> QED BY <1>1, Invariance, PTL DEF Spec, RefinesAlways

-----------------------------------------------------------------------------
(* Executions.  What they reach is closed under the steps of the program: the *)
(* rounds in which it is collected are enough, as each but the last finds a   *)
(* new pair of a control state and a value.                                  *)
Pairs(k) == (DOMAIN k.steps) \X Values

Leads(k, S) == UNION {UNION {{Widens(k, step.to)} \X Image(step.change, {s[2]}) :
                               step \in Range(k.steps[s[1]])} : s \in S}

LEMMA LeadsHolds ==
  ASSUME NEW k, IsTask(k), NEW S \in SUBSET Pairs(k)
  PROVE  /\ Leads(k, S) \in SUBSET Pairs(k)
         /\ \A T : Leads(k, S) \subseteq Leads(k, T) \cup Leads(k, S \ T)
         /\ \A s \in S : \A i \in 1 .. Len(k.steps[s[1]]), v \in Values :
              <<s[2], v>> \in k.steps[s[1]][i].change => <<Widens(k, k.steps[s[1]][i].to), v>> \in Leads(k, S)
<1>1. ASSUME NEW c \in DOMAIN k.steps
      PROVE  /\ k.steps[c] \in Seq([to : DOMAIN k.steps, change : SUBSET (Values \X Values)])
             /\ Widens(k, c) \in DOMAIN k.steps
  <2>1. k.heads \subseteq DOMAIN k.steps /\ k.widened \in [k.heads -> k.heads]
    BY DEF IsTask
  <2>2. k.steps[c] \in Seq([to : DOMAIN k.steps, change : SUBSET (Values \X Values)])
    BY DEF IsTask
  <2>3. Widens(k, c) \in DOMAIN k.steps
    BY <2>1 DEF Widens
  <2> QED BY <2>2, <2>3
<1>2. \A s \in S : \A step \in Range(k.steps[s[1]]) : step.to \in DOMAIN k.steps
  <2> SUFFICES ASSUME NEW s \in S, NEW step \in Range(k.steps[s[1]]) PROVE step.to \in DOMAIN k.steps
    OBVIOUS
  <2>1. s[1] \in DOMAIN k.steps
    <3>1. s \in (DOMAIN k.steps) \X Values
      BY DEF Pairs
    <3> QED BY <3>1
  <2>2. PICK i \in DOMAIN k.steps[s[1]] : step = k.steps[s[1]][i]
    BY DEF Range
  <2> DEFINE T == [to : DOMAIN k.steps, change : SUBSET (Values \X Values)]
             q == k.steps[s[1]]
  <2>3. q \in Seq(T)
    BY <1>1, <2>1
  <2>4. \A r \in T : r.to \in DOMAIN k.steps
    OBVIOUS
  <2>5. i \in DOMAIN q /\ step = q[i]
    BY <2>2
  <2> HIDE DEF T, q
  <2>6. step \in T
    BY <2>3, <2>5
  <2> QED BY <2>4, <2>6
<1>3. Leads(k, S) \in SUBSET Pairs(k)
  <2> SUFFICES ASSUME NEW q \in Leads(k, S) PROVE q \in Pairs(k)
    OBVIOUS
  <2>1. PICK s \in S : \E step \in Range(k.steps[s[1]]) : q \in {Widens(k, step.to)} \X Image(step.change, {s[2]})
    BY DEF Leads
  <2>2. PICK step \in Range(k.steps[s[1]]) : q \in {Widens(k, step.to)} \X Image(step.change, {s[2]})
    BY <2>1
  <2>3. Widens(k, step.to) \in DOMAIN k.steps
    BY <1>1, <1>2
  <2>4. Image(step.change, {s[2]}) \subseteq Values
    BY DEF Image
  <2> QED BY <2>2, <2>3, <2>4 DEF Pairs
<1>4. \A T : Leads(k, S) \subseteq Leads(k, T) \cup Leads(k, S \ T)
  BY DEF Leads
<1>5. ASSUME NEW s \in S, NEW i \in 1 .. Len(k.steps[s[1]]), NEW v \in Values,
             <<s[2], v>> \in k.steps[s[1]][i].change
      PROVE  <<Widens(k, k.steps[s[1]][i].to), v>> \in Leads(k, S)
  <2>1. s[1] \in DOMAIN k.steps
    <3>1. s \in (DOMAIN k.steps) \X Values
      BY DEF Pairs
    <3> QED BY <3>1
  <2>2. k.steps[s[1]][i] \in Range(k.steps[s[1]])
    BY <1>1, <2>1 DEF Range
  <2> DEFINE step == k.steps[s[1]][i]
  <2>3. v \in Image(step.change, {s[2]})
    BY <1>5 DEF Image
  <2>4. step \in Range(k.steps[s[1]])
    BY <2>2
  <2> HIDE DEF step
  <2> DEFINE q    == <<Widens(k, step.to), v>>
             R(r) == {Widens(k, r.to)} \X Image(r.change, {s[2]})
             P(z) == UNION {{Widens(k, r.to)} \X Image(r.change, {z[2]}) : r \in Range(k.steps[z[1]])}
  <2>5. q \in R(step)
    BY <2>3
  <2>6. q \in UNION {R(r) : r \in Range(k.steps[s[1]])}
    <3> HIDE DEF q, R
    <3> QED BY <2>4, <2>5
  <2>7. q \in P(s)
    BY <2>6
  <2>8. q \in UNION {P(z) : z \in S}
    <3> HIDE DEF q, P
    <3> QED BY <2>7
  <2> QED BY <2>8 DEF step, Leads
<1> QED BY <1>3, <1>4, <1>5

Rounds(k, n, f) ==
  /\ f \in [0 .. n -> [seen : SUBSET Pairs(k), new : SUBSET Pairs(k)]]
  /\ f[0] = [seen |-> {0} \X Values, new |-> {0} \X Values]
  /\ \A i \in 1 .. n : LET fresh == Leads(k, f[i - 1].new) \ f[i - 1].seen
                       IN f[i] = [seen |-> f[i - 1].seen \cup fresh, new |-> fresh]
  /\ Executed(k) = f[n].seen

LEMMA ExecutedInRounds ==
  ASSUME NEW k, IsTask(k)
  PROVE  \E n \in Nat : \E f : Rounds(k, n, f) /\ n = Cardinality(Pairs(k)) /\ IsFiniteSet(Pairs(k))
<1> DEFINE next(S) == UNION {UNION {{Widens(k, step.to)} \X Image(step.change, {s[2]}) :
                                      step \in Range(k.steps[s[1]])} : s \in S}
           n == Cardinality(DOMAIN k.steps) * Cardinality(Values)
           Round(r) == LET new == next(r.new) \ r.seen IN [seen |-> r.seen \cup new, new |-> new]
           first == [seen |-> {0} \X Values, new |-> {0} \X Values]
           Step(f) == [i \in 0 .. n |-> IF i = 0 THEN first ELSE Round(f[i - 1])]
           D == [seen : SUBSET Pairs(k), new : SUBSET Pairs(k)]
           G == [q \in (0 + 1 .. n) \X D |-> Round(q[2])]
<1>1. IsFiniteSet(DOMAIN k.steps) /\ IsFiniteSet(Values)
  BY PredicateConstantsAssumption DEF IsTask
<1>2. n \in Nat /\ n = Cardinality(Pairs(k)) /\ IsFiniteSet(Pairs(k))
  <2>1. Cardinality(DOMAIN k.steps) \in Nat /\ Cardinality(Values) \in Nat
    BY <1>1, FS_CardinalityType
  <2>2. IsFiniteSet(Pairs(k)) /\ Cardinality(Pairs(k)) = n
    <3> DEFINE C == DOMAIN k.steps
    <3>1. IsFiniteSet(C) /\ IsFiniteSet(Values)
      BY <1>1
    <3> HIDE DEF C
    <3>2. IsFiniteSet(C \X Values) /\ Cardinality(C \X Values) = Cardinality(C) * Cardinality(Values)
      BY <3>1, FS_Product
    <3> QED BY <3>2 DEF C, Pairs
  <2> QED BY <2>1, <2>2
<1>3. Executed(k) = (CHOOSE f : f = Step(f))[n].seen
  BY DEF Executed
<1>4. \A S : next(S) = Leads(k, S)
  BY DEF Leads
<1> HIDE DEF n, next
<1>5. \A r \in D : Round(r) \in D
  <2> SUFFICES ASSUME NEW r \in D PROVE Round(r) \in D
    OBVIOUS
  <2>1. next(r.new) \in SUBSET Pairs(k)
    BY <1>4, LeadsHolds
  <2> QED BY <2>1
<1>6. first \in D
  <2>1. 0 \in DOMAIN k.steps
    BY DEF IsTask
  <2>2. {0} \X Values \in SUBSET Pairs(k)
    BY <2>1 DEF Pairs
  <2> QED BY <2>2
<1>7. G \in [(0 + 1 .. n) \X D -> D] /\ \A i \in 0 + 1 .. n, r \in D : G[<<i, r>>] = Round(r)
  <2> HIDE DEF Round, D
  <2> QED BY <1>5
<1>8. \A r : Round(r) = LET fresh == Leads(k, r.new) \ r.seen IN [seen |-> r.seen \cup fresh, new |-> fresh]
  BY <1>4
<1>9. /\ first = [seen |-> {0} \X Values, new |-> {0} \X Values]
      /\ D = [seen : SUBSET Pairs(k), new : SUBSET Pairs(k)]
  OBVIOUS
<1> HIDE DEF G, D, Round, first
<1>10. PICK h : Follows(G, first, 0, n, D, h)
  <2>1. 0 \in Nat /\ 0 <= n
    BY <1>2
  <2> QED BY <1>2, <1>6, <1>7, <2>1, Recursion
<1>11. h = Step(h) /\ h \in [0 .. n -> D]
  <2>1. \A i \in 0 .. n : i # 0 => i \in 0 + 1 .. n /\ i - 1 \in 0 .. n
    BY <1>2
  <2> QED BY <2>1, <1>7, <1>10 DEF Follows
<1>12. PICK f : f = Step(f) /\ Executed(k) = f[n].seen
  BY <1>3, <1>11
<1>13. \A i \in 0 .. n : f[i] = IF i = 0 THEN first ELSE Round(f[i - 1])
  BY <1>12
<1>14. f \in [0 .. n -> D]
  <2> DEFINE Bad == {i \in 0 .. n : f[i] \notin D}
  <2>1. CASE Bad # {}
    <3>1. Bad \in SUBSET Nat
      BY <1>2
    <3>2. PICK m \in Bad : \A j \in Bad : m <= j
      <4> HIDE DEF Bad
      <4> QED BY <2>1, <3>1, LeastElement
    <3>3. m \in 0 .. n /\ f[m] \notin D
      OBVIOUS
    <3>4. m # 0 /\ m - 1 \in 0 .. n /\ ~(m <= m - 1)
      BY <1>2, <1>6, <1>13, <3>3
    <3>5. f[m - 1] \in D
      BY <3>2, <3>4
    <3> QED BY <1>5, <1>13, <3>3, <3>4, <3>5
  <2>2. CASE Bad = {}
    <3>1. f = [i \in 0 .. n |-> f[i]]
      <4>1. f = Step(f)
        BY <1>12
      <4> QED BY <4>1, Zenon
    <3> QED BY <2>2, <3>1
  <2> QED BY <2>1, <2>2
<1>15. \A i \in 1 .. n : f[i] = Round(f[i - 1])
  BY <1>2, <1>13
<1>16. f[0] = first
  BY <1>2, <1>13
<1>17. Rounds(k, n, f)
  <2>1. f \in [0 .. n -> [seen : SUBSET Pairs(k), new : SUBSET Pairs(k)]]
    BY <1>9, <1>14
  <2>2. \A i \in 1 .. n : LET fresh == Leads(k, f[i - 1].new) \ f[i - 1].seen
                          IN f[i] = [seen |-> f[i - 1].seen \cup fresh, new |-> fresh]
    BY <1>8, <1>15
  <2> QED BY <1>9, <1>12, <1>16, <2>1, <2>2 DEF Rounds
<1> QED BY <1>2, <1>17

LEMMA ExecutedClosed ==
  ASSUME NEW k, IsTask(k)
  PROVE  /\ Executed(k) \in SUBSET Pairs(k)
         /\ \A v \in Values : <<0, v>> \in Executed(k)
         /\ Leads(k, Executed(k)) \subseteq Executed(k)
<1>1a. PICK n \in Nat : \E f : Rounds(k, n, f) /\ n = Cardinality(Pairs(k)) /\ IsFiniteSet(Pairs(k))
  BY ExecutedInRounds
<1>1. PICK f : Rounds(k, n, f) /\ n = Cardinality(Pairs(k)) /\ IsFiniteSet(Pairs(k))
  BY <1>1a
<1>2. /\ \A i \in 0 .. n : f[i].seen \in SUBSET Pairs(k) /\ f[i].new \in SUBSET Pairs(k)
      /\ f[0].seen = {0} \X Values /\ f[0].new = {0} \X Values
      /\ \A i \in 1 .. n : /\ f[i].new = Leads(k, f[i - 1].new) \ f[i - 1].seen
                           /\ f[i].seen = f[i - 1].seen \cup f[i].new
      /\ Executed(k) = f[n].seen
  <2>1. /\ f \in [0 .. n -> [seen : SUBSET Pairs(k), new : SUBSET Pairs(k)]]
        /\ f[0] = [seen |-> {0} \X Values, new |-> {0} \X Values]
        /\ \A i \in 1 .. n : f[i] = [seen |-> f[i - 1].seen \cup (Leads(k, f[i - 1].new) \ f[i - 1].seen),
                                   new  |-> Leads(k, f[i - 1].new) \ f[i - 1].seen]
        /\ Executed(k) = f[n].seen
    BY <1>1 DEF Rounds
  <2>2. \A i \in 0 .. n : f[i].seen \in SUBSET Pairs(k) /\ f[i].new \in SUBSET Pairs(k)
    BY <2>1
  <2>3. f[0].seen = {0} \X Values /\ f[0].new = {0} \X Values
    BY <2>1
  <2>4. \A i \in 1 .. n : /\ f[i].new = Leads(k, f[i - 1].new) \ f[i - 1].seen
                           /\ f[i].seen = f[i - 1].seen \cup f[i].new
    <3> SUFFICES ASSUME NEW i \in 1 .. n
                 PROVE  /\ f[i].new = Leads(k, f[i - 1].new) \ f[i - 1].seen
                        /\ f[i].seen = f[i - 1].seen \cup f[i].new
      OBVIOUS
    <3> DEFINE seen  == f[i - 1].seen
               fresh == Leads(k, f[i - 1].new) \ f[i - 1].seen
    <3>1. f[i] = [seen |-> seen \cup fresh, new |-> fresh]
      BY <2>1
    <3> HIDE DEF seen, fresh
    <3>2. f[i].seen = seen \cup fresh /\ f[i].new = fresh
      BY <3>1
    <3> QED BY <3>2 DEF seen, fresh
  <2> QED BY <2>1, <2>2, <2>3, <2>4
<1> DEFINE Good(i) == /\ {0} \X Values \subseteq f[i].seen
                      /\ Leads(k, f[i].seen \ f[i].new) \subseteq f[i].seen
                      /\ f[i].new # {} => Cardinality(f[i].seen) >= i + 1
           Bad == {i \in 0 .. n : ~Good(i)}
<1>3. \A S : S \in SUBSET Pairs(k) => IsFiniteSet(S) /\ Cardinality(S) \in Nat /\ Cardinality(S) <= n
  BY <1>1, FS_Subset, FS_CardinalityType
<1>4. Leads(k, {}) = {}
  BY DEF Leads
<1>5. Good(0)
  <2>1. f[0].seen \ f[0].new = {}
    BY <1>2
  <2>2. f[0].seen # {} /\ 0 \in 0 .. n
    <3>1. PICK v : v \in Values
      BY PredicateConstantsAssumption
    <3>2. <<0, v>> \in {0} \X Values
      BY <3>1
    <3> QED BY <1>2, <3>2
  <2>3. Cardinality(f[0].seen) # 0 /\ Cardinality(f[0].seen) \in Nat
    BY <1>2, <1>3, <2>2, FS_EmptySet
  <2>4. Cardinality(f[0].seen) >= 0 + 1
    BY <2>3
  <2>5. Leads(k, f[0].seen \ f[0].new) \subseteq f[0].seen
    BY <1>4, <2>1
  <2> QED BY <1>2, <2>4, <2>5
<1>6. ASSUME NEW i \in 1 .. n, Good(i - 1) PROVE Good(i)
  <2> DEFINE seen == f[i - 1].seen
             new  == f[i - 1].new
             fresh == f[i].new
  <2>1. /\ fresh = Leads(k, new) \ seen /\ f[i].seen = seen \cup fresh
        /\ seen \in SUBSET Pairs(k) /\ new \in SUBSET Pairs(k) /\ f[i].seen \in SUBSET Pairs(k)
        /\ {0} \X Values \subseteq seen
        /\ Leads(k, seen \ new) \subseteq seen
        /\ new # {} => Cardinality(seen) >= i
    BY <1>2, <1>6
  <2> HIDE DEF seen, new, fresh
  <2>2. f[i].seen \ fresh = seen
    BY <2>1
  <2>3. Leads(k, seen) \subseteq f[i].seen
    <3>1. Leads(k, seen) \subseteq Leads(k, new) \cup Leads(k, seen \ new)
      BY <2>1, LeadsHolds
    <3> QED BY <2>1, <3>1
  <2>4. ASSUME fresh # {} PROVE Cardinality(f[i].seen) >= i + 1
    <3>1. PICK q \in fresh : q \in f[i].seen /\ q \notin seen
      BY <2>1, <2>4
    <3>2. Cardinality(seen) >= i
      BY <1>4, <2>1, <3>1
    <3>3. seen \cup {q} \subseteq f[i].seen
      BY <2>1, <3>1
    <3>4. /\ Cardinality(seen \cup {q}) = Cardinality(seen) + 1
          /\ Cardinality(seen \cup {q}) <= Cardinality(f[i].seen)
          /\ Cardinality(seen) \in Nat /\ Cardinality(f[i].seen) \in Nat
      <4>1. IsFiniteSet(seen) /\ IsFiniteSet(f[i].seen)
        BY <1>3, <2>1
      <4>2. Cardinality(seen \cup {q}) = Cardinality(seen) + 1
        BY <3>1, <4>1, FS_AddElement
      <4>3. Cardinality(seen \cup {q}) <= Cardinality(f[i].seen)
        BY <3>3, <4>1, FS_Subset
      <4> QED BY <1>3, <2>1, <4>2, <4>3
    <3> QED BY <3>2, <3>4
  <2>5. {0} \X Values \subseteq f[i].seen
    BY <2>1
  <2> QED BY <2>2, <2>3, <2>4, <2>5 DEF fresh
<1>7. \A i \in 0 .. n : Good(i)
  <2> HIDE DEF Good
  <2>1. CASE Bad # {}
    <3>1. Bad \in SUBSET Nat
      OBVIOUS
    <3>2. PICK m \in Bad : \A j \in Bad : m <= j
      <4> HIDE DEF Bad
      <4> QED BY <2>1, <3>1, LeastElement
    <3>3. m \in 0 .. n /\ ~Good(m)
      OBVIOUS
    <3>4. m \in 1 .. n /\ m - 1 \in 0 .. n /\ ~(m <= m - 1)
      BY <1>5, <3>3
    <3>5. Good(m - 1)
      BY <3>2, <3>4
    <3> QED BY <1>6, <3>3, <3>4, <3>5
  <2> QED BY <2>1
<1>8. Good(n) /\ n \in 0 .. n
  <2>1. n \in 0 .. n
    OBVIOUS
  <2> HIDE DEF Good
  <2> QED BY <1>7, <2>1
<1>9. f[n].new = {}
  <2>1. Cardinality(f[n].seen) <= n /\ Cardinality(f[n].seen) \in Nat
    BY <1>2, <1>3, <1>8
  <2> QED BY <1>8, <2>1
<1>10. Leads(k, f[n].seen) \subseteq f[n].seen
  <2>1. f[n].seen \ f[n].new = f[n].seen
    BY <1>9
  <2> QED BY <1>8, <2>1
<1>11. \A v \in Values : <<0, v>> \in f[n].seen
  BY <1>8
<1> QED BY <1>2, <1>8, <1>10, <1>11

-----------------------------------------------------------------------------
(* What the formulas say of executions.                                      *)

(* The states that were processed: at a loop head they were widened. *)
Settled(nodes) == {x \in DOMAIN nodes : x = 1 \/ (nodes[x].control \in task.heads => nodes[x].widened)}

(* An execution that is where the block before x starts, with a value that    *)
(* the formula of x relates to another one, comes to x with the other one.    *)
Explained(nodes, x) ==
  /\ nodes[x].widened => Widens(task, nodes[x].control) = nodes[x].control
  /\ \A p \in nodes[x].preds, u, v \in Values :
       <<nodes[nodes[p].block].control, u>> \in Executed(task) /\ <<u, v>> \in nodes[x].formula
         => <<Widens(task, nodes[x].control), v>> \in Executed(task)

Right(nodes) == \A x \in DOMAIN nodes : Explained(nodes, x)

Alone(S) == \A x, y \in S : x = y

(* Only states that were processed are in the graph and waiting; what is      *)
(* reported, one state, and what was reported, executions violate.           *)
Truthful ==
  /\ Right(node)
  /\ graph.reached \subseteq Settled(node)
  /\ Counted(graph.frontier, Settled(node))
  /\ Alone(graph.addedLast)
  /\ pc = "report" => \A x \in graph.addedLast : Target(x) \subseteq task.wrong
  /\ Precise

LEMMA ExecutionFacts ==
  ASSUME task \in Tasks
  PROVE  /\ Executed(task) \in SUBSET (Controls \X Values)
         /\ \A v \in Values : <<0, v>> \in Executed(task)
         /\ \A c \in task.heads : Widens(task, task.widened[c]) = task.widened[c]
         /\ \A c \in Controls \ task.heads : Widens(task, c) = c
         /\ task.error[0] = {}
         /\ \A q \in Executed(task) : task.error[q[1]] \subseteq task.wrong
<1>1. IsTask(task)
  BY PredicateTasksAssumption
<1>2. Executed(task) \in SUBSET Pairs(task) /\ \A v \in Values : <<0, v>> \in Executed(task)
  BY <1>1, ExecutedClosed
<1>3. /\ task.widened \in [task.heads -> task.heads]
      /\ \A c \in task.heads : task.widened[task.widened[c]] = task.widened[c]
      /\ task.wrong = UNION {task.error[s[1]] : s \in Executed(task)}
      /\ 0 \in DOMAIN task.steps /\ Len(task.steps[0]) = 1
      /\ task.error[0] # {} => task.steps[0] = <<>>
  BY <1>1 DEF IsTask
<1>4. task.error[0] = {}
  <2>1. Len(<<>>) = 0
    OBVIOUS
  <2> QED BY <1>3, <2>1
<1>5. \A c \in task.heads : Widens(task, task.widened[c]) = task.widened[c]
  BY <1>3 DEF Widens
<1>6. \A c \in Controls \ task.heads : Widens(task, c) = c
  BY DEF Widens
<1>7. \A q \in Executed(task) : task.error[q[1]] \subseteq task.wrong
  BY <1>3
<1> QED BY <1>2, <1>4, <1>5, <1>6, <1>7 DEF Pairs, Controls

(* An execution goes on. *)
LEMMA Advances ==
  ASSUME task \in Tasks, NEW c \in Controls, NEW i \in 1 .. Len(task.steps[c]),
         NEW u \in Values, NEW v \in Values,
         <<c, u>> \in Executed(task), <<u, v>> \in task.steps[c][i].change
  PROVE  <<Widens(task, task.steps[c][i].to), v>> \in Executed(task)
<1>1. IsTask(task)
  BY PredicateTasksAssumption
<1>2. Executed(task) \in SUBSET Pairs(task) /\ Leads(task, Executed(task)) \subseteq Executed(task)
  BY <1>1, ExecutedClosed
<1> DEFINE S == Executed(task)
           s == <<c, u>>
<1>3. s \in S /\ s[1] = c /\ s[2] = u /\ S \in SUBSET Pairs(task)
  BY <1>2
<1> HIDE DEF S, s
<1>4. <<Widens(task, task.steps[s[1]][i].to), v>> \in Leads(task, S)
  BY <1>1, <1>3, LeadsHolds
<1> QED BY <1>2, <1>3, <1>4 DEF S

(* What an execution that starts with the block of x comes to x with. *)
LEMMA ExplainedEnd ==
  ASSUME task \in Tasks, NEW nodes, NEW L, NodesOK(nodes, L), Right(nodes),
         NEW x \in Settled(nodes), NEW u \in Values, NEW v \in Values,
         <<nodes[nodes[x].block].control, u>> \in Executed(task),
         <<u, v>> \in (IF nodes[x].widened THEN Identity ELSE nodes[x].formula)
  PROVE  <<nodes[x].control, v>> \in Executed(task)
<1>1. x \in DOMAIN nodes /\ nodes[x] \in NodeType /\ Linked(nodes, x) /\ nodes[1] = Root
  BY NodesFacts DEF Settled
<1>2. <<u, v>> \in Identity => u = v
  BY DEF Identity
<1>3. CASE nodes[x].widened
  BY <1>1, <1>2, <1>3 DEF Linked
<1>4. CASE x = 1
  BY <1>1, <1>2, <1>4 DEF Root
<1>5. CASE x # 1 /\ ~nodes[x].widened
  <2>1. nodes[x].control \in Controls \ task.heads
    BY <1>1, <1>5 DEF Settled, NodeType
  <2>2. PICK p \in nodes[x].preds : nodes[p].block = nodes[x].block
    BY <1>1, <1>5 DEF Linked
  <2>3. <<Widens(task, nodes[x].control), v>> \in Executed(task)
    BY <1>1, <1>5, <2>2 DEF Right, Explained
  <2> QED BY <2>1, <2>3, ExecutionFacts
<1> QED BY <1>3, <1>4, <1>5

(* The same states are explained the same way. *)
LEMMA SameExplained ==
  ASSUME NEW nodes, NEW all, NEW x, Explained(nodes, x), all[x] = nodes[x],
         \A p \in nodes[x].preds : all[p] = nodes[p] /\ all[nodes[p].block] = nodes[nodes[p].block]
  PROVE  Explained(all, x)
BY DEF Explained

LEMMA TruthfulStays ==
  ASSUME Truthful, UNCHANGED <<task, node, graph, verdict>>, pc' # "report" \/ pc = "report"
  PROVE  Truthful'
<1>1. (Right(node) /\ graph.reached \subseteq Settled(node) /\ Alone(graph.addedLast) /\ Precise)'
  BY DEF Truthful, Right, Explained, Settled, Alone, Precise
<1>2. Settled(node)' = Settled(node)
  BY DEF Settled
<1>3. PICK Q : Q = Settled(node)
  OBVIOUS
<1>4. Counted(graph.frontier, Q)'
  BY <1>3 DEF Truthful, Counted
<1>5. Counted(graph.frontier, Settled(node))'
  BY <1>2, <1>3, <1>4
<1>6. (pc = "report" => \A x \in graph.addedLast : Target(x) \subseteq task.wrong)'
  BY DEF Truthful, Target
<1> QED BY <1>1, <1>5, <1>6 DEF Truthful

(* States that continue their blocks. *)
LEMMA GrownRight ==
  ASSUME NEW nodes, NEW L, NodesOK(nodes, L), Right(nodes), NEW next \in Seq(NodeType),
         \A i \in DOMAIN next : /\ ~next[i].widened
                                /\ next[i].preds \subseteq DOMAIN nodes
                                /\ \A p \in next[i].preds, u, v \in Values :
                                     /\ <<nodes[nodes[p].block].control, u>> \in Executed(task)
                                     /\ <<u, v>> \in next[i].formula
                                     => <<Widens(task, next[i].control), v>> \in Executed(task)
  PROVE  Right(nodes \o next) /\ Settled(nodes) \subseteq Settled(nodes \o next)
<1> DEFINE all == nodes \o next
<1>1. /\ nodes \in Seq(NodeType) /\ DOMAIN nodes = 1 .. Len(nodes) /\ Len(nodes) \in Nat
      /\ \A x \in DOMAIN nodes : Linked(nodes, x)
  BY NodesFacts
<1>2. Lengthens(nodes, next, all)
  BY <1>1, AllLengthened
<1> HIDE DEF all
<1>3. \A x \in DOMAIN nodes : all[x] = nodes[x] /\ x \in DOMAIN all
  BY <1>1, <1>2 DEF Lengthens
<1>4. \A x \in DOMAIN nodes : /\ nodes[x].preds \subseteq DOMAIN nodes
                              /\ nodes[x].block \in DOMAIN nodes
  <2>1. \A x \in DOMAIN nodes : nodes[x].preds \subseteq 1 .. x - 1 /\ nodes[x].block \in DOMAIN nodes
    BY <1>1 DEF Linked
  <2> QED BY <1>1, <2>1
<1>5. ASSUME NEW x \in DOMAIN all PROVE Explained(all, x)
  <2>1. CASE x \in DOMAIN nodes
    <3>1. Explained(nodes, x) /\ all[x] = nodes[x]
      BY <1>3, <2>1 DEF Right
    <3>2. \A p \in nodes[x].preds : all[p] = nodes[p] /\ all[nodes[p].block] = nodes[nodes[p].block]
      BY <1>3, <1>4, <2>1
    <3> QED BY <3>1, <3>2, SameExplained
  <2>2. CASE x \notin DOMAIN nodes
    <3>1. PICK i \in DOMAIN next : all[x] = next[i]
      BY <1>2, <2>2 DEF Lengthens
    <3>2. \A p \in next[i].preds : all[p] = nodes[p] /\ all[nodes[p].block] = nodes[nodes[p].block]
      BY <1>3, <1>4
    <3> QED BY <3>1, <3>2 DEF Explained
  <2> QED BY <2>1, <2>2
<1>6. Settled(nodes) \subseteq Settled(all)
  BY <1>3 DEF Settled
<1> QED BY <1>5, <1>6 DEF Right, all

LEMMA SuccessorsExplained ==
  ASSUME NEW L, IInv(L), Right(node), NEW e \in Settled(node), NEW i \in DOMAIN Successors(e),
         NEW u \in Values, NEW v \in Values,
         <<node[node[e].block].control, u>> \in Executed(task),
         <<u, v>> \in Successors(e)[i].formula
  PROVE  <<Widens(task, Successors(e)[i].control), v>> \in Executed(task)
<1> DEFINE c     == node[e].control
           steps == task.steps[c]
           from  == IF node[e].widened THEN Identity ELSE node[e].formula
<1>1. e \in DOMAIN node /\ c \in Controls /\ NodesOK(node, L) /\ task \in Tasks
  <2>1. e \in DOMAIN node /\ NodesOK(node, L) /\ task \in Tasks
    BY DEF Settled, IInv
  <2>2. node[e] \in NodeType
    BY <2>1, NodesFacts
  <2> QED BY <2>1, <2>2 DEF NodeType
<1>2. i \in 1 .. Len(steps) /\ Successors(e)[i] = SuccessorOf(e, steps[i], Fresh + i - 1)
  BY DEF Successors
<1>3. /\ Successors(e)[i].control = steps[i].to
      /\ Successors(e)[i].formula = Compose(from, steps[i].change)
  BY <1>2 DEF SuccessorOf
<1>4. PICK w \in Values : <<u, w>> \in from /\ <<w, v>> \in steps[i].change
  BY <1>3 DEF Compose
<1>5. <<c, w>> \in Executed(task)
  BY <1>1, <1>4, ExplainedEnd
<1> HIDE DEF c
<1>6. <<Widens(task, steps[i].to), v>> \in Executed(task)
  BY <1>1, <1>2, <1>4, <1>5, Advances
<1> QED BY <1>3, <1>6

(* A widened state is where the block that ends in it leads to. *)
LEMMA WideningRight ==
  ASSUME task \in Tasks, NEW L, NodesOK(node, L), Right(node), NEW s \in DOMAIN node, s # 1, ~node[s].widened,
         \A x \in DOMAIN node : s \notin node[x].preds
  PROVE  /\ Right(Widening(s))
         /\ Settled(node) \subseteq Settled(Widening(s)) /\ s \in Settled(Widening(s))
         /\ Widening(s)[s].control \notin task.heads => Widening(s) = node
<1> DEFINE nodes == Widening(s)
           w     == Widened(node[s], s)
           c     == node[s].control
<1>0. CASE node[s].control \notin task.heads
  BY <1>0 DEF Widening, Settled
<1>1. CASE node[s].control \in task.heads
  <2>1. /\ node \in Seq(NodeType) /\ node[s] \in NodeType /\ DOMAIN node = 1 .. Len(node)
        /\ \A x \in DOMAIN node : Linked(node, x)
    BY NodesFacts
  <2>2. nodes = [node EXCEPT ![s] = w]
    BY <1>1 DEF Widening
  <2>3. w.control = task.widened[c] /\ w.widened /\ w.preds = node[s].preds /\ w.formula = node[s].formula
    BY <2>1 DEF Widened, NodeType
  <2> HIDE DEF w
  <2>4. /\ DOMAIN nodes = DOMAIN node /\ nodes[s] = w
        /\ \A x \in DOMAIN node \ {s} : nodes[x] = node[x]
    BY <2>2
  <2> HIDE DEF nodes
  <2>5. /\ Widens(task, c) = w.control /\ w.control \in task.heads
        /\ Widens(task, w.control) = w.control
    <3>1. c \in task.heads /\ task.widened[c] \in task.heads
      BY <1>1, TaskFacts
    <3> QED BY <2>3, <3>1, ExecutionFacts DEF Widens
  <2>6. \A x \in DOMAIN node : /\ node[x].preds \subseteq DOMAIN node \ {s}
                               /\ node[x].block \in DOMAIN node \ {s}
    <3>1. \A x \in DOMAIN node : node[x].preds \subseteq 1 .. x - 1
      BY <2>1 DEF Linked
    <3>2. \A x \in DOMAIN node : node[x].block \in DOMAIN node \ {s}
      BY <2>1 DEF Linked, Starts
    <3> QED BY <2>1, <3>1, <3>2
  <2>7. \A x \in DOMAIN node : \A p \in node[x].preds :
          nodes[p] = node[p] /\ nodes[node[p].block] = node[node[p].block]
    BY <2>4, <2>6
  <2>8. ASSUME NEW x \in DOMAIN nodes PROVE Explained(nodes, x)
    <3>1. CASE x # s
      <4>1. x \in DOMAIN node /\ nodes[x] = node[x] /\ Explained(node, x)
        BY <2>4, <2>8, <3>1 DEF Right
      <4> QED BY <2>7, <4>1, SameExplained
    <3>2. CASE x = s
      <4>1. Explained(node, s)
        BY DEF Right
      <4> QED BY <2>3, <2>4, <2>5, <2>7, <3>2, <4>1 DEF Explained
    <3> QED BY <3>1, <3>2
  <2>9. Settled(node) \subseteq Settled(nodes) /\ s \in Settled(nodes)
    BY <2>3, <2>4 DEF Settled
  <2>10. nodes[s].control \in task.heads
    BY <2>4, <2>5
  <2> QED BY <2>8, <2>9, <2>10 DEF Right, nodes
<1> QED BY <1>0, <1>1

(* What the formulas of merged states say, each of them says. *)
LEMMA MergedExplained ==
  ASSUME NEW L, IInv(L), NEW nodes, NodesOK(nodes, L), DOMAIN nodes = DOMAIN node, Right(nodes),
         NEW s \in DOMAIN node,
         nodes[s].preds # {}, NEW partners, partners = MergePartners(nodes, s), partners # {},
         NEW p \in MergedState(nodes, s, partners).preds, NEW u \in Values, NEW v \in Values,
         <<nodes[nodes[p].block].control, u>> \in Executed(task),
         <<u, v>> \in MergedState(nodes, s, partners).formula
  PROVE  <<Widens(task, MergedState(nodes, s, partners).control), v>> \in Executed(task)
<1> DEFINE m     == MergedState(nodes, s, partners)
           parts == partners \cup {s}
           c     == nodes[s].control
           b     == nodes[s].block
<1>1. /\ nodes[1] = Root /\ \A x \in DOMAIN nodes : nodes[x] \in NodeType /\ Linked(nodes, x)
      /\ task \in Tasks
  BY NodesFacts DEF IInv
<1>2. /\ c \notin task.heads
      /\ \A r \in parts : /\ r \in DOMAIN nodes /\ nodes[r].control = c
                          /\ nodes[r].block = b
  BY DEF MergePartners, IInv, Shape
<1>3. \A r \in parts : ~nodes[r].widened
  BY <1>1, <1>2 DEF Linked
<1>4. Continues(nodes, m) /\ m.control = c /\ m.block = b
  BY MergedContinues
<1>5. nodes[p].block = b
  BY <1>4 DEF Continues
<1>6. m.formula = UNION {nodes[r].formula : r \in parts}
  <2>1. nodes[s] \in NodeType
    BY <1>1
  <2> QED BY <2>1 DEF MergedState, NodeType
<1> HIDE DEF m, parts
<1>7. PICK r \in parts : <<u, v>> \in nodes[r].formula
  BY <1>6 DEF m
<1>8. /\ r \in DOMAIN nodes /\ nodes[r].control = c /\ nodes[r].block = b /\ ~nodes[r].widened
      /\ Linked(nodes, r) /\ Explained(nodes, r) /\ c \in Controls
  BY <1>1, <1>2, <1>3 DEF Right, NodeType
<1>9. Widens(task, c) = c
  BY <1>1, <1>2, <1>8, ExecutionFacts
<1>10. CASE r = 1
  <2>1. b = 1 /\ nodes[b].control = c /\ u = v
    BY <1>1, <1>7, <1>8, <1>10 DEF Root, Identity
  <2> QED BY <1>4, <1>5, <1>9, <2>1 DEF m
<1>11. CASE r # 1
  <2>1. PICK q \in nodes[r].preds : nodes[q].block = b
    BY <1>8, <1>11 DEF Linked
  <2>2. <<Widens(task, c), v>> \in Executed(task)
    BY <1>5, <1>7, <1>8, <2>1 DEF Explained
  <2> QED BY <1>4, <2>2 DEF m
<1> QED BY <1>10, <1>11

LEMMA ChooseTruthful ==
  ASSUME NEW L, IInv(L), Truthful, Choose
  PROVE  Truthful'
<1>1. PICK e \in DOMAIN node : IsNext(Keys(node), graph.frontier, e) /\ Expand(e, Successors(e), Kept(Successors(e)))
  BY Zenon DEF Choose
<1> DEFINE next   == Successors(e)
           keys   == Keys(node)
           f      == graph.frontier
           others == FrontierRemove(keys, Peeked(keys, f), e)
<1>2. e \in Settled(node)
  <2>1. e \in DOMAIN f.heap
    BY <1>1 DEF IsNext
  <2> QED BY <2>1 DEF Truthful, Counted
<1>3. CASE Throw({"no_next_turn"})
  BY <1>3, TruthfulStays DEF Throw
<1>4. CASE ~Throw({"no_next_turn"})
  <2>1. /\ graph' = [graph EXCEPT !.frontier = others]
        /\ node' = node \o next /\ pc' = "expand" /\ UNCHANGED <<task, verdict>>
    BY <1>1, <1>4, Zenon DEF Expand
  <2>2. /\ next \in Seq(NodeType)
        /\ \A i \in DOMAIN next : Continues(node, next[i]) /\ next[i].preds = {e}
    BY SuccessorsContinue
  <2>3. \A i \in DOMAIN next : /\ ~next[i].widened /\ next[i].preds \subseteq DOMAIN node
                               /\ \A p \in next[i].preds, u, v \in Values :
                                    /\ <<node[node[p].block].control, u>> \in Executed(task)
                                    /\ <<u, v>> \in next[i].formula
                                    => <<Widens(task, next[i].control), v>> \in Executed(task)
    <3>1. \A i \in DOMAIN next : /\ ~next[i].widened /\ next[i].preds \subseteq DOMAIN node
                                 /\ next[i].preds = {e}
      BY <2>2 DEF Continues
    <3>2. \A i \in DOMAIN next, u, v \in Values :
            /\ <<node[node[e].block].control, u>> \in Executed(task)
            /\ <<u, v>> \in next[i].formula
            => <<Widens(task, next[i].control), v>> \in Executed(task)
      BY <1>2, SuccessorsExplained DEF Truthful
    <3> HIDE DEF next
    <3> QED BY <3>1, <3>2
  <2> HIDE DEF next
  <2>4. Right(node \o next) /\ Settled(node) \subseteq Settled(node \o next)
    BY <2>2, <2>3, GrownRight DEF IInv, Truthful
  <2>5. PICK Q : Q = Settled(node \o next)
    OBVIOUS
  <2>6. Counted(f, Q)
    BY <2>4, <2>5 DEF Truthful, Counted
  <2>7. Counted(others, Q)
    <3> HIDE DEF keys, f
    <3>1. Counted(Peeked(keys, f), Q)
      BY <2>6, TurnCounted
    <3> QED BY <3>1, RemoveCounted
  <2> HIDE DEF others
  <2>8. /\ graph'.reached = graph.reached /\ graph'.addedLast = graph.addedLast /\ graph'.frontier = others
    BY <2>1 DEF IInv, Shape
  <2>9. Settled(node)' = Q
    BY <2>1, <2>5 DEF Settled
  <2>10. Right(node)'
    BY <2>1, <2>4 DEF Right, Explained
  <2>11. (graph.reached \subseteq Settled(node))' /\ Counted(graph.frontier, Settled(node))'
    <3>1. graph.reached \subseteq Q
      BY <2>4, <2>5 DEF Truthful
    <3>2. Counted(graph'.frontier, Q)
      BY <2>7, <2>8
    <3> QED BY <2>8, <2>9, <3>1, <3>2 DEF Counted
  <2>12. (Alone(graph.addedLast) /\ Precise)' /\ pc' # "report"
    BY <2>1, <2>8 DEF Truthful, Alone, Precise
  <2> QED BY <2>10, <2>11, <2>12 DEF Truthful
<1> QED BY <1>3, <1>4

LEMMA SettleTruthful ==
  ASSUME Truthful, NEW nodes, NEW g, NEW covered, Settle(nodes, g, covered), pc = "expand",
         Right(nodes), g.reached \subseteq Settled(nodes), Counted(g.frontier, Settled(nodes)),
         DOMAIN g = {"reached", "addedLast", "frontier"}, Alone(g.addedLast),
         Head(todo) \in Settled(nodes)
  PROVE  Truthful'
<1> DEFINE s      == Head(todo)
           faults == Faults(nodes, g, s, covered)
<1>1. CASE faults # {}
  <2>1. Throw(faults)
    BY <1>1, Zenon DEF Settle
  <2> HIDE DEF faults
  <2> QED BY <2>1, TruthfulStays DEF Throw
<1>2. CASE faults = {}
  <2>1. /\ node' = nodes /\ UNCHANGED <<task, verdict>> /\ pc' # "report"
        /\ graph' = g \/ graph' = ReachedAdd(Waiting(nodes, g, s), s)
    BY <1>2, Zenon DEF Settle
  <2> HIDE DEF s, faults
  <2>2. PICK Q : Q = Settled(nodes)
    OBVIOUS
  <2>3. s \in Q
    BY <2>2 DEF s
  <2>4. /\ graph'.reached \subseteq Q /\ Alone(graph'.addedLast) /\ Counted(graph'.frontier, Q)
    <3>1. CASE graph' = g
      BY <2>2, <3>1
    <3>2. CASE graph' = ReachedAdd(Waiting(nodes, g, s), s)
      <4> DEFINE keys == Keys(nodes)
                 f    == g.frontier
      <4>1. /\ graph'.reached = g.reached \cup {s} /\ graph'.addedLast = {s}
            /\ graph'.frontier = FrontierAdd(keys, f, s)
        BY <3>2 DEF ReachedAdd, Waiting
      <4>2. Counted(f, Q)
        BY <2>2
      <4> HIDE DEF keys, f
      <4>3. Counted(FrontierAdd(keys, f, s), Q)
        BY <2>3, <4>2, AddCounted
      <4> QED BY <2>2, <2>3, <4>1, <4>3 DEF Alone
    <3> QED BY <2>1, <3>1, <3>2
  <2>5. Settled(node)' = Q
    BY <2>1, <2>2 DEF Settled
  <2>6. Right(node)'
    BY <2>1 DEF Right, Explained
  <2>7. Counted(graph.frontier, Settled(node))'
    BY <2>4, <2>5 DEF Counted
  <2>8. (Alone(graph.addedLast) /\ Precise)'
    BY <2>1, <2>4 DEF Truthful, Alone, Precise
  <2> QED BY <2>1, <2>4, <2>5, <2>6, <2>7, <2>8 DEF Truthful
<1> QED BY <1>1, <1>2

LEMMA GraphBounded ==
  ASSUME NEW L, IInv(L), Truthful
  PROVE  Bounded(node, graph, Settled(node))
<1>1. Len(node) \in Nat /\ DOMAIN node = 1 .. Len(node) /\ \A x \in DOMAIN node : Linked(node, x)
  BY NodesFacts DEF IInv
<1>2. Ordered(node, graph)
  BY <1>1 DEF Ordered, IInv, Shape, Linked
<1> QED BY <1>2 DEF Bounded, IInv, Shape, Connected, Truthful

LEMMA ProcessTruthful ==
  ASSUME NEW L, IInv(L), Truthful, Process
  PROVE  Truthful'
<1> DEFINE s        == Head(todo)
           nodes    == Widening(s)
           partners == MergePartners(nodes, s)
<1>1. /\ pc = "expand" /\ todo # <<>>
      /\ IF partners = {} THEN MergeStop(nodes, graph)
         ELSE LET merged == Append(nodes, MergedState(nodes, s, partners))
              IN MergeStop(merged, MergedGraph(merged, partners))
  BY DEF Process
<1>2. /\ todo \in Seq(DOMAIN node) /\ Len(todo) \in Nat /\ s = todo[1] /\ 1 \in 1 .. Len(todo)
      /\ s \in DOMAIN node
  BY <1>1 DEF IInv, Pending
<1>3. /\ s # 1 /\ ~node[s].widened /\ \A x \in DOMAIN node : s \notin node[x].preds
      /\ task \in Tasks /\ NodesOK(node, L)
  BY <1>2 DEF IInv, Pending
<1> HIDE DEF s
<1>4. /\ Right(nodes) /\ Settled(node) \subseteq Settled(nodes) /\ s \in Settled(nodes)
      /\ nodes[s].control \notin task.heads => nodes = node
  BY <1>2, <1>3, WideningRight DEF Truthful
<1>5. partners # {} => nodes = node
  BY <1>4 DEF MergePartners
<1> HIDE DEF nodes
<1>6. /\ DOMAIN graph = {"reached", "addedLast", "frontier"} /\ Alone(graph.addedLast)
      /\ graph.reached \subseteq Settled(node) /\ Counted(graph.frontier, Settled(node))
  BY DEF IInv, Shape, Truthful
<1>7. CASE partners = {}
  <2>1. Settle(nodes, graph, StopsAt(nodes, graph, s))
    BY <1>1, <1>7 DEF MergeStop, s
  <2>2. graph.reached \subseteq Settled(nodes) /\ Counted(graph.frontier, Settled(nodes))
    BY <1>4, <1>6 DEF Counted
  <2> QED BY <1>1, <1>4, <1>6, <2>1, <2>2, SettleTruthful DEF s
<1>8. CASE partners # {}
  <2>0. nodes = node /\ partners = MergePartners(node, s)
    BY <1>5, <1>8
  <2> HIDE DEF partners
  <2> DEFINE m       == MergedState(node, s, partners)
             merged  == Append(node, m)
             g       == MergedGraph(merged, partners)
             covered == StopsAt(merged, g, s)
  <2>1. Settle(merged, g, covered)
    BY <1>1, <1>8, <2>0 DEF MergeStop, s
  <2>2. node[s].preds # {} /\ partners \subseteq graph.reached
    <3>1. Linked(node, s)
      BY <1>2, <1>3, NodesFacts
    <3> QED BY <3>1, <1>3, <2>0 DEF Linked, MergePartners
  <2>3. Continues(node, m) /\ m.control = node[s].control
    BY <1>2, <1>3, <1>8, <2>0, <2>2, MergedContinues
  <2>4. \A p \in m.preds, u, v \in Values :
          <<node[node[p].block].control, u>> \in Executed(task) /\ <<u, v>> \in m.formula
            => <<Widens(task, m.control), v>> \in Executed(task)
    BY <1>2, <1>3, <1>4, <1>8, <2>0, <2>2, MergedExplained
  <2>5. node[s].control \notin task.heads
    BY <1>8, <2>0 DEF MergePartners
  <2> HIDE DEF m, covered
  <2>6. /\ node \in Seq(NodeType) /\ Len(node) \in Nat /\ DOMAIN node = 1 .. Len(node)
        /\ m \in NodeType /\ <<m>> \in Seq(NodeType) /\ DOMAIN <<m>> = {1} /\ <<m>>[1] = m
    BY <1>3, <2>3, NodesFacts DEF Continues
  <2>7. /\ merged = node \o <<m>>
        /\ Len(merged) = Len(node) + 1 /\ Len(merged) = Fresh
        /\ DOMAIN merged = 1 .. Len(merged)
        /\ \A x \in DOMAIN node : merged[x] = node[x]
        /\ merged[Fresh] = m /\ Fresh \in DOMAIN merged
    BY <2>6 DEF Fresh
  <2> HIDE DEF merged
  <2>8. Right(merged) /\ Settled(node) \subseteq Settled(merged)
    <3>1. \A i \in DOMAIN <<m>> : /\ ~<<m>>[i].widened /\ <<m>>[i].preds \subseteq DOMAIN node
                                  /\ \A p \in <<m>>[i].preds, u, v \in Values :
                                       /\ <<node[node[p].block].control, u>> \in Executed(task)
                                       /\ <<u, v>> \in <<m>>[i].formula
                                       => <<Widens(task, <<m>>[i].control), v>> \in Executed(task)
      BY <2>3, <2>4, <2>6 DEF Continues
    <3>2. Right(node \o <<m>>) /\ Settled(node) \subseteq Settled(node \o <<m>>)
      BY <1>3, <2>6, <3>1, GrownRight DEF Truthful
    <3> QED BY <2>7, <3>2
  <2>9. PICK Q : Q = Settled(merged)
    OBVIOUS
  <2>10. Fresh \in Q /\ s \in Q
    BY <1>2, <1>4, <2>0, <2>3, <2>5, <2>7, <2>8, <2>9 DEF Settled
  <2>11. Bounded(node, graph, Q)
    BY <2>8, <2>9, GraphBounded DEF Bounded, Counted
  <2>12. CASE Faults(merged, g, s, covered) # {}
    <3>1. Throw(Faults(merged, g, s, covered))
      BY <2>1, <2>12, Zenon DEF Settle, s
    <3> HIDE DEF g
    <3> QED BY <3>1, TruthfulStays DEF Throw
  <2>13. CASE Faults(merged, g, s, covered) = {}
    <3>1. m.preds \subseteq graph.reached
      <4>1. Fresh \in DOMAIN merged \ DOMAIN node
        BY <2>6, <2>7
      <4> QED BY <2>7, <2>13, <4>1 DEF Faults, Orphan
    <3>2. Bounded(merged, g, Q)
      BY <2>2, <2>6, <2>7, <2>10, <2>11, <3>1, MergedCounted
    <3>3. Alone(g.addedLast)
      <4>1. Ordered(merged, [reached |-> graph.reached \cup {Fresh}])
        <5>1. Ordered(node, graph)
          BY <2>11 DEF Bounded
        <5>2. m.preds \subseteq 1 .. Len(node) /\ Fresh = Len(node) + 1
          BY <2>6, <2>7, <2>3 DEF Continues
        <5> QED BY <2>6, <2>7, <5>1, <5>2 DEF Ordered
      <4>2. g.addedLast \subseteq {Fresh}
        BY <1>6, <2>2, <4>1, MergedGraphHolds
      <4> QED BY <4>2 DEF Alone
    <3> HIDE DEF g
    <3>4. /\ g.reached \subseteq Settled(merged) /\ Counted(g.frontier, Settled(merged))
          /\ DOMAIN g = {"reached", "addedLast", "frontier"} /\ s \in Settled(merged)
      BY <2>9, <2>10, <3>2 DEF Bounded
    <3> QED BY <1>1, <2>1, <2>8, <3>3, <3>4, SettleTruthful DEF s
  <2> QED BY <2>12, <2>13
<1> QED BY <1>7, <1>8

LEMMA RestartTruthful ==
  ASSUME NEW L, IInv(L), Truthful, pc = "check", NEW found, Restart(found)
  PROVE  Truthful'
<1> DEFINE children == {y \in graph.reached : 1 \in node[y].preds}
           w == Waiting(node, graph, 1)
           g == Removed(node, w, children)
           n == Max(StillNamed(g))
           q == SubSeq(node, 1, n)
           keys == Keys(node)
<1>1. /\ graph' = g /\ node' = q /\ UNCHANGED <<task, verdict>>
  BY DEF Restart
<1>2. /\ node \in Seq(NodeType) /\ Len(node) \in Nat /\ Len(node) >= 1 /\ DOMAIN node = 1 .. Len(node)
      /\ node[1] = Root /\ \A x \in DOMAIN node : Linked(node, x)
      /\ Shape /\ task \in Tasks
  BY NodesFacts DEF IInv
<1>3. PICK Q : Q = Settled(node)
  OBVIOUS
<1>4. 1 \in Q /\ Q \subseteq DOMAIN node
  BY <1>2, <1>3 DEF Settled
<1>5. Bounded(node, graph, Q)
  BY <1>3, GraphBounded
<1>6. Bounded(node, w, Q)
  <2>1. /\ DOMAIN w = {"reached", "addedLast", "frontier"} /\ w.reached = graph.reached
        /\ w.frontier = FrontierAdd(keys, graph.frontier, 1)
    BY <1>5 DEF Waiting, Bounded
  <2> HIDE DEF w, keys
  <2>2. Counted(w.frontier, Q)
    BY <1>4, <1>5, <2>1, AddCounted DEF Bounded
  <2> QED BY <1>5, <2>1, <2>2 DEF Bounded, Ordered
<1>7. children \subseteq 1 .. Len(node)
  BY <1>2 DEF Shape
<1> HIDE DEF w, children
<1>8. Bounded(node, g, Q)
  BY <1>2, <1>6, <1>7, RemovedCounted
<1> HIDE DEF g
<1>9. n \in 1 .. Len(node) /\ DOMAIN g.frontier.heap \subseteq 1 .. n
  <2>1. StillNamed(g) \in SUBSET (1 .. Len(node)) /\ 1 \in StillNamed(g)
    BY <1>2 DEF StillNamed
  <2>2. n \in 1 .. Len(node) /\ \A y \in StillNamed(g) : y <= n
    BY <1>2, <2>1, SomeKept
  <2>3. DOMAIN g.frontier.heap \subseteq StillNamed(g)
    BY <1>4, <1>8 DEF Bounded, Counted, StillNamed
  <2> HIDE DEF n
  <2> QED BY <2>1, <2>2, <2>3
<1> HIDE DEF n
<1>10. DOMAIN q = 1 .. n /\ \A x \in 1 .. n : q[x] = node[x]
  <2>1. 1 \in Int /\ n \in Int /\ \A i \in 1 .. n : node[i] \in NodeType
    BY <1>2, <1>9
  <2>2. /\ q \in Seq(NodeType)
        /\ Len(q) = IF 1 <= n THEN n - 1 + 1 ELSE 0
        /\ \A i \in 1 .. n - 1 + 1 : q[i] = node[1 + i - 1]
    BY <2>1, SubSeqProperties
  <2> HIDE DEF q
  <2>3. 1 <= n /\ n - 1 + 1 = n /\ \A i \in 1 .. n : 1 + i - 1 = i
    BY <1>9
  <2> QED BY <2>2, <2>3
<1> HIDE DEF q
<1>11. Right(q)
  <2> SUFFICES ASSUME NEW x \in DOMAIN q PROVE Explained(q, x)
    BY DEF Right
  <2>1. x \in 1 .. n /\ x \in DOMAIN node /\ q[x] = node[x] /\ Explained(node, x)
    BY <1>2, <1>9, <1>10 DEF Truthful, Right
  <2>2. \A p \in node[x].preds : p \in 1 .. n /\ node[p].block \in 1 .. n
    <3>1. \A p \in node[x].preds : p \in 1 .. x - 1 /\ p \in DOMAIN node
      BY <1>2, <2>1 DEF Linked
    <3>2. \A p \in DOMAIN node : node[p].block \in DOMAIN node /\ node[p].block <= p
      BY <1>2 DEF Linked
    <3> QED BY <1>2, <1>9, <2>1, <3>1, <3>2
  <2>3. \A p \in node[x].preds : q[p] = node[p] /\ q[node[p].block] = node[node[p].block]
    BY <1>10, <2>2
  <2> QED BY <2>1, <2>3, SameExplained
<1>12. Right(node)'
  BY <1>1, <1>11 DEF Right, Explained
<1>13. (graph.reached \subseteq {1} /\ graph.addedLast \subseteq {1})' /\ node'[1] = Root
  <2>1. IInv({1})'
    BY RestartIInv
  <2>2. (graph.reached \subseteq {1} /\ Shape)'
    BY <2>1 DEF IInv
  <2>3. node'[1] = Root
    BY <1>1, <1>2, <1>9, <1>10
  <2> QED BY <2>2, <2>3 DEF Shape
<1>14. Settled(node)' = Settled(q)
  BY <1>1 DEF Settled
<1>15. 1 \in Settled(q) /\ DOMAIN g.frontier.heap \subseteq Settled(q)
  <2>1. \A x \in Q : x \in 1 .. n => x \in Settled(q)
    BY <1>3, <1>10 DEF Settled
  <2>2. 1 \in 1 .. n
    BY <1>2, <1>9
  <2> QED BY <1>4, <1>8, <1>9, <2>1, <2>2 DEF Bounded, Counted
<1>16. (graph.reached \subseteq Settled(node))'
  BY <1>13, <1>14, <1>15
<1>17. Counted(graph.frontier, Settled(node))'
  <2>1. Counted(g.frontier, Settled(q))
    BY <1>8, <1>15 DEF Bounded, Counted
  <2> QED BY <1>1, <1>14, <2>1 DEF Counted
<1>18. (pc = "report" => \A x \in graph.addedLast : Target(x) \subseteq task.wrong)'
  BY <1>1, <1>2, <1>13, ExecutionFacts DEF Target, Root
<1>19. (Alone(graph.addedLast) /\ Precise)'
  BY <1>1, <1>13 DEF Alone, Truthful, Precise
<1> QED BY <1>12, <1>16, <1>17, <1>18, <1>19 DEF Truthful

(* The starts of blocks along a trace follow each other. *)
Follow(t) ==
  \A i \in 1 .. Len(t) :
    /\ node[t[i]].widened
    /\ \E p \in node[t[i]].preds : node[p].block = IF i = 1 THEN 1 ELSE t[i - 1]

LEMMA TraceFollows ==
  ASSUME NEW L, NodesOK(node, L), NEW U, Traced(node, U, L)
  PROVE  \A b \in DOMAIN node : Starts(node, b) => Follow(U[b])
<1> DEFINE Bad == {b \in DOMAIN node : Starts(node, b) /\ ~Follow(U[b])}
<1>1. /\ Len(node) \in Nat /\ DOMAIN node = 1 .. Len(node) /\ node[1] = Root
      /\ \A y \in DOMAIN node : Linked(node, y)
  BY NodesFacts
<1>2. /\ U \in [DOMAIN node -> Seq(DOMAIN node)] /\ U[1] = <<>>
      /\ \A y \in DOMAIN node : node[y].widened =>
           /\ U[y] # <<>> /\ U[y][Len(U[y])] = y
           /\ \A p \in node[y].preds : U[y] = Append(U[node[p].block], y)
  BY DEF Traced
<1>3. CASE Bad # {}
  <2>1. Bad \in SUBSET Nat
    BY <1>1
  <2>2. PICK b \in Bad : \A k \in Bad : b <= k
    <3> HIDE DEF Bad
    <3> QED BY <1>3, <2>1, LeastElement
  <2>3. b \in DOMAIN node /\ Starts(node, b) /\ ~Follow(U[b]) /\ b \in Nat
    BY <1>1
  <2>4. b # 1
    <3>1. Len(<<>>) = 0
      OBVIOUS
    <3>2. Follow(<<>>)
      BY <3>1 DEF Follow
    <3> QED BY <1>2, <2>3, <3>2
  <2>5. node[b].widened /\ Linked(node, b) /\ node[b].preds # {}
    BY <1>1, <2>3, <2>4 DEF Starts, Linked
  <2>6. PICK p \in node[b].preds : p \in DOMAIN node /\ p \in 1 .. b - 1
    BY <1>1, <2>3, <2>5 DEF Linked
  <2> DEFINE c == node[p].block
             V == U[c]
  <2>7. c \in DOMAIN node /\ Starts(node, c) /\ c <= p /\ c \in Nat
    BY <1>1, <2>6 DEF Linked
  <2> HIDE DEF c
  <2>8. Follow(V)
    <3>1. c \notin Bad
      BY <2>2, <2>3, <2>6, <2>7
    <3> QED BY <2>7, <3>1
  <2>9. U[b] = Append(V, b) /\ V \in Seq(DOMAIN node) /\ Len(V) \in Nat
    <3>1. U[b] = Append(U[node[p].block], b)
      BY <1>2, <2>3, <2>5, <2>6
    <3>2. U[b] = Append(V, b)
      BY <3>1 DEF c
    <3>3. V \in Seq(DOMAIN node)
      BY <1>2, <2>7
    <3> HIDE DEF V
    <3> QED BY <3>2, <3>3
  <2>10. c = IF Len(V) = 0 THEN 1 ELSE V[Len(V)]
    <3>1. CASE c = 1
      BY <1>2, <3>1
    <3>2. CASE node[c].widened
      BY <1>2, <2>7, <2>9, <3>2
    <3> QED BY <2>7, <3>1, <3>2 DEF Starts
  <2> HIDE DEF V
  <2>11. ASSUME NEW i \in 1 .. Len(U[b])
         PROVE  /\ node[U[b][i]].widened
                /\ \E q \in node[U[b][i]].preds : node[q].block = IF i = 1 THEN 1 ELSE U[b][i - 1]
    <3>1. /\ Len(U[b]) = Len(V) + 1 /\ U[b][Len(V) + 1] = b
          /\ \A k \in 1 .. Len(V) : U[b][k] = V[k]
      BY <2>3, <2>9
    <3>2. CASE i \in 1 .. Len(V)
      <4>1. i # 1 => i - 1 \in 1 .. Len(V)
        BY <2>9, <3>2
      <4> QED BY <2>8, <3>1, <3>2, <4>1 DEF Follow
    <3>3. CASE i = Len(V) + 1
      <4>1. i # 1 => Len(V) \in 1 .. Len(V) /\ i - 1 = Len(V)
        BY <2>9, <3>3
      <4>2. node[p].block = IF i = 1 THEN 1 ELSE U[b][i - 1]
        BY <2>9, <2>10, <3>1, <3>3, <4>1 DEF c
      <4>3. U[b][i] = b
        BY <3>1, <3>3
      <4> QED BY <2>5, <2>6, <4>2, <4>3
    <3> QED BY <2>9, <3>1, <3>2, <3>3
  <2>12. Follow(U[b])
    BY <2>11 DEF Follow
  <2> QED BY <2>3, <2>12
<1>4. CASE Bad = {}
  BY <1>4
<1> QED BY <1>3, <1>4

(* Executions come with the values that pass the first blocks of a trace to   *)
(* where they end.                                                           *)
LEMMA PassedExecuted ==
  ASSUME task \in Tasks, NEW L, NodesOK(node, L), Right(node),
         NEW blocks \in Seq(Relations), NEW t \in Seq(DOMAIN node), Follow(t), Len(blocks) >= Len(t),
         \A i \in 1 .. Len(t) : blocks[i] = node[t[i]].formula
  PROVE  \A i \in 0 .. Len(t) : \A u \in Passed(blocks)[i] :
           u \in Values /\ <<node[IF i = 0 THEN 1 ELSE t[i]].control, u>> \in Executed(task)
<1> DEFINE n       == Len(t)
           f       == Passed(blocks)
           at(i)   == IF i = 0 THEN 1 ELSE t[i]
           Good(i) == \A u \in f[i] : u \in Values /\ <<node[at(i)].control, u>> \in Executed(task)
           Bad     == {i \in 0 .. n : ~Good(i)}
<1>1. /\ node[1] = Root /\ \A y \in DOMAIN node : Linked(node, y)
      /\ n \in Nat /\ Len(blocks) \in Nat /\ n <= Len(blocks) /\ DOMAIN t = 1 .. n
  BY NodesFacts
<1>2. f[0] = Values /\ \A i \in 1 .. Len(blocks) : f[i] = Image(blocks[i], f[i - 1])
  BY PassedSteps
<1> HIDE DEF f, n
<1>3. Good(0)
  BY <1>1, <1>2, ExecutionFacts DEF Root
<1>4. ASSUME NEW i \in 1 .. n, Good(i - 1) PROVE Good(i)
  <2> SUFFICES ASSUME NEW u \in f[i]
               PROVE  u \in Values /\ <<node[at(i)].control, u>> \in Executed(task)
    OBVIOUS
  <2>1. i \in 1 .. Len(blocks) /\ i # 0 /\ t[i] \in DOMAIN node
    BY <1>1
  <2>2. f[i] = Image(node[t[i]].formula, f[i - 1])
    BY <1>2, <2>1 DEF n
  <2>3. u \in Values /\ \E w \in f[i - 1] : <<w, u>> \in node[t[i]].formula
    BY <2>2 DEF Image
  <2>4. PICK w \in f[i - 1] : <<w, u>> \in node[t[i]].formula
    BY <2>3
  <2>5. w \in Values /\ <<node[at(i - 1)].control, w>> \in Executed(task)
    BY <1>4
  <2>6. node[t[i]].widened /\ \E p \in node[t[i]].preds : node[p].block = IF i = 1 THEN 1 ELSE t[i - 1]
    BY DEF Follow, n
  <2>7. at(i - 1) = IF i = 1 THEN 1 ELSE t[i - 1]
    BY <1>1
  <2>8. PICK p \in node[t[i]].preds : node[p].block = at(i - 1)
    BY <2>6, <2>7
  <2>9. <<Widens(task, node[t[i]].control), u>> \in Executed(task)
    BY <2>1, <2>3, <2>4, <2>5, <2>8 DEF Right, Explained
  <2>10. Widens(task, node[t[i]].control) = node[t[i]].control
    BY <2>1, <2>6 DEF Right, Explained
  <2> QED BY <2>1, <2>3, <2>9, <2>10
<1>5. \A i \in 0 .. n : Good(i)
  <2> HIDE DEF Good
  <2>1. CASE Bad # {}
    <3>1. Bad \in SUBSET Nat
      BY <1>1
    <3>2. PICK m \in Bad : \A j \in Bad : m <= j
      <4> HIDE DEF Bad
      <4> QED BY <2>1, <3>1, LeastElement
    <3>3. m \in 0 .. n /\ ~Good(m)
      OBVIOUS
    <3>4. m \in 1 .. n /\ m - 1 \in 0 .. n /\ ~(m <= m - 1)
      BY <1>1, <1>3, <3>3
    <3>5. Good(m - 1)
      BY <3>2, <3>4
    <3> QED BY <1>4, <3>3, <3>4, <3>5
  <2> QED BY <2>1
<1> QED BY <1>5 DEF f, n

LEMMA TargetWrong ==
  ASSUME NEW L, IInv(L), Right(node), pc = "check", NEW x \in Targets, NEW trace \in Traces(x),
         FeasibleTrace(Blocks(trace, x))
  PROVE  Target(x) \subseteq task.wrong
<1> DEFINE b      == node[x].block
           n      == Len(trace) + 1
           blocks == Blocks(trace, x)
           c      == node[x].control
<1>1. /\ task \in Tasks /\ NodesOK(node, L)
      /\ node[1] = Root /\ \A y \in DOMAIN node : node[y] \in NodeType /\ Linked(node, y)
  BY NodesFacts DEF IInv
<1>2. x \in DOMAIN node /\ task.error[c] # {} /\ c \in Controls
  BY <1>1 DEF IInv, Shape, Targets, Target, NodeType
<1>3. c \notin task.heads /\ ~node[x].widened /\ x # 1
  <2>1. c \notin task.heads
    BY <1>1, <1>2, TaskFacts
  <2>2. x # 1
    BY <1>1, <1>2, ExecutionFacts DEF Root
  <2> QED BY <1>1, <1>2, <2>1, <2>2 DEF Linked
<1>4. PICK U : Traced(node, U, L)
  BY <1>1 DEF NodesOK
<1>5. b \in DOMAIN node /\ Starts(node, b)
  BY <1>1, <1>2 DEF Linked
<1>6. trace = U[b] /\ trace \in Seq(DOMAIN node)
  <2>1. Traces(x) = {U[b]}
    BY <1>1, <1>2, <1>4, OnlyTrace
  <2> QED BY <1>4, <1>5, <2>1 DEF Traced
<1>7. Follow(trace)
  BY <1>1, <1>4, <1>5, <1>6, TraceFollows
<1>8. b = IF Len(trace) = 0 THEN 1 ELSE trace[Len(trace)]
  <2>1. CASE b = 1
    BY <1>4, <1>6, <2>1 DEF Traced
  <2>2. CASE node[b].widened
    <3>1. trace # <<>> /\ trace[Len(trace)] = b
      BY <1>4, <1>5, <1>6, <2>2 DEF Traced
    <3> QED BY <1>6, <3>1
  <2> QED BY <1>5, <2>1, <2>2 DEF Starts
<1>9. /\ Len(trace) \in Nat /\ n \in Nat /\ n >= 1 /\ n - 1 = Len(trace)
      /\ \A i \in 1 .. Len(trace) : Append(trace, x)[i] = trace[i] /\ i \in 1 .. n
      /\ Append(trace, x)[n] = x
  BY <1>2, <1>6
<1>10. blocks \in Seq(Relations)
  BY TargetSummaries
<1>11. blocks = [i \in 1 .. n |-> node[Append(trace, x)[i]].formula]
  BY DEF Blocks
<1> HIDE DEF n, blocks
<1>12. /\ Len(blocks) = n /\ blocks[n] = node[x].formula
       /\ \A i \in 1 .. Len(trace) : blocks[i] = node[trace[i]].formula
  <2>1. DOMAIN blocks = 1 .. n
    BY <1>11
  <2>2. Len(blocks) = n
    <3> HIDE DEF Relations
    <3> QED BY <1>9, <1>10, <2>1
  <2> QED BY <1>9, <1>11, <2>2
<1> DEFINE f == Passed(blocks)
<1>13. f[n] = Image(node[x].formula, f[n - 1])
  <2>1. n \in 1 .. Len(blocks)
    BY <1>9, <1>12
  <2> QED BY <1>10, <1>12, <2>1, PassedSteps
<1>14. f[n] # {}
  BY <1>12 DEF FeasibleTrace, blocks
<1>15. PICK v : v \in Values /\ \E u \in f[n - 1] : <<u, v>> \in node[x].formula
  BY <1>13, <1>14 DEF Image
<1>16. PICK u \in f[n - 1] : <<u, v>> \in node[x].formula
  BY <1>15
<1>17. u \in Values /\ <<node[b].control, u>> \in Executed(task)
  <2>1. n - 1 \in 0 .. Len(trace) /\ Len(blocks) >= Len(trace)
    BY <1>9, <1>12
  <2>2. \A i \in 0 .. Len(trace) : \A w \in f[i] :
          w \in Values /\ <<node[IF i = 0 THEN 1 ELSE trace[i]].control, w>> \in Executed(task)
    <3> HIDE DEF Relations
    <3> QED BY <1>1, <1>6, <1>7, <1>10, <1>12, <2>1, PassedExecuted
  <2>3. b = IF n - 1 = 0 THEN 1 ELSE trace[n - 1]
    BY <1>8, <1>9
  <2> HIDE DEF b, f
  <2> QED BY <1>16, <2>1, <2>2, <2>3
<1>18. PICK p \in node[x].preds : node[p].block = b
  BY <1>1, <1>2, <1>3 DEF Linked
<1>19. <<Widens(task, c), v>> \in Executed(task)
  BY <1>2, <1>15, <1>16, <1>17, <1>18 DEF Right, Explained
<1>20. Widens(task, c) = c
  BY <1>1, <1>2, <1>3, ExecutionFacts
<1>21. <<c, v>> \in Executed(task)
  BY <1>19, <1>20
<1>22. task.error[<<c, v>>[1]] \subseteq task.wrong
  BY <1>1, <1>21, ExecutionFacts
<1> QED BY <1>22 DEF Target

LEMMA CheckTruthful ==
  ASSUME NEW L, IInv(L), Truthful, Check
  PROVE  Truthful'
<1>1. /\ pc = "check" /\ UNCHANGED <<task, node, graph, verdict>>
      /\ Targets = {} \/ \E x \in Targets : \E trace \in Traces(x) : FeasibleTrace(Blocks(trace, x))
  BY DEF Check
<1>2. \A x \in graph.addedLast : Target(x) \subseteq task.wrong
  <2>1. CASE Targets = {}
    BY <2>1 DEF Targets
  <2>2. ASSUME NEW x \in Targets, NEW trace \in Traces(x), FeasibleTrace(Blocks(trace, x))
        PROVE  \A y \in graph.addedLast : Target(y) \subseteq task.wrong
    <3>1. Target(x) \subseteq task.wrong
      BY <1>1, <2>2, TargetWrong DEF Truthful
    <3>2. \A y \in graph.addedLast : y = x
      BY DEF Truthful, Alone, Targets
    <3> QED BY <3>1, <3>2
  <2> QED BY <1>1, <2>1, <2>2
<1>3. (\A x \in graph.addedLast : Target(x) \subseteq task.wrong)'
  BY <1>1, <1>2 DEF Target
<1>4. (Right(node) /\ graph.reached \subseteq Settled(node) /\ Alone(graph.addedLast) /\ Precise)'
  BY <1>1 DEF Truthful, Right, Explained, Settled, Alone, Precise
<1>5. Settled(node)' = Settled(node)
  BY <1>1 DEF Settled
<1>6. PICK Q : Q = Settled(node)
  OBVIOUS
<1>7. Counted(graph.frontier, Q)'
  BY <1>1, <1>6 DEF Truthful, Counted
<1>8. Counted(graph.frontier, Settled(node))'
  BY <1>5, <1>6, <1>7
<1> QED BY <1>3, <1>4, <1>8 DEF Truthful

LEMMA ReportTruthful ==
  ASSUME Truthful, VerdictShape, Report
  PROVE  Truthful'
<1> DEFINE found == UNION {Target(x) : x \in graph.addedLast}
<1>1. pc = "report" /\ pc' # "report" /\ UNCHANGED <<task, node, graph>>
  BY DEF Report
<1>2. found \subseteq task.wrong
  BY <1>1 DEF Truthful
<1> HIDE DEF found
<1>3. verdict'.violated = verdict.violated \cup found
  BY ReportHolds DEF found
<1>4. Precise'
  BY <1>1, <1>2, <1>3 DEF Truthful, Precise
<1>5. (Right(node) /\ graph.reached \subseteq Settled(node) /\ Alone(graph.addedLast))'
  BY <1>1 DEF Truthful, Right, Explained, Settled, Alone
<1>6. Settled(node)' = Settled(node)
  BY <1>1 DEF Settled
<1>7. PICK Q : Q = Settled(node)
  OBVIOUS
<1>8. Counted(graph.frontier, Q)'
  BY <1>1, <1>7 DEF Truthful, Counted
<1>9. Counted(graph.frontier, Settled(node))'
  BY <1>6, <1>7, <1>8
<1> QED BY <1>1, <1>4, <1>5, <1>9 DEF Truthful

LEMMA InitTruthful == Init => Truthful /\ Decided
<1> SUFFICES ASSUME Init PROVE Truthful /\ Decided
  OBVIOUS
<1> DEFINE keys == Keys(node)
<1>1. /\ node = <<Root>> /\ graph.reached = {1} /\ graph.addedLast = {1}
      /\ graph.frontier = FrontierAdd(keys, EmptyFrontier, 1)
      /\ pc = "begin" /\ verdict = [violated |-> {}, satisfied |-> {}, unknown |-> Properties]
  BY DEF Init
<1> HIDE DEF keys
<1>2. DOMAIN node = {1} /\ node[1] = Root
  BY <1>1
<1>3. Right(node)
  BY <1>2 DEF Right, Explained, Root
<1>4. Settled(node) = {1}
  BY <1>2 DEF Settled
<1>5. Counted(EmptyFrontier, {1})
  BY FS_EmptySet DEF Counted, EmptyFrontier, EmptyBag, SetToBag
<1>6. Counted(graph.frontier, {1})
  BY <1>1, <1>5, AddCounted
<1>7. Truthful
  BY <1>1, <1>3, <1>4, <1>6 DEF Truthful, Alone, Precise
<1> QED BY <1>1, <1>7 DEF Decided, VerdictShape

(* Every step but that of Report leaves the verdicts alone, and none follows  *)
(* the end.                                                                  *)
LEMMA OtherSteps ==
  ASSUME [Next]_allVars, ~Report
  PROVE  UNCHANGED <<task, verdict>> /\ (pc = "done" => pc' = "done")
<1>1. CASE Choose
  <2>1. PICK e \in DOMAIN node : UNCHANGED <<task, verdict>>
    BY <1>1 DEF Choose, Expand, Throw
  <2> QED BY <1>1, <2>1 DEF Choose
<1>2. CASE Process
  <2>1. \A nodes, g : MergeStop(nodes, g) => UNCHANGED <<task, verdict>>
    BY DEF MergeStop, Settle, Throw
  <2>2. pc = "expand" /\ \E nodes, g : MergeStop(nodes, g)
    BY <1>2 DEF Process
  <2> QED BY <2>1, <2>2
<1>3. CASE Check
  BY <1>3 DEF Check
<1>4. CASE Refine
  <2>1. pc = "check"
    BY <1>4 DEF Refine
  <2>2. Throw({"no_interpolants"}) \/ \E found : Restart(found)
    BY <1>4, Zenon DEF Refine
  <2>3. \A found : Restart(found) => UNCHANGED <<task, verdict>>
    BY DEF Restart
  <2> QED BY <2>1, <2>2, <2>3 DEF Throw
<1>5. CASE Begin \/ Expanded \/ Explored
  BY <1>5 DEF Begin, Expanded, Explored
<1>6. CASE UNCHANGED allVars
  BY <1>6 DEF allVars, vars
<1> QED BY <1>1, <1>2, <1>3, <1>4, <1>5, <1>6 DEF Next

LEMMA NextTruthful ==
  ASSUME NEW L, IInv(L), Truthful, VerdictShape, [Next]_allVars
  PROVE  Truthful'
<1>1. CASE Choose
  BY <1>1, ChooseTruthful
<1>2. CASE Process
  BY <1>2, ProcessTruthful
<1>3. CASE Check
  BY <1>3, CheckTruthful
<1>4. CASE Refine
  <2>1. CASE \E found : Restart(found)
    BY <1>4, <2>1, RestartTruthful DEF Refine
  <2>2. CASE ~ \E found : Restart(found)
    <3>1. Throw({"no_interpolants"})
      BY <1>4, <2>2, Zenon DEF Refine
    <3> QED BY <3>1, TruthfulStays DEF Throw
  <2> QED BY <2>1, <2>2
<1>5. CASE Report
  BY <1>5, ReportTruthful
<1>6. CASE Begin \/ Expanded \/ Explored
  BY <1>6, TruthfulStays DEF Begin, Expanded, Explored
<1>7. CASE UNCHANGED allVars
  BY <1>7, TruthfulStays DEF allVars, vars
<1> QED BY <1>1, <1>2, <1>3, <1>4, <1>5, <1>6, <1>7 DEF Next

(* What executions violate are properties. *)
LEMMA WrongProperties ==
  ASSUME task \in Tasks
  PROVE  task.wrong \subseteq Properties
<1>1. /\ task.wrong = UNION {task.error[s[1]] : s \in Executed(task)}
      /\ \A c \in Controls : task.error[c] \subseteq Properties
  BY PredicateTasksAssumption DEF IsTask, Controls
<1>2. \A s \in Executed(task) : s[1] \in Controls
  <2>1. Executed(task) \in SUBSET (Controls \X Values)
    BY ExecutionFacts
  <2> HIDE DEF Controls
  <2> QED BY <2>1
<1> QED BY <1>1, <1>2

LEMMA NextDecided ==
  ASSUME task \in Tasks, Truthful, Decided, [Next]_allVars
  PROVE  Decided'
<1>1. CASE Report
  <2> DEFINE found == UNION {Target(x) : x \in graph.addedLast}
  <2>1. pc = "report" /\ found \subseteq Properties
    BY <1>1, WrongProperties DEF Report, Truthful
  <2> HIDE DEF found
  <2>2. /\ VerdictShape'
        /\ verdict'.violated = verdict.violated \cup found
        /\ \/ /\ verdict'.satisfied = verdict.satisfied
              /\ verdict'.unknown = verdict.unknown \ (verdict.violated \cup found)
           \/ /\ verdict'.satisfied = verdict.unknown \ (verdict.violated \cup found)
              /\ verdict'.unknown = {}
              /\ pc' = "done"
    BY <1>1, ReportHolds DEF Decided, found
  <2> QED BY <2>1, <2>2 DEF Decided
<1>2. CASE ~Report
  BY <1>2, OtherSteps DEF Decided, VerdictShape
<1> QED BY <1>1, <1>2

LEMMA Truthfulness == Spec => [](Consistent /\ Truthful /\ Decided)
<1>1. Init => Truthful /\ Decided
  BY InitTruthful
<1>2. Consistent /\ Truthful /\ Decided /\ [Next]_allVars => Truthful' /\ Decided'
  <2> SUFFICES ASSUME Consistent, Truthful, Decided, [Next]_allVars PROVE Truthful' /\ Decided'
    OBVIOUS
  <2>1. PICK L : IInv(L)
    BY DEF Consistent
  <2>2. task \in Tasks
    BY <2>1 DEF IInv
  <2> QED BY <2>1, <2>2, NextTruthful, NextDecided DEF Decided
<1> QED BY Invariance, <1>1, <1>2, PTL DEF Spec

(* A property is reported as violated only if some execution violates it, for *)
(* all programs, predicates and orders of exploration: the formulas of the    *)
(* blocks on one way to a target, those of merged states among them, describe *)
(* executions only (AbstractionRefiner.checkIsFeasible).                     *)
THEOREM PreciseCorrect == Spec => []Precise
<1>1. Truthful => Precise
  BY DEF Truthful
<1> QED BY <1>1, Truthfulness, PTL

-----------------------------------------------------------------------------
(* The refinement of Verdicts: what the callback is told.                    *)

(* Report is a step of Find or Complete. *)
LEMMA ReportPromised ==
  ASSUME task \in Tasks, Truthful, Decided, Precise', Sound', Report
  PROVE  Promise!Next
<1> DEFINE found == UNION {Target(x) : x \in graph.addedLast}
<1>1. /\ pc = "report" /\ pc' \in {"done", "begin"} /\ UNCHANGED task
      /\ verdict.satisfied = {} /\ verdict.violated \cup verdict.unknown = Properties
  BY DEF Report, Decided
<1>2. found \subseteq task.wrong /\ task.wrong \subseteq Properties
  BY <1>1, WrongProperties DEF Truthful
<1> HIDE DEF found
<1>3. /\ verdict'.violated = verdict.violated \cup found
      /\ \/ /\ verdict'.satisfied = verdict.satisfied
            /\ verdict'.unknown = verdict.unknown \ (verdict.violated \cup found)
         \/ /\ verdict'.satisfied = verdict.unknown \ (verdict.violated \cup found)
            /\ verdict'.unknown = {}
            /\ pc' = "done"
  BY ReportHolds DEF Decided, found
<1>4. verdict'.violated \subseteq task.wrong /\ verdict'.satisfied \cap task.wrong = {}
  BY <1>1 DEF Precise, Sound
<1>5. CASE /\ verdict'.satisfied = verdict.satisfied
           /\ verdict'.unknown = verdict.unknown \ (verdict.violated \cup found)
  <2>1. \E W \in SUBSET task.wrong : /\ verdict'.violated = verdict.violated \cup W
                                     /\ verdict'.unknown = verdict.unknown \ W
    <3>1. verdict.violated \cup found \in SUBSET task.wrong
      BY <1>3, <1>4
    <3> QED BY <3>1, <1>3, <1>5
  <2> QED BY <1>1, <1>5, <2>1 DEF Promise!Next, Promise!Find
<1>6. CASE /\ verdict'.satisfied = verdict.unknown \ (verdict.violated \cup found)
           /\ verdict'.unknown = {}
           /\ pc' = "done"
  <2>1. verdict'.violated = task.wrong /\ verdict'.satisfied = Properties \ task.wrong
    BY <1>1, <1>2, <1>3, <1>4, <1>6
  <2> QED BY <1>1, <1>6, <2>1 DEF Promise!Next, Promise!Complete
<1> QED BY <1>3, <1>5, <1>6

(* Any other step is a step of Find that finds nothing, or a stutter.         *)
LEMMA OthersPromised ==
  ASSUME [Next]_allVars, ~Report
  PROVE  [Promise!Next]_(Promise!vars)
<1>1. UNCHANGED <<task, verdict>> /\ (pc = "done" => pc' = "done")
  BY OtherSteps
<1>2. CASE (pc = "done") = (pc' = "done")
  BY <1>1, <1>2 DEF Promise!vars
<1>3. CASE pc # "done" /\ pc' = "done"
  BY <1>1, <1>3 DEF Promise!Next, Promise!Find
<1> QED BY <1>1, <1>2, <1>3

(* The analysis with refinement implements Verdicts for all programs and      *)
(* predicates, as long as what it reports as satisfied is: every property     *)
(* gets a verdict once, what was found before a refinement is never taken     *)
(* back, and an exception leaves the undecided properties unknown             *)
(* (MultiPropertyAlgorithm.run, CEGARAlgorithm.run).                         *)
THEOREM VerdictsKept == Spec /\ []Sound => KeepsPromise
<1>1. Init => Promise!Init
  <2> SUFFICES ASSUME Init PROVE Promise!Init
    OBVIOUS
  <2>1. task.wrong \subseteq Properties
    BY WrongProperties DEF Init
  <2> QED BY <2>1 DEF Init, Promise!Init
<1>2. ASSUME Consistent, Truthful, Decided, Truthful', Sound', [Next]_allVars
      PROVE  [Promise!Next]_(Promise!vars)
  <2>1. task \in Tasks
    BY <1>2 DEF Consistent, IInv
  <2>2. CASE Report
    BY <1>2, <2>1, <2>2, ReportPromised DEF Truthful
  <2>3. CASE ~Report
    BY <1>2, <2>3, OthersPromised
  <2> QED BY <2>2, <2>3
<1> QED BY <1>1, <1>2, Truthfulness, PTL DEF Spec, KeepsPromise, Promise!Spec

-----------------------------------------------------------------------------
(* Programs whose states are explored in order.  For these, the steps of every *)
(* state that was expanded lead to states that are covered, although others   *)
(* are merged and removed; so nothing is overlooked, and nothing is thrown.   *)

(* The values that an abstract state stands for. *)
Has(n) == IF n.widened THEN n.entering ELSE Image(n.formula, n.entering)

LEMMA ImageComposes ==
  ASSUME NEW r, NEW s, NEW S \in SUBSET Values
  PROVE  Image(Compose(r, s), S) = Image(s, Image(r, S))
<1>1. \A u, w \in Values : <<u, w>> \in Compose(r, s) <=> \E v \in Values : <<u, v>> \in r /\ <<v, w>> \in s
  BY DEF Compose
<1>2. ASSUME NEW w \in Values
      PROVE  w \in Image(Compose(r, s), S) <=> w \in Image(s, Image(r, S))
  BY <1>1 DEF Image
<1> QED BY <1>2 DEF Image

LEMMA ImageOfIdentity ==
  ASSUME NEW S \in SUBSET Values
  PROVE  Image(Identity, S) = S
<1>1. \A u, v \in Values : <<u, v>> \in Identity <=> u = v
  BY DEF Identity
<1>2. \A v \in Values : v \in Image(Identity, S) <=> v \in S
  BY <1>1 DEF Image
<1> QED BY <1>2 DEF Image

(* A summary stands for at least the values it was computed for. *)
LEMMA AbstractionCovers ==
  ASSUME NEW S \in SUBSET Values
  PROVE  S \subseteq Abstraction(S)
BY DEF Abstraction, Strongest

(* The values of a successor are those that the step leads to. *)
LEMMA SuccessorHas ==
  ASSUME NEW e, node[e].entering \in SUBSET Values, NEW step, NEW id
  PROVE  Has(SuccessorOf(e, step, id)) = Image(step.change, Has(node[e]))
<1> DEFINE n == SuccessorOf(e, step, id)
           r == IF node[e].widened THEN Identity ELSE node[e].formula
           S == node[e].entering
<1>1. n.widened = FALSE /\ n.entering = S /\ n.formula = Compose(r, step.change)
  BY DEF SuccessorOf
<1>2. Has(node[e]) = Image(r, S)
  BY ImageOfIdentity DEF Has
<1>3. Has(n) = Image(Compose(r, step.change), S)
  <2> HIDE DEF n, r, S
  <2> QED BY <1>1 DEF Has
<1> HIDE DEF n, r, S
<1>4. S \in SUBSET Values
  BY DEF S
<1> QED BY <1>2, <1>3, <1>4, ImageComposes DEF n

(* Executions reach the least set of pairs that is closed under the steps.    *)
LEMMA ExecutedLeast ==
  ASSUME NEW k, IsTask(k), NEW T \in SUBSET Pairs(k), {0} \X Values \subseteq T,
         Leads(k, T) \subseteq T
  PROVE  Executed(k) \subseteq T
<1>1. PICK n \in Nat : \E f : Rounds(k, n, f)
  BY ExecutedInRounds
<1>2. PICK f : Rounds(k, n, f)
  BY <1>1
<1> DEFINE Round(i) == [seen |-> f[i - 1].seen \cup (Leads(k, f[i - 1].new) \ f[i - 1].seen),
                        new  |-> Leads(k, f[i - 1].new) \ f[i - 1].seen]
           In(r) == r.seen \subseteq T /\ r.new \subseteq T
           Bad == {i \in 0 .. n : ~In(f[i])}
<1>3. /\ f \in [0 .. n -> [seen : SUBSET Pairs(k), new : SUBSET Pairs(k)]]
      /\ f[0] = [seen |-> {0} \X Values, new |-> {0} \X Values]
      /\ \A i \in 1 .. n : f[i] = Round(i)
      /\ Executed(k) = f[n].seen
  BY <1>2 DEF Rounds
<1>4. In(f[0])
  <2>1. f[0].seen = {0} \X Values /\ f[0].new = {0} \X Values
    BY <1>3
  <2> QED BY <2>1
<1>5. ASSUME NEW i \in 1 .. n, In(f[i - 1]) PROVE In(f[i])
  <2>1. Leads(k, f[i - 1].new) \subseteq Leads(k, T)
    <3> DEFINE P(s) == UNION {{Widens(k, step.to)} \X Image(step.change, {s[2]}) :
                                step \in Range(k.steps[s[1]])}
    <3>1. \A S : Leads(k, S) = UNION {P(s) : s \in S}
      BY DEF Leads
    <3>2. f[i - 1].new \subseteq T
      BY <1>5
    <3> HIDE DEF P
    <3> QED BY <3>1, <3>2
  <2>2. f[i] = Round(i)
    BY <1>3
  <2>3. f[i].seen = f[i - 1].seen \cup (Leads(k, f[i - 1].new) \ f[i - 1].seen)
    BY <2>2
  <2>4. f[i].new = Leads(k, f[i - 1].new) \ f[i - 1].seen
    BY <2>2
  <2> QED BY <1>5, <2>1, <2>3, <2>4
<1> HIDE DEF In, Round
<1>6. Bad = {}
  <2> SUFFICES ASSUME Bad # {} PROVE FALSE
    OBVIOUS
  <2>1. Bad \in SUBSET Nat
    OBVIOUS
  <2>2. PICK m \in Bad : \A j \in Bad : m <= j
    <3> HIDE DEF Bad
    <3> QED BY <2>1, LeastElement
  <2>3. m \in 0 .. n /\ ~In(f[m])
    BY <2>2
  <2>4. m # 0
    BY <2>3, <1>4
  <2>5. m - 1 \in 0 .. n /\ m \in 1 .. n /\ ~(m <= m - 1)
    BY <2>3, <2>4
  <2>6. m - 1 \notin Bad
    <3> HIDE DEF Bad
    <3> QED BY <2>2, <2>5
  <2>7. In(f[m - 1])
    BY <2>5, <2>6
  <2> QED BY <2>3, <2>5, <2>7, <1>5
<1>7. In(f[n])
  <2>1. n \in 0 .. n
    OBVIOUS
  <2> QED BY <2>1, <1>6
<1> QED BY <1>3, <1>7 DEF In

(* The programs whose exploration is complete: their control states have one  *)
(* partition; and of two that a step connects, other than loop heads, the     *)
(* first one is expanded first, unless the second one is an end.             *)
InOrder ==
  /\ \A c, d \in Controls : task.key[c].part = task.key[d].part
  /\ \A c \in Controls \ task.heads : \A i \in DOMAIN task.steps[c] :
       LET d == task.steps[c][i].to
       IN d \notin task.heads /\ task.steps[d] # <<>> => task.key[c].rank < task.key[d].rank

Waits    == graph.frontier.elements
Left     == graph.reached \ Waits            \* those that were expanded
Rank(x)  == task.key[node[x].control].rank
Steps(x) == task.steps[node[x].control]

(* A state that neither starts a block nor is an end. *)
Inner(x) == node[x].control \notin task.heads /\ Steps(x) # <<>>

FrontierRight ==
  /\ Holds(graph.frontier, Waits)
  /\ Waits \subseteq graph.reached

(* The start of a block is expanded before the other states of the block, and *)
(* of these the expanded ones come before those that wait.                   *)
BlocksInOrder ==
  /\ \A x \in graph.reached : node[x].block # x =>
       node[x].block \in Left /\ Steps(node[x].block) # <<>>
  /\ \A x \in Left, y \in Waits :
       node[x].block = node[y].block /\ Inner(x) /\ Inner(y) => Rank(x) <= Rank(y)
  /\ pc = "expand" /\ Steps(current) # <<>> =>
       \A x \in Left : node[x].block = node[current].block /\ Inner(x) =>
         Inner(current) /\ Rank(x) <= Rank(current)

(* The predecessors of a reached state were expanded. *)
PredsLeft ==
  \A x \in graph.reached : \A p \in node[x].preds : p \in Left /\ Steps(p) # <<>>

(* What is still to be processed are successors of the current state, and none *)
(* of them was added or merged yet; a target is the last one.                *)
TodoRight ==
  /\ pc = "expand" => current \in Left
  /\ \A j \in 1 .. Len(todo) :
       /\ \E i \in DOMAIN Steps(current) : node[todo[j]] = SuccessorOf(current, Steps(current)[i], todo[j])
       /\ todo[j] \notin graph.reached
       /\ \A x \in graph.reached : todo[j] \notin node[x].mergeOf
       /\ Target(todo[j]) # {} => j = Len(todo)

MergesNumbered == \A x \in DOMAIN node : node[x].mergeOf \subseteq 1 .. x

(* The values with which the steps leave an expanded state are covered, or    *)
(* about to be.                                                              *)
Covered(x, step) ==
  Image(step.change, Has(node[x])) # {} =>
    \E y \in graph.reached : /\ node[y].control = Widens(task, step.to)
                            /\ Image(step.change, Has(node[x])) \subseteq Has(node[y])

AllCovered ==
  \A x \in Left : \A i \in DOMAIN Steps(x) :
    \/ Covered(x, Steps(x)[i])
    \/ x = current /\ \E j \in 1 .. Len(todo) : node[todo[j]] = SuccessorOf(x, Steps(x)[i], todo[j])

(* The targets that are reached are reported, or about to be. *)
TargetsNoted ==
  \A x \in graph.reached :
    Target(x) \subseteq verdict.violated \/ (x \in graph.addedLast /\ pc \in {"check", "report"})

(* The part of the invariant that needs the order. *)
SInv ==
  /\ InOrder
  /\ FrontierRight
  /\ 1 \in graph.reached
  /\ BlocksInOrder
  /\ PredsLeft
  /\ TodoRight
  /\ MergesNumbered
  /\ AllCovered
  /\ TargetsNoted
  /\ Sound
  /\ NoException

(* What holds in any order. *)
AnyInv == Consistent /\ Truthful /\ Decided

LEMMA StateFacts ==
  ASSUME AnyInv
  PROVE  /\ task \in Tasks
         /\ Len(node) \in Nat /\ DOMAIN node = 1 .. Len(node) /\ 1 \in DOMAIN node /\ node[1] = Root
         /\ node \in Seq(NodeType)
         /\ DOMAIN graph = {"reached", "addedLast", "frontier"}
         /\ graph.addedLast \subseteq graph.reached /\ graph.reached \subseteq DOMAIN node
         /\ IsFiniteSet(graph.reached)
         /\ graph.reached \subseteq Settled(node)
         /\ \A x \in graph.reached : node[x].preds \subseteq graph.reached
         /\ todo \in Seq(DOMAIN node) /\ Len(todo) \in Nat
         /\ pc \notin {"expand", "done"} => todo = <<>>
<1>1. PICK L : IInv(L)
  BY DEF AnyInv, Consistent
<1>2. /\ Len(node) \in Nat /\ DOMAIN node = 1 .. Len(node) /\ 1 \in DOMAIN node /\ node[1] = Root
      /\ node \in Seq(NodeType)
  BY <1>1, NodesFacts DEF IInv
<1>3. graph.reached \subseteq DOMAIN node
  BY <1>1 DEF IInv, Shape
<1>4. IsFiniteSet(graph.reached)
  <2>1. IsFiniteSet(DOMAIN node)
    BY <1>2, FS_Interval
  <2> QED BY <2>1, <1>3, FS_Subset
<1>5. todo \in Seq(DOMAIN node) /\ Len(todo) \in Nat /\ (pc \notin {"expand", "done"} => todo = <<>>)
  BY <1>1 DEF IInv, Pending
<1> QED BY <1>1, <1>2, <1>3, <1>4, <1>5 DEF AnyInv, IInv, Truthful, Shape, Connected

LEMMA NodeFacts ==
  ASSUME AnyInv, NEW x \in DOMAIN node
  PROVE  /\ node[x] \in NodeType /\ Linked(node, x)
         /\ node[x].control \in Controls /\ node[x].entering \in SUBSET Values
         /\ node[x].mergeOf \in SUBSET Nat
         /\ Rank(x) \in Int
         /\ Steps(x) \in Seq(StepType) /\ Len(Steps(x)) \in Nat /\ DOMAIN Steps(x) = 1 .. Len(Steps(x))
         /\ Target(x) # {} => Steps(x) = <<>> /\ node[x].control \notin task.heads
         /\ Target(x) \subseteq Properties
         /\ Has(node[x]) \in SUBSET Values
<1>1. PICK L : IInv(L)
  BY DEF AnyInv, Consistent
<1>2. node[x] \in NodeType /\ Linked(node, x)
  BY <1>1, NodesFacts DEF IInv
<1> DEFINE c == node[x].control
<1>3. c \in Controls /\ node[x].entering \in SUBSET Values /\ node[x].mergeOf \in SUBSET Nat
  BY <1>2 DEF NodeType
<1>4. task \in Tasks /\ IsTask(task)
  BY <1>1, PredicateTasksAssumption DEF IInv
<1> HIDE DEF c
<1>5. task.steps[c] \in Seq(StepType) /\ (task.error[c] # {} => task.steps[c] = <<>> /\ c \notin task.heads)
  BY <1>3, <1>4, TaskFacts DEF IsTask, Controls
<1>6. task.key[c].rank \in Int /\ task.error[c] \subseteq Properties
  <2>1. task.key[c] \in [part : Int, rank : Int] /\ task.error[c] \subseteq Properties
    BY <1>3, <1>4 DEF IsTask, Controls
  <2> QED BY <2>1
<1>7. Steps(x) = task.steps[c] /\ Rank(x) = task.key[c].rank /\ Target(x) = task.error[c]
  BY DEF Steps, Rank, Target, c
<1>8. Has(node[x]) \in SUBSET Values
  BY <1>3 DEF Has, Image
<1>9. Len(Steps(x)) \in Nat /\ DOMAIN Steps(x) = 1 .. Len(Steps(x))
  BY <1>5, <1>7
<1> QED BY <1>2, <1>3, <1>5, <1>6, <1>7, <1>8, <1>9 DEF c

LEMMA WaitingFinite ==
  ASSUME AnyInv, FrontierRight
  PROVE  IsFiniteSet(Waits) /\ Holds(graph.frontier, Waits) /\ Waits \subseteq graph.reached
         /\ Left \subseteq graph.reached /\ Left \subseteq DOMAIN node
BY StateFacts, FS_Subset DEF FrontierRight, Left

LEMMA InitSInv ==
  ASSUME Init, InOrder, AnyInv
  PROVE  SInv
<1>1. /\ node = <<Root>> /\ graph.reached = {1} /\ graph.addedLast = {1}
      /\ graph.frontier = FrontierAdd(Keys(node), EmptyFrontier, 1)
      /\ pc = "begin" /\ todo = <<>> /\ thrown = {} /\ verdict.satisfied = {}
  BY DEF Init
<1>2. Holds(graph.frontier, {1})
  <2>1. Holds(EmptyFrontier, {}) /\ IsFiniteSet({})
    BY FS_EmptySet DEF Holds, EmptyFrontier, EmptyBag, SetToBag
  <2>2. Holds(FrontierAdd(Keys(node), EmptyFrontier, 1), {} \cup {1})
    BY <2>1, FrontierAddHolds
  <2> QED BY <1>1, <2>2
<1>3. Waits = {1} /\ Left = {} /\ FrontierRight
  BY <1>1, <1>2 DEF Waits, Left, FrontierRight, Holds
<1>4. node[1] = Root /\ DOMAIN node = {1}
  BY <1>1
<1>5. Root.block = 1 /\ Root.preds = {} /\ Root.mergeOf = {1} /\ Root.control = 0
  BY DEF Root
<1>6. task.error[0] = {}
  BY StateFacts, ExecutionFacts
<1>7. BlocksInOrder
  BY <1>1, <1>3, <1>4, <1>5 DEF BlocksInOrder
<1>8. PredsLeft /\ TodoRight /\ MergesNumbered /\ AllCovered
  BY <1>1, <1>3, <1>4, <1>5 DEF PredsLeft, TodoRight, MergesNumbered, AllCovered
<1>9. TargetsNoted
  BY <1>1, <1>4, <1>5, <1>6 DEF TargetsNoted, Target
<1>10. Sound /\ NoException
  BY <1>1 DEF Sound, NoException
<1> QED BY <1>1, <1>3, <1>7, <1>8, <1>9, <1>10 DEF SInv

-----------------------------------------------------------------------------
(* The steps that leave the graph alone.                                     *)

LEMMA SameGraphSInv ==
  ASSUME SInv, AnyInv, UNCHANGED <<task, node, graph, current, todo, thrown>>,
         Sound', verdict.violated \subseteq verdict'.violated,
         pc' = "expand" => pc = "expand",
         pc \in {"check", "report"} =>
           \A x \in graph.addedLast : Target(x) \subseteq verdict'.violated \/ pc' \in {"check", "report"}
  PROVE  SInv'
<1>1. /\ Waits' = Waits /\ Left' = Left /\ Left \subseteq DOMAIN node
      /\ \A x : Rank(x)' = Rank(x) /\ Steps(x)' = Steps(x) /\ Inner(x)' = Inner(x) /\ Target(x)' = Target(x)
  BY WaitingFinite DEF SInv, Waits, Left, Rank, Steps, Inner, Target
<1>2. InOrder' /\ FrontierRight' /\ (1 \in graph.reached)' /\ MergesNumbered' /\ NoException'
  BY <1>1 DEF SInv, InOrder, Controls, FrontierRight, MergesNumbered, NoException
<1>3. BlocksInOrder'
  BY <1>1 DEF SInv, BlocksInOrder
<1>4. PredsLeft'
  BY <1>1 DEF SInv, PredsLeft
<1>5. TodoRight'
  <2>1. \A j \in 1 .. Len(todo) : \A i \in DOMAIN Steps(current) :
          SuccessorOf(current, Steps(current)[i], todo[j])' = SuccessorOf(current, Steps(current)[i], todo[j])
    BY <1>1 DEF SuccessorOf
  <2>2. \A j \in 1 .. Len(todo) : \E i \in DOMAIN Steps(current) :
          node[todo[j]] = SuccessorOf(current, Steps(current)[i], todo[j])
    BY DEF SInv, TodoRight
  <2>3. \A j \in 1 .. Len(todo) : Target(todo[j])' = Target(todo[j])
    BY DEF Target
  <2> QED BY <1>1, <2>1, <2>2, <2>3 DEF SInv, TodoRight
<1>6. AllCovered'
  <2> SUFFICES ASSUME NEW x \in Left, NEW i \in DOMAIN Steps(x)
               PROVE  \/ Covered(x, Steps(x)[i])'
                      \/ x = current' /\ \E j \in 1 .. Len(todo') :
                            node'[todo'[j]] = SuccessorOf(x, Steps(x)[i], todo[j])'
    BY <1>1 DEF AllCovered
  <2>1. Covered(x, Steps(x)[i]) => Covered(x, Steps(x)[i])'
    BY <1>1 DEF Covered
  <2>2. \A j \in 1 .. Len(todo) : SuccessorOf(x, Steps(x)[i], todo[j])' = SuccessorOf(x, Steps(x)[i], todo[j])
    BY <1>1 DEF SuccessorOf
  <2> QED BY <2>1, <2>2 DEF SInv, AllCovered
<1>7. TargetsNoted'
  BY <1>1 DEF SInv, TargetsNoted
<1> QED BY <1>2, <1>3, <1>4, <1>5, <1>6, <1>7 DEF SInv

(* When nothing waits any more, executions reach only what the reached states *)
(* stand for.                                                                *)
LEMMA AllReached ==
  ASSUME SInv, AnyInv, Waits = {}, todo = <<>>
  PROVE  \A q \in Executed(task) : \E x \in graph.reached : node[x].control = q[1]
<1> DEFINE T == UNION {{node[x].control} \X Has(node[x]) : x \in graph.reached}
<1>1. task \in Tasks /\ IsTask(task) /\ Left = graph.reached /\ graph.reached \subseteq DOMAIN node
  BY StateFacts, PredicateTasksAssumption DEF Left
<1>2. \A x \in graph.reached : /\ node[x].control \in DOMAIN task.steps /\ Has(node[x]) \in SUBSET Values
                               /\ Steps(x) = task.steps[node[x].control]
                               /\ DOMAIN Steps(x) = 1 .. Len(Steps(x))
  BY <1>1, NodeFacts DEF Controls, Steps
<1>3. T \in SUBSET Pairs(task)
  BY <1>2 DEF Pairs
<1>4. {0} \X Values \subseteq T
  <2>1. 1 \in graph.reached /\ node[1].control = 0 /\ ~node[1].widened
        /\ node[1].formula = Identity /\ node[1].entering = Values
    BY StateFacts DEF SInv, Root
  <2>2. Has(node[1]) = Values
    BY <2>1, ImageOfIdentity DEF Has
  <2> QED BY <2>1, <2>2
<1>5. Leads(task, T) \subseteq T
  <2> SUFFICES ASSUME NEW q \in Leads(task, T) PROVE q \in T
    OBVIOUS
  <2>1. PICK s \in T : \E step \in Range(task.steps[s[1]]) :
                         q \in {Widens(task, step.to)} \X Image(step.change, {s[2]})
    <3> DEFINE P(s) == UNION {{Widens(task, step.to)} \X Image(step.change, {s[2]}) :
                                step \in Range(task.steps[s[1]])}
    <3>1. q \in UNION {P(s) : s \in T}
      <4> HIDE DEF T
      <4> QED BY DEF Leads
    <3>2. \E s \in T : q \in P(s)
      <4> HIDE DEF T, P
      <4> QED BY <3>1
    <3> HIDE DEF T
    <3> QED BY <3>2
  <2>2. PICK step \in Range(task.steps[s[1]]) : q \in {Widens(task, step.to)} \X Image(step.change, {s[2]})
    BY <2>1
  <2>3. PICK x \in graph.reached : s \in {node[x].control} \X Has(node[x])
    BY <2>1
  <2>4. s[1] = node[x].control /\ s[2] \in Has(node[x])
    BY <2>3
  <2>5. PICK w \in Image(step.change, {s[2]}) : q = <<Widens(task, step.to), w>>
    BY <2>2
  <2>6. PICK i \in DOMAIN Steps(x) : step = Steps(x)[i]
    BY <2>2, <2>4 DEF Range, Steps
  <2>7. w \in Image(step.change, Has(node[x]))
    BY <2>4, <2>5 DEF Image
  <2>8. Covered(x, step)
    <3>1. ~ \E j \in 1 .. Len(todo) : TRUE
      OBVIOUS
    <3> QED BY <1>1, <2>6, <3>1 DEF SInv, AllCovered
  <2>9. PICK y \in graph.reached : /\ node[y].control = Widens(task, step.to)
                                   /\ Image(step.change, Has(node[x])) \subseteq Has(node[y])
    BY <2>7, <2>8 DEF Covered
  <2>10. q \in {node[y].control} \X Has(node[y])
    BY <2>5, <2>7, <2>9
  <2> QED BY <2>10
<1>6. Executed(task) \subseteq T
  <2> HIDE DEF T
  <2> QED BY <1>1, <1>3, <1>4, <1>5, ExecutedLeast
<1> SUFFICES ASSUME NEW q \in Executed(task) PROVE \E x \in graph.reached : node[x].control = q[1]
  OBVIOUS
<1>7. PICK x \in graph.reached : q \in {node[x].control} \X Has(node[x])
  BY <1>6
<1> QED BY <1>7

(* What is not violated then is satisfied. *)
LEMMA ReportSInv ==
  ASSUME SInv, AnyInv, AnyInv', Report
  PROVE  SInv'
<1> DEFINE found == UNION {Target(x) : x \in graph.addedLast}
<1>1. /\ pc = "report" /\ pc' \in {"done", "begin"}
      /\ UNCHANGED <<task, node, graph, current, todo, thrown>>
  BY DEF Report
<1>2. /\ verdict'.violated = verdict.violated \cup found
      /\ \/ verdict'.satisfied = verdict.satisfied
         \/ /\ verdict'.satisfied = verdict.unknown \ (verdict.violated \cup found)
            /\ verdict'.unknown = {}
  BY ReportHolds DEF AnyInv, Decided, found
<1>3. \A x \in graph.addedLast : Target(x) \subseteq verdict'.violated
  BY <1>2
<1>4. CASE verdict'.satisfied = verdict.satisfied
  <2>1. Sound'
    BY <1>1, <1>4 DEF SInv, Sound
  <2> HIDE DEF found
  <2> QED BY <1>1, <1>2, <1>3, <2>1, SameGraphSInv
<1>5. CASE verdict'.satisfied # verdict.satisfied
  <2>1. IsEmpty(graph.frontier) /\ verdict'.satisfied = verdict.unknown \ (verdict.violated \cup found)
    <3>1. \/ verdict' = [verdict EXCEPT !.violated = verdict.violated \cup found,
                                        !.unknown = verdict.unknown \ (verdict.violated \cup found)]
          \/ IsEmpty(graph.frontier)
      BY DEF Report
    <3>2. VerdictShape
      BY DEF AnyInv, Decided
    <3> HIDE DEF found
    <3>3. IsEmpty(graph.frontier)
      BY <3>1, <3>2, <1>5 DEF VerdictShape
    <3> QED BY <3>3, <1>2, <1>5
  <2>2. Waits = {} /\ todo = <<>>
    BY <1>1, <2>1, WaitingFinite, NotEndless, StateFacts DEF SInv
  <2>3. Sound'
    <3> SUFFICES ASSUME NEW p \in verdict'.satisfied, p \in task'.wrong PROVE FALSE
      BY DEF Sound
    <3>1. PICK q \in Executed(task) : p \in task.error[q[1]]
      <4>1. IsTask(task)
        BY StateFacts, PredicateTasksAssumption
      <4>2. task.wrong = UNION {task.error[s[1]] : s \in Executed(task)}
        BY <4>1 DEF IsTask
      <4> QED BY <1>1, <4>2
    <3>2. PICK x \in graph.reached : node[x].control = q[1]
      BY <2>2, AllReached
    <3>3. p \in Target(x)
      BY <3>1, <3>2 DEF Target
    <3>4. p \in verdict.violated \/ x \in graph.addedLast
      BY <3>3 DEF SInv, TargetsNoted
    <3> QED BY <2>1, <3>3, <3>4
  <2> HIDE DEF found
  <2> QED BY <1>1, <1>2, <1>3, <2>3, SameGraphSInv
<1> QED BY <1>4, <1>5

LEMMA CheckSInv ==
  ASSUME SInv, AnyInv, Check
  PROVE  SInv'
<1>1. /\ UNCHANGED <<task, node, graph, current, todo, verdict, thrown>>
      /\ pc' = IF Targets # {} \/ IsEmpty(graph.frontier) THEN "report" ELSE "begin"
  BY DEF Check
<1>2. \A x \in graph.addedLast : Target(x) \subseteq verdict'.violated \/ pc' \in {"check", "report"}
  BY <1>1 DEF Targets
<1>3. Sound'
  BY <1>1 DEF SInv, Sound
<1> QED BY <1>1, <1>2, <1>3, SameGraphSInv

-----------------------------------------------------------------------------
(* Choosing a state: there is one partition, so that it is one of least rank. *)

LEMMA NextIsFirst ==
  ASSUME SInv, AnyInv, NEW e \in DOMAIN node, IsNext(Keys(node), graph.frontier, e)
  PROVE  e \in Waits /\ \A x \in Waits : Rank(e) <= Rank(x)
<1> DEFINE mine == {y \in DOMAIN graph.frontier.heap :
                      Keys(node)[y].part = Max(Peeked(Keys(node), graph.frontier).turns)}
<1>1. e \in mine /\ \A y \in mine : Before(Keys(node), e, y)
  BY DEF IsNext
<1>2. DOMAIN graph.frontier.heap = Waits /\ Waits \subseteq DOMAIN node
  BY WaitingFinite, StateFacts DEF SInv, Holds
<1>3. \A x \in Waits : Keys(node)[x] = task.key[node[x].control] /\ node[x].control \in Controls
  BY <1>2, NodeFacts DEF Keys
<1>4. \A x \in Waits : x \in mine
  BY <1>1, <1>2, <1>3 DEF SInv, InOrder
<1>5. ASSUME NEW x \in Waits PROVE Rank(e) <= Rank(x)
  <2>1. Before(Keys(node), e, x) /\ e \in Waits
    BY <1>1, <1>2, <1>4
  <2>2. Keys(node)[x].rank = Rank(x) /\ Keys(node)[e].rank = Rank(e)
    BY <1>3, <2>1 DEF Rank
  <2>3. Rank(x) \in Int /\ Rank(e) \in Int
    BY <1>2, NodeFacts
  <2> QED BY <2>1, <2>2, <2>3 DEF Before
<1> QED BY <1>1, <1>2, <1>5

(* The step of Choose, in terms of what the invariant says. *)
Chosen(e) ==
  /\ e \in Waits /\ \A x \in Waits : Rank(e) <= Rank(x)
  /\ UNCHANGED <<task, verdict, thrown, precision>>
  /\ pc = "choose" /\ pc' = "expand" /\ current' = e
  /\ graph'.reached = graph.reached
  /\ graph'.addedLast = graph.addedLast
  /\ Holds(graph'.frontier, Waits \ {e})
  /\ node' = node \o Successors(e)
  /\ todo' = Kept(Successors(e))

LEMMA ChooseHolds ==
  ASSUME SInv, AnyInv, Choose
  PROVE  \E e \in DOMAIN node : Chosen(e)
<1>1. PICK e \in DOMAIN node : /\ IsNext(Keys(node), graph.frontier, e)
                               /\ Expand(e, Successors(e), Kept(Successors(e)))
  BY Zenon DEF Choose
<1> DEFINE others == FrontierRemove(Keys(node), Peeked(Keys(node), graph.frontier), e)
<1>2. e \in Waits /\ \A x \in Waits : Rank(e) <= Rank(x)
  BY <1>1, NextIsFirst
<1>3. IsFiniteSet(Waits) /\ Holds(graph.frontier, Waits)
  BY WaitingFinite DEF SInv
<1>4. Holds(others, Waits \ {e})
  BY <1>3, ActivatedHolds, FrontierRemoveHolds
<1>5. ~Endless(others)
  BY <1>3, <1>4, NotEndless, FS_RemoveElement
<1>6. /\ graph' = [graph EXCEPT !.frontier = others]
      /\ node' = node \o Successors(e)
      /\ current' = e
      /\ todo' = Kept(Successors(e))
      /\ pc' = "expand"
      /\ UNCHANGED <<task, verdict, thrown>>
  BY <1>1, <1>5 DEF Expand
<1> HIDE DEF others
<1>7. /\ graph'.reached = graph.reached
      /\ graph'.addedLast = graph.addedLast
      /\ graph'.frontier = others
  BY <1>6, StateFacts
<1>8. pc = "choose" /\ UNCHANGED precision
  BY DEF Choose
<1> QED BY <1>2, <1>4, <1>6, <1>7, <1>8 DEF Chosen

(* The successors of e: they are the last states, and those to be processed   *)
(* are in their order; the others are targets for no value.                  *)
Prepared(e) ==
  LET n == Len(Steps(e))
  IN /\ \A x \in DOMAIN node : x \in DOMAIN node' /\ node'[x] = node[x]
     /\ DOMAIN node' = 1 .. Len(node) + n
     /\ \A i \in 1 .. n : node'[Len(node) + i] = SuccessorOf(e, Steps(e)[i], Len(node) + i)
     /\ Len(todo') \in Nat /\ \A j \in 1 .. Len(todo') : todo'[j] \in Len(node) + 1 .. Len(node) + n
     /\ \A j, k \in 1 .. Len(todo') : j < k => todo'[j] < todo'[k]
     /\ \A i \in 1 .. n : \/ \E j \in 1 .. Len(todo') : todo'[j] = Len(node) + i
                          \/ Has(SuccessorOf(e, Steps(e)[i], Len(node) + i)) = {}

LEMMA ChoosePrepares ==
  ASSUME AnyInv, NEW e \in DOMAIN node, Chosen(e)
  PROVE  Prepared(e)
<1> DEFINE n == Len(Steps(e))
           next == Successors(e)
<1>1. PICK L : IInv(L)
  BY DEF AnyInv, Consistent
<1>2. /\ Len(node) \in Nat /\ DOMAIN node = 1 .. Len(node) /\ node \in Seq(NodeType)
      /\ n \in Nat /\ Fresh = Len(node) + 1
  BY StateFacts, NodeFacts DEF Fresh
<1>3. next \in Seq(NodeType) /\ Len(next) = n
  <2>1. next \in Seq(NodeType) /\ Len(next) = Len(task.steps[node[e].control])
    BY <1>1, SuccessorsContinue
  <2> QED BY <2>1 DEF Steps
<1>4. next = [i \in 1 .. n |-> SuccessorOf(e, Steps(e)[i], Fresh + i - 1)]
  BY DEF Successors, Steps
<1> HIDE DEF n, next
<1>5. DOMAIN next = 1 .. n /\ \A i \in 1 .. n : next[i] = SuccessorOf(e, Steps(e)[i], Len(node) + i)
  <2>1. \A i \in 1 .. n : Fresh + i - 1 = Len(node) + i
    BY <1>2
  <2> QED BY <1>4, <2>1
<1>6. node' = node \o next /\ todo' = Kept(next)
  BY DEF Chosen, next
<1>7. KeptOf(next, n, todo')
  BY <1>2, <1>3, <1>6, KeptHolds
<1>8. Lengthens(node, next, node')
  BY <1>2, <1>3, <1>6, AllLengthened
<1>9. Places(n) = Len(node) + 1 .. Len(node) + n
  BY <1>2 DEF Places
<1>10. ASSUME NEW i \in 1 .. n
       PROVE  \/ \E j \in 1 .. Len(todo') : todo'[j] = Len(node) + i
              \/ Has(next[i]) = {}
  <2>1. CASE Keeps(next[i])
    <3>1. Fresh + i - 1 = Len(node) + i
      BY <1>2
    <3> QED BY <2>1, <3>1, <1>7 DEF KeptOf
  <2>2. CASE ~Keeps(next[i])
    <3>1. Image(next[i].formula, next[i].entering) = {}
      BY <2>2 DEF Keeps, Feasible
    <3>2. next[i].widened = FALSE
      BY <1>5 DEF SuccessorOf
    <3> QED BY <3>1, <3>2 DEF Has
  <2> QED BY <2>1, <2>2
<1>11. /\ \A x \in DOMAIN node : x \in DOMAIN node' /\ node'[x] = node[x]
       /\ DOMAIN node' = 1 .. Len(node) + n
       /\ \A i \in 1 .. n : node'[Len(node) + i] = SuccessorOf(e, Steps(e)[i], Len(node) + i)
  <2>1. /\ DOMAIN node' = 1 .. Len(node) + n
        /\ \A x \in DOMAIN node : node'[x] = node[x]
        /\ \A i \in DOMAIN next : node'[Len(node) + i] = next[i]
    BY <1>3, <1>8 DEF Lengthens
  <2>2. \A x \in DOMAIN node : x \in DOMAIN node'
    <3>1. \A x \in 1 .. Len(node) : x \in 1 .. Len(node) + n
      BY <1>2
    <3> QED BY <1>2, <2>1, <3>1
  <2>3. ASSUME NEW i \in 1 .. n
        PROVE  node'[Len(node) + i] = SuccessorOf(e, Steps(e)[i], Len(node) + i)
    BY <1>5, <2>1
  <2> QED BY <2>1, <2>2, <2>3
<1>12. /\ Len(todo') \in Nat /\ \A j \in 1 .. Len(todo') : todo'[j] \in Len(node) + 1 .. Len(node) + n
       /\ \A j, k \in 1 .. Len(todo') : j < k => todo'[j] < todo'[k]
  <2>1. Len(todo') \in Nat /\ \A j \in 1 .. Len(todo') : todo'[j] \in Places(n)
    BY <1>7 DEF KeptOf
  <2> QED BY <1>7, <1>9, <2>1 DEF KeptOf
<1>13. \A i \in 1 .. n : \/ \E j \in 1 .. Len(todo') : todo'[j] = Len(node) + i
                         \/ Has(SuccessorOf(e, Steps(e)[i], Len(node) + i)) = {}
  BY <1>5, <1>10
<1> QED BY <1>11, <1>12, <1>13 DEF Prepared, n

LEMMA ChooseSInv ==
  ASSUME SInv, AnyInv, Choose
  PROVE  SInv'
<1>1. PICK e \in DOMAIN node : Chosen(e)
  BY ChooseHolds
<1> DEFINE n == Len(Steps(e))
<1>2. /\ Len(node) \in Nat /\ DOMAIN node = 1 .. Len(node) /\ n \in Nat /\ DOMAIN Steps(e) = 1 .. n
      /\ Waits \subseteq graph.reached /\ Left \subseteq graph.reached
      /\ graph.reached \subseteq DOMAIN node
      /\ graph.reached \subseteq Settled(node) /\ todo = <<>>
  BY <1>1, StateFacts, NodeFacts, WaitingFinite DEF SInv, Chosen
<1>3. /\ UNCHANGED <<task, verdict, thrown, precision>>
      /\ pc = "choose" /\ pc' = "expand" /\ current' = e
      /\ graph'.reached = graph.reached /\ graph'.addedLast = graph.addedLast
      /\ e \in Waits /\ \A x \in Waits : Rank(e) <= Rank(x)
  BY <1>1 DEF Chosen
<1>4. /\ \A x \in DOMAIN node : x \in DOMAIN node' /\ node'[x] = node[x]
      /\ DOMAIN node' = 1 .. Len(node) + n
      /\ \A i \in 1 .. n : node'[Len(node) + i] = SuccessorOf(e, Steps(e)[i], Len(node) + i)
      /\ Len(todo') \in Nat /\ \A j \in 1 .. Len(todo') : todo'[j] \in Len(node) + 1 .. Len(node) + n
      /\ \A j, k \in 1 .. Len(todo') : j < k => todo'[j] < todo'[k]
      /\ \A i \in 1 .. n : \/ \E j \in 1 .. Len(todo') : todo'[j] = Len(node) + i
                           \/ Has(SuccessorOf(e, Steps(e)[i], Len(node) + i)) = {}
  BY <1>1, ChoosePrepares DEF Prepared
<1>5. /\ Waits' = Waits \ {e} /\ Left' = Left \cup {e} /\ e \in graph.reached /\ e \notin Left
      /\ Holds(graph.frontier, Waits)'
  BY <1>1, <1>2, <1>3 DEF Chosen, Holds, Waits, Left
<1>6. \A x \in DOMAIN node : /\ Rank(x)' = Rank(x) /\ Steps(x)' = Steps(x)
                             /\ Inner(x)' = Inner(x) /\ Target(x)' = Target(x)
  BY <1>3, <1>4 DEF Rank, Steps, Inner, Target
<1>7. \A x \in DOMAIN node : Rank(x) \in Int /\ Linked(node, x) /\ node[x].block \in DOMAIN node
  BY NodeFacts DEF Linked
<1> HIDE DEF n
<1>8. InOrder' /\ FrontierRight' /\ 1 \in graph'.reached /\ Sound' /\ NoException'
  BY <1>2, <1>3, <1>5 DEF SInv, InOrder, Controls, FrontierRight, Sound, NoException
<1>9. BlocksInOrder'
  <2>1. \A x \in graph.reached : node[x].block # x =>
          node[x].block \in Left /\ Steps(node[x].block) # <<>>
    BY DEF SInv, BlocksInOrder
  <2>2. (\A x \in graph.reached : node[x].block # x =>
           node[x].block \in Left /\ Steps(node[x].block) # <<>>)'
    <3> SUFFICES ASSUME NEW x \in graph.reached, NEW b, b = node[x].block, b # x
                 PROVE  b \in Left' /\ Steps(b)' # <<>>
      BY <1>2, <1>3, <1>4 DEF Steps
    <3>1. b \in Left /\ b \in DOMAIN node /\ Steps(b) # <<>>
      BY <2>1, <1>2
    <3> QED BY <3>1, <1>5, <1>6
  <2>3. ASSUME NEW x \in Left', NEW y \in Waits', node[x].block = node[y].block, Inner(x), Inner(y)
        PROVE  Rank(x) <= Rank(y)
    BY <1>3, <1>5, <2>3 DEF SInv, BlocksInOrder
  <2>4. ASSUME NEW x \in Left', node[x].block = node[e].block, Inner(x), Steps(e) # <<>>
        PROVE  Inner(e) /\ Rank(x) <= Rank(e)
    <3>1. CASE x = e
      BY <3>1, <2>4, <1>7
    <3>2. CASE x # e /\ node[e].block = e
      <4>1. x \in Left /\ x \in graph.reached /\ node[x].block # x
        BY <3>2, <2>4, <1>2, <1>5
      <4> QED BY <4>1, <2>1, <2>4, <3>2, <1>5
    <3>3. CASE x # e /\ node[e].block # e
      <4>1. x \in Left /\ e \in DOMAIN node
        BY <3>3, <2>4, <1>5
      <4>2. e # 1 /\ ~node[e].widened
        <5>1. node[1] = Root /\ Root.block = 1
          BY StateFacts DEF Root
        <5> QED BY <3>3, <4>1, <5>1, <1>7 DEF Linked
      <4>3. node[e].control \notin task.heads
        BY <1>2, <1>5, <4>2 DEF Settled
      <4>4. Inner(e)
        BY <2>4, <4>3 DEF Inner
      <4> QED BY <1>3, <2>4, <4>1, <4>4 DEF SInv, BlocksInOrder
    <3> QED BY <3>1, <3>2, <3>3
  <2>5. /\ Left' \subseteq DOMAIN node /\ Waits' \subseteq DOMAIN node
        /\ Steps(current)' = Steps(e) /\ Inner(current)' = Inner(e) /\ Rank(current)' = Rank(e)
        /\ node'[current'] = node[e]
    BY <1>2, <1>3, <1>4, <1>5, <1>6 DEF Steps, Inner, Rank
  <2>6. (\A x \in Left, y \in Waits :
           node[x].block = node[y].block /\ Inner(x) /\ Inner(y) => Rank(x) <= Rank(y))'
    BY <1>4, <1>6, <2>3, <2>5
  <2>7. (pc = "expand" /\ Steps(current) # <<>> =>
           \A x \in Left : node[x].block = node[current].block /\ Inner(x) =>
             Inner(current) /\ Rank(x) <= Rank(current))'
    BY <1>4, <1>6, <2>4, <2>5
  <2> QED BY <2>2, <2>6, <2>7 DEF BlocksInOrder
<1>10. PredsLeft'
  <2> SUFFICES ASSUME NEW x \in graph.reached, NEW p \in node[x].preds
               PROVE  p \in Left' /\ Steps(p)' # <<>>
    BY <1>2, <1>3, <1>4 DEF PredsLeft
  <2>1. p \in Left /\ Steps(p) # <<>>
    BY DEF SInv, PredsLeft
  <2> QED BY <2>1, <1>2, <1>5, <1>6
<1>12. TodoRight'
  <2>1. ASSUME NEW j \in 1 .. Len(todo')
        PROVE  \E i \in 1 .. n : /\ todo'[j] = Len(node) + i
                                 /\ node'[todo'[j]] = SuccessorOf(e, Steps(e)[i], todo'[j])
    <3>1. todo'[j] \in Len(node) + 1 .. Len(node) + n
      BY <1>4
    <3>2. todo'[j] - Len(node) \in 1 .. n /\ todo'[j] = Len(node) + (todo'[j] - Len(node))
      BY <1>2, <3>1
    <3> QED BY <1>4, <3>2
  <2>2. ASSUME NEW j \in 1 .. Len(todo'), Target(todo[j])' # {} PROVE j = Len(todo')
    <3>1. PICK i \in 1 .. n : /\ todo'[j] = Len(node) + i
                              /\ node'[todo'[j]] = SuccessorOf(e, Steps(e)[i], todo'[j])
      BY <2>1
    <3>2. Target(todo[j])' = task.error[Steps(e)[i].to]
      <4>1. node'[todo'[j]].control = Steps(e)[i].to
        BY <3>1 DEF SuccessorOf
      <4>2. Target(todo[j])' = task.error[node'[todo'[j]].control]
        BY <1>3 DEF Target
      <4> QED BY <4>1, <4>2
    <3>3. i = n
      <4>1. IsTask(task) /\ node[e].control \in DOMAIN task.steps
        BY StateFacts, NodeFacts, PredicateTasksAssumption DEF Controls
      <4>2. i \in 1 .. n - 1 => task.error[Steps(e)[i].to] = {}
        BY <4>1 DEF IsTask, Steps, n
      <4> QED BY <1>2, <2>2, <3>2, <4>2
    <3>4. ASSUME j # Len(todo') PROVE FALSE
      <4>1. j < Len(todo') /\ Len(todo') \in 1 .. Len(todo')
        BY <1>4, <3>4
      <4>2. todo'[Len(todo')] \in Len(node) + 1 .. Len(node) + n /\ todo'[j] < todo'[Len(todo')]
        BY <1>4, <4>1
      <4> QED BY <1>2, <3>1, <3>3, <4>2
    <3> QED BY <3>4
  <2>3. ASSUME NEW j \in 1 .. Len(todo'), NEW x \in graph.reached
        PROVE  todo'[j] # x /\ todo'[j] \notin node'[x].mergeOf
    <3>1. PICK i \in 1 .. n : todo'[j] = Len(node) + i
      BY <2>1
    <3>2. x \in 1 .. Len(node) /\ node[x].mergeOf \subseteq 1 .. x
      BY <1>2 DEF SInv, MergesNumbered
    <3>3. todo'[j] > Len(node)
      BY <1>2, <3>1
    <3> QED BY <1>2, <1>4, <3>2, <3>3
  <2>4. current' \in Left' /\ DOMAIN Steps(current)' = 1 .. n /\ Steps(current)' = Steps(e)
    BY <1>2, <1>3, <1>5, <1>6 DEF Steps
  <2>5. (\A j \in 1 .. Len(todo) : \E i \in DOMAIN Steps(current) :
           node[todo[j]] = SuccessorOf(current, Steps(current)[i], todo[j]))'
    <3> SUFFICES ASSUME NEW j \in 1 .. Len(todo')
                 PROVE  \E i \in DOMAIN Steps(current)' :
                          node'[todo'[j]] = SuccessorOf(current, Steps(current)[i], todo[j])'
      OBVIOUS
    <3>1. PICK i \in 1 .. n : node'[todo'[j]] = SuccessorOf(e, Steps(e)[i], todo'[j])
      BY <2>1
    <3>2. SuccessorOf(current, Steps(current)[i], todo[j])' = SuccessorOf(e, Steps(e)[i], todo'[j])
      BY <1>3, <1>4, <2>4 DEF SuccessorOf
    <3> QED BY <2>4, <3>1, <3>2
  <2>6. (\A j \in 1 .. Len(todo) : Target(todo[j]) # {} => j = Len(todo))'
    BY <2>2
  <2>7. (\A j \in 1 .. Len(todo) : /\ todo[j] \notin graph.reached
                                   /\ \A x \in graph.reached : todo[j] \notin node[x].mergeOf)'
    BY <1>3, <2>3
  <2>8. (pc = "expand" => current \in Left)'
    BY <2>4
  <2> QED BY <2>5, <2>6, <2>7, <2>8 DEF TodoRight
<1>13. MergesNumbered'
  <2> SUFFICES ASSUME NEW x \in DOMAIN node' PROVE node'[x].mergeOf \subseteq 1 .. x
    BY DEF MergesNumbered
  <2>1. CASE x \in DOMAIN node
    BY <2>1, <1>4 DEF SInv, MergesNumbered
  <2>2. CASE x \notin DOMAIN node
    <3>1. x - Len(node) \in 1 .. n /\ x = Len(node) + (x - Len(node)) /\ x \in 1 .. x
      <4>1. x \in 1 .. Len(node) + n /\ x \notin 1 .. Len(node)
        BY <1>2, <1>4, <2>2
      <4> QED BY <1>2, <4>1
    <3>2. node'[x] = SuccessorOf(e, Steps(e)[x - Len(node)], x)
      BY <1>4, <3>1
    <3>3. node'[x].mergeOf = {x}
      BY <3>2 DEF SuccessorOf
    <3> QED BY <3>1, <3>3
  <2> QED BY <2>1, <2>2
<1>14. AllCovered'
  <2> SUFFICES ASSUME NEW x \in Left', NEW i \in DOMAIN Steps(x)'
               PROVE  \/ Covered(x, Steps(x)[i])'
                      \/ x = current' /\ \E j \in 1 .. Len(todo') :
                            node'[todo'[j]] = SuccessorOf(x, Steps(x)[i], todo[j])'
    BY DEF AllCovered
  <2>1. x \in DOMAIN node /\ Steps(x)' = Steps(x)
    BY <1>2, <1>5, <1>6
  <2>2. CASE x # e
    <3>1. x \in Left /\ ~ \E j \in 1 .. Len(todo) : TRUE
      BY <1>2, <1>5, <2>2
    <3>2. Covered(x, Steps(x)[i])
      BY <2>1, <3>1 DEF SInv, AllCovered
    <3>3. Covered(x, Steps(x)[i])'
      BY <1>2, <1>3, <1>4, <2>1, <3>2 DEF Covered, Has
    <3> QED BY <3>3
  <2>3. CASE x = e
    <3>1. i \in 1 .. n
      BY <1>2, <2>1, <2>3
    <3>2. CASE \E j \in 1 .. Len(todo') : todo'[j] = Len(node) + i
      <4>1. PICK j \in 1 .. Len(todo') : todo'[j] = Len(node) + i
        BY <3>2
      <4>2. node'[todo'[j]] = SuccessorOf(e, Steps(e)[i], todo'[j])
        BY <1>4, <3>1, <4>1
      <4>3. SuccessorOf(x, Steps(x)[i], todo[j])' = SuccessorOf(e, Steps(e)[i], todo'[j])
        BY <1>4, <2>1, <2>3 DEF SuccessorOf
      <4> QED BY <1>3, <2>3, <4>2, <4>3
    <3>3. CASE Has(SuccessorOf(e, Steps(e)[i], Len(node) + i)) = {}
      <4>1. Image(Steps(e)[i].change, Has(node[e])) = {}
        BY <3>3, NodeFacts, SuccessorHas
      <4>2. Covered(x, Steps(x)[i])'
        BY <1>4, <2>1, <2>3, <4>1 DEF Covered
      <4> QED BY <4>2
    <3> QED BY <1>4, <3>1, <3>2, <3>3
  <2> QED BY <2>2, <2>3
<1>15. TargetsNoted'
  BY <1>2, <1>3, <1>6 DEF SInv, TargetsNoted
<1> QED BY <1>8, <1>9, <1>10, <1>12, <1>13, <1>14, <1>15 DEF SInv

-----------------------------------------------------------------------------
(* Processing a successor.                                                   *)

LEMMA HeadFacts ==
  ASSUME SInv, AnyInv, pc = "expand", todo # <<>>, NEW s, s = Head(todo)
  PROVE  /\ s = todo[1] /\ 1 \in 1 .. Len(todo) /\ s \in DOMAIN node /\ s \notin graph.reached /\ s # 1
         /\ current \in Left /\ current \in DOMAIN node /\ current # s /\ Steps(current) # <<>>
         /\ node[s].preds = {current} /\ node[s].mergeOf = {s} /\ ~node[s].widened
         /\ node[s].part = node[s].control
         /\ \A x \in DOMAIN node : s \notin node[x].preds
         /\ \A x \in graph.reached : s \notin node[x].mergeOf
         /\ node[s].block \in Left /\ Steps(node[s].block) # <<>> /\ node[s].block # s
         /\ Inner(s) => \A x \in Left : node[x].block = node[s].block /\ Inner(x) => Rank(x) < Rank(s)
<1>1. PICK L : IInv(L)
  BY DEF AnyInv, Consistent
<1>2. todo \in Seq(DOMAIN node) /\ Len(todo) \in Nat /\ Left \subseteq DOMAIN node
  BY StateFacts, WaitingFinite DEF SInv
<1>3. s = todo[1] /\ 1 \in 1 .. Len(todo) /\ s \in DOMAIN node
  BY <1>2
<1>4. s # 1 /\ ~node[s].widened /\ \A x \in DOMAIN node : s \notin node[x].preds
  BY <1>1, <1>3 DEF IInv, Pending
<1>5. PICK i \in DOMAIN Steps(current) : node[s] = SuccessorOf(current, Steps(current)[i], s)
  BY <1>3 DEF SInv, TodoRight
<1>6. s \notin graph.reached /\ current \in Left /\ \A x \in graph.reached : s \notin node[x].mergeOf
  BY <1>3 DEF SInv, TodoRight
<1>7. /\ node[s].preds = {current} /\ node[s].mergeOf = {s} /\ node[s].part = node[s].control
      /\ node[s].block = node[current].block /\ node[s].control = Steps(current)[i].to
  BY <1>5 DEF SuccessorOf
<1>8. current \in DOMAIN node /\ current # s /\ current \in graph.reached
  BY <1>2, <1>6 DEF Left
<1>9. Steps(current) # <<>>
  BY <1>5
<1>10. node[s].block \in Left /\ Steps(node[s].block) # <<>> /\ node[s].block # s
  <2>1. node[current].block \in Left /\ Steps(node[current].block) # <<>>
    BY <1>6, <1>8, <1>9 DEF SInv, BlocksInOrder
  <2> QED BY <1>6, <1>7, <2>1 DEF Left
<1>11. ASSUME Inner(s), NEW x \in Left, node[x].block = node[s].block, Inner(x)
       PROVE  Rank(x) < Rank(s)
  <2>1. Inner(current) /\ Rank(x) <= Rank(current)
    BY <1>7, <1>9, <1>11 DEF SInv, BlocksInOrder
  <2>2. Rank(current) < Rank(s)
    <3>1. node[current].control \in Controls \ task.heads
      BY <1>8, <2>1, NodeFacts DEF Inner
    <3>2. node[s].control \notin task.heads /\ task.steps[node[s].control] # <<>>
      BY <1>11 DEF Inner, Steps
    <3> QED BY <1>7, <3>1, <3>2 DEF SInv, InOrder, Steps, Rank
  <2>3. Rank(x) \in Int /\ Rank(current) \in Int /\ Rank(s) \in Int
    BY <1>2, <1>3, <1>8, NodeFacts
  <2> QED BY <2>1, <2>2, <2>3
<1> QED BY <1>3, <1>4, <1>6, <1>7, <1>8, <1>9, <1>10, <1>11

(* A state y comes to those that wait: it is the successor, or it takes the    *)
(* place of the states P that the successor is merged with.                  *)
Adds(y, P) ==
  LET s == Head(todo)
  IN /\ pc = "expand" /\ todo # <<>> /\ UNCHANGED <<task, verdict, current, thrown>>
     /\ y \notin graph.reached /\ ((y = s /\ P = {}) \/ y = Fresh)
     /\ DOMAIN node' = DOMAIN node \cup {y}
     /\ \A x \in DOMAIN node \ {s} : node'[x] = node[x]
     /\ \A x \in DOMAIN node : node'[x].mergeOf = node[x].mergeOf
     /\ node'[y].control = Widens(task, node[s].control)
     /\ Has(node[s]) \subseteq Has(node'[y])
     /\ \/ node[s].control \in task.heads /\ node'[y].control \in task.heads /\ node'[y].block = y
        \/ node[s].control \notin task.heads /\ node'[y].block = node[s].block
     /\ \A p \in node'[y].preds : p \in Left /\ Steps(p) # <<>>
     /\ node'[y].mergeOf \subseteq {y, s} \cup UNION {node[x].mergeOf : x \in P}
     /\ P \subseteq graph.reached \ {1}
     /\ \A x \in P : /\ node[x].control = node[s].control /\ node[x].control \notin task.heads
                     /\ Has(node[x]) \subseteq Has(node'[y])
                     /\ x \in Left => Steps(x) = <<>>
     /\ graph'.reached = (graph.reached \cup {y}) \ P
     /\ Holds(graph'.frontier, (Waits \cup {y}) \ P)
     /\ graph'.addedLast = {y}
     /\ IF P = {} /\ Target(s) # {} THEN pc' = "check" /\ todo' = <<>>
                                    ELSE pc' = "expand" /\ todo' = Tail(todo)

(* The graph then. *)
LEMMA AddsHolds ==
  ASSUME SInv, AnyInv, NEW y, NEW P, Adds(y, P), NEW s, s = Head(todo)
  PROVE  /\ y \notin graph.reached /\ (y \in DOMAIN node => y = s) /\ y \in DOMAIN node'
         /\ graph'.reached = (graph.reached \ P) \cup {y}
         /\ Waits' = (Waits \ P) \cup {y} /\ Left' = Left \ P
         /\ Holds(graph.frontier, Waits)'
         /\ \A x \in graph.reached :
              /\ x \in DOMAIN node /\ x # s /\ x # y /\ node'[x] = node[x]
              /\ Rank(x)' = Rank(x) /\ Steps(x)' = Steps(x) /\ Inner(x)' = Inner(x)
              /\ Target(x)' = Target(x)
         /\ \A x \in Left : Steps(x) # <<>> => x \in Left'
<1>1. s \in DOMAIN node /\ s \notin graph.reached
  BY HeadFacts DEF Adds
<1>2. /\ graph.reached \subseteq DOMAIN node /\ Len(node) \in Nat /\ DOMAIN node = 1 .. Len(node)
      /\ Waits \subseteq graph.reached
  BY StateFacts, WaitingFinite DEF SInv
<1>3. Fresh \notin DOMAIN node
  BY <1>2 DEF Fresh
<1>4. y \notin graph.reached /\ (y \in DOMAIN node => y = s) /\ y \in DOMAIN node' /\ y \notin P
  BY <1>2, <1>3 DEF Adds
<1>5. graph'.reached = (graph.reached \ P) \cup {y}
  BY <1>4 DEF Adds
<1>6. Waits' = (Waits \ P) \cup {y} /\ Holds(graph.frontier, Waits)'
  BY <1>4 DEF Adds, Waits, Holds
<1>7. Left' = Left \ P
  BY <1>2, <1>4, <1>5, <1>6 DEF Left
<1>8. ASSUME NEW x \in graph.reached
      PROVE  /\ x \in DOMAIN node /\ x # s /\ x # y /\ node'[x] = node[x]
             /\ Rank(x)' = Rank(x) /\ Steps(x)' = Steps(x) /\ Inner(x)' = Inner(x)
             /\ Target(x)' = Target(x)
  <2>1. x \in DOMAIN node /\ x # s /\ x # y /\ node'[x] = node[x] /\ task' = task
    BY <1>1, <1>2, <1>4 DEF Adds
  <2> QED BY <2>1 DEF Rank, Steps, Inner, Target
<1>9. \A x \in Left : Steps(x) # <<>> => x \in Left'
  BY <1>7 DEF Adds
<1> QED BY <1>4, <1>5, <1>6, <1>7, <1>8, <1>9

LEMMA AddsSInv ==
  ASSUME SInv, AnyInv, NEW y, NEW P, Adds(y, P)
  PROVE  SInv'
<1> DEFINE s == Head(todo)
<1>1. /\ y \notin graph.reached /\ (y \in DOMAIN node => y = s) /\ y \in DOMAIN node'
      /\ graph'.reached = (graph.reached \ P) \cup {y}
      /\ Waits' = (Waits \ P) \cup {y} /\ Left' = Left \ P
      /\ Holds(graph.frontier, Waits)'
      /\ \A x \in graph.reached :
           /\ x \in DOMAIN node /\ x # s /\ x # y /\ node'[x] = node[x]
           /\ Rank(x)' = Rank(x) /\ Steps(x)' = Steps(x) /\ Inner(x)' = Inner(x)
           /\ Target(x)' = Target(x)
      /\ \A x \in Left : Steps(x) # <<>> => x \in Left'
  BY AddsHolds
<1>2. /\ pc = "expand" /\ todo # <<>> /\ UNCHANGED <<task, verdict, current, thrown>>
      /\ ((y = s /\ P = {}) \/ y = Fresh)
      /\ DOMAIN node' = DOMAIN node \cup {y}
      /\ \A x \in DOMAIN node \ {s} : node'[x] = node[x]
      /\ \A x \in DOMAIN node : node'[x].mergeOf = node[x].mergeOf
      /\ node'[y].control = Widens(task, node[s].control)
      /\ Has(node[s]) \subseteq Has(node'[y])
      /\ \A p \in node'[y].preds : p \in Left /\ Steps(p) # <<>>
      /\ node'[y].mergeOf \subseteq {y, s} \cup UNION {node[x].mergeOf : x \in P}
      /\ P \subseteq graph.reached \ {1}
      /\ \A x \in P : /\ node[x].control = node[s].control /\ node[x].control \notin task.heads
                      /\ Has(node[x]) \subseteq Has(node'[y])
                      /\ x \in Left => Steps(x) = <<>>
      /\ graph'.addedLast = {y}
  BY DEF Adds
<1>3. \/ node[s].control \in task.heads /\ node'[y].control \in task.heads /\ node'[y].block = y
      \/ node[s].control \notin task.heads /\ node'[y].block = node[s].block
  BY DEF Adds
<1>4. IF P = {} /\ Target(s) # {} THEN pc' = "check" /\ todo' = <<>>
                                  ELSE pc' = "expand" /\ todo' = Tail(todo)
  BY DEF Adds
<1>5. /\ s = todo[1] /\ 1 \in 1 .. Len(todo) /\ s \in DOMAIN node /\ s \notin graph.reached /\ s # 1
      /\ current \in Left /\ current \in DOMAIN node /\ current # s /\ Steps(current) # <<>>
      /\ node[s].mergeOf = {s}
      /\ \A x \in graph.reached : s \notin node[x].mergeOf
      /\ node[s].block \in Left /\ Steps(node[s].block) # <<>> /\ node[s].block # s
      /\ Inner(s) => \A x \in Left : node[x].block = node[s].block /\ Inner(x) => Rank(x) < Rank(s)
  BY <1>2, HeadFacts
<1> HIDE DEF s
<1>6. /\ Len(node) \in Nat /\ DOMAIN node = 1 .. Len(node) /\ graph.reached \subseteq DOMAIN node
      /\ Waits \subseteq graph.reached /\ Left \subseteq graph.reached
      /\ todo \in Seq(DOMAIN node) /\ Len(todo) \in Nat
      /\ Fresh = Len(node) + 1
  BY StateFacts, WaitingFinite DEF SInv, Fresh
<1>7. InOrder' /\ FrontierRight' /\ 1 \in graph'.reached /\ Sound' /\ NoException'
  BY <1>1, <1>2, <1>6 DEF SInv, InOrder, Controls, FrontierRight, Sound, NoException
<1>8. BlocksInOrder'
  <2>1. /\ \A x \in graph.reached : node[x].block # x =>
             node[x].block \in Left /\ Steps(node[x].block) # <<>>
        /\ \A x \in Left, z \in Waits :
             node[x].block = node[z].block /\ Inner(x) /\ Inner(z) => Rank(x) <= Rank(z)
        /\ \A x \in Left : node[x].block = node[current].block /\ Inner(x) =>
             Inner(current) /\ Rank(x) <= Rank(current)
    BY <1>2, <1>5 DEF SInv, BlocksInOrder
  <2>2. (\A x \in graph.reached : node[x].block # x =>
           node[x].block \in Left /\ Steps(node[x].block) # <<>>)'
    <3> SUFFICES ASSUME NEW x \in graph'.reached, NEW b, b = node'[x].block, b # x
                 PROVE  b \in Left' /\ Steps(b)' # <<>>
      BY DEF Steps
    <3>1. b \in Left /\ Steps(b) # <<>>
      <4>1. CASE x = y
        BY <4>1, <1>3, <1>5
      <4>2. CASE x # y
        BY <4>2, <1>1, <2>1
      <4> QED BY <4>1, <4>2
    <3>2. Steps(b)' = Steps(b)
      BY <3>1, <1>1, <1>6
    <3> QED BY <3>1, <3>2, <1>1
  <2>3. (\A x \in Left, z \in Waits :
           node[x].block = node[z].block /\ Inner(x) /\ Inner(z) => Rank(x) <= Rank(z))'
    <3> SUFFICES ASSUME NEW x \in Left', NEW z \in Waits',
                        node'[x].block = node'[z].block, Inner(x)', Inner(z)'
                 PROVE  Rank(x)' <= Rank(z)'
      OBVIOUS
    <3>1. x \in Left /\ x \in graph.reached /\ Inner(x) /\ node'[x] = node[x] /\ Rank(x)' = Rank(x)
      BY <1>1, <1>6
    <3>2. CASE z # y
      <4>1. z \in Waits /\ z \in graph.reached
        BY <3>2, <1>1, <1>6
      <4> QED BY <3>1, <4>1, <1>1, <2>1
    <3>3. CASE z = y
      <4>1. node[s].control \notin task.heads /\ node'[y].block = node[s].block
        BY <3>3, <1>2, <1>3 DEF Inner
      <4>2. node'[y].control = node[s].control /\ task' = task
        BY <4>1, <1>2 DEF Widens
      <4>3. Inner(s) /\ Rank(z)' = Rank(s)
        BY <3>3, <4>1, <4>2 DEF Inner, Steps, Rank
      <4>4. Rank(x) < Rank(s)
        BY <3>1, <3>3, <4>1, <4>3, <1>5
      <4>5. Rank(x) \in Int /\ Rank(s) \in Int
        BY <3>1, <1>5, <1>6, NodeFacts
      <4> QED BY <3>1, <4>3, <4>4, <4>5
    <3> QED BY <3>2, <3>3
  <2>4. (pc = "expand" /\ Steps(current) # <<>> =>
           \A x \in Left : node[x].block = node[current].block /\ Inner(x) =>
             Inner(current) /\ Rank(x) <= Rank(current))'
    <3>1. current' = current /\ current \in graph.reached /\ node'[current] = node[current]
          /\ Inner(current)' = Inner(current) /\ Rank(current)' = Rank(current)
      <4>1. current' = current /\ current \in graph.reached /\ node'[current] = node[current] /\ task' = task
        BY <1>1, <1>2, <1>5, <1>6
      <4> QED BY <4>1 DEF Inner, Steps, Rank
    <3> SUFFICES ASSUME NEW x \in Left', node'[x].block = node[current].block, Inner(x)'
                 PROVE  Inner(current) /\ Rank(x)' <= Rank(current)
      BY <3>1
    <3>2. x \in Left /\ x \in graph.reached
      BY <1>1, <1>6
    <3> QED BY <3>2, <1>1, <2>1
  <2> QED BY <2>2, <2>3, <2>4 DEF BlocksInOrder
<1>9. PredsLeft'
  <2> SUFFICES ASSUME NEW x \in graph'.reached, NEW p \in node'[x].preds
               PROVE  p \in Left' /\ Steps(p)' # <<>>
    BY DEF PredsLeft
  <2>1. p \in Left /\ Steps(p) # <<>>
    BY <1>1, <1>2 DEF SInv, PredsLeft
  <2> QED BY <2>1, <1>1, <1>6
<1>10. MergesNumbered'
  <2> SUFFICES ASSUME NEW x \in DOMAIN node' PROVE node'[x].mergeOf \subseteq 1 .. x
    BY DEF MergesNumbered
  <2>1. \A z \in DOMAIN node : node[z].mergeOf \subseteq 1 .. z
    BY DEF SInv, MergesNumbered
  <2>2. CASE x \in DOMAIN node
    BY <2>1, <2>2, <1>2
  <2>3. CASE x \notin DOMAIN node
    <3>1. x = y /\ y = Fresh
      BY <2>3, <1>2, <1>5
    <3>2. \A z \in DOMAIN node : z \in 1 .. Fresh /\ 1 .. z \subseteq 1 .. Fresh
      BY <1>6
    <3>3. \A z \in P : node[z].mergeOf \subseteq 1 .. Fresh
      BY <2>1, <3>2, <1>2, <1>6
    <3>4. {y, s} \subseteq 1 .. Fresh
      BY <3>1, <3>2, <1>5, <1>6
    <3> QED BY <3>1, <3>3, <3>4, <1>2
  <2> QED BY <2>2, <2>3
<1>11. ASSUME pc' = "expand"
       PROVE  /\ todo' = Tail(todo) /\ Len(todo') \in Nat /\ Len(todo') = Len(todo) - 1
              /\ \A j \in 1 .. Len(todo') : /\ j + 1 \in 1 .. Len(todo) /\ todo'[j] = todo[j + 1]
                                            /\ todo'[j] # s /\ todo'[j] \in DOMAIN node
  <2>1. todo' = Tail(todo)
    BY <1>4, <1>11
  <2>2. /\ Len(todo') \in Nat /\ Len(todo') = Len(todo) - 1
        /\ \A j \in 1 .. Len(todo') : j + 1 \in 1 .. Len(todo) /\ j + 1 # 1 /\ todo'[j] = todo[j + 1]
    BY <1>2, <1>6, <2>1
  <2>3. \A j, k \in 1 .. Len(todo) : todo[j] = todo[k] => j = k
    BY DEF AnyInv, Consistent, IInv, Pending
  <2>4. \A j \in 1 .. Len(todo) : todo[j] \in DOMAIN node
    BY <1>6
  <2> QED BY <2>1, <2>2, <2>3, <2>4, <1>5
<1>12. ASSUME pc' # "expand"
       PROVE  todo' = <<>> /\ Len(todo) = 1 /\ Len(todo') = 0
  <2>1. Target(s) # {} /\ todo' = <<>>
    BY <1>4, <1>12
  <2>2. Len(todo) = 1
    BY <2>1, <1>5 DEF SInv, TodoRight
  <2> QED BY <2>1, <2>2
<1>13. TodoRight'
  <2>1. CASE pc' # "expand"
    BY <2>1, <1>12 DEF TodoRight
  <2>2. CASE pc' = "expand"
    <3>1. (pc = "expand" => current \in Left)'
      BY <1>1, <1>2, <1>5
    <3>2. /\ current' = current /\ current \in graph.reached /\ node'[current] = node[current]
          /\ Steps(current)' = Steps(current)
      <4>1. current' = current /\ current \in graph.reached /\ node'[current] = node[current] /\ task' = task
        BY <1>1, <1>2, <1>5, <1>6
      <4> QED BY <4>1 DEF Steps
    <3>3. \A j \in 1 .. Len(todo) :
            /\ \E i \in DOMAIN Steps(current) : node[todo[j]] = SuccessorOf(current, Steps(current)[i], todo[j])
            /\ todo[j] \notin graph.reached
            /\ \A x \in graph.reached : todo[j] \notin node[x].mergeOf
            /\ Target(todo[j]) # {} => j = Len(todo)
      BY DEF SInv, TodoRight
    <3> SUFFICES ASSUME NEW j \in 1 .. Len(todo')
                 PROVE  /\ \E i \in DOMAIN Steps(current)' :
                             node'[todo'[j]] = SuccessorOf(current, Steps(current)[i], todo[j])'
                        /\ todo'[j] \notin graph'.reached
                        /\ \A x \in graph'.reached : todo'[j] \notin node'[x].mergeOf
                        /\ Target(todo[j])' # {} => j = Len(todo')
      BY <3>1 DEF TodoRight
    <3> DEFINE t == todo'[j]
    <3>4. /\ j + 1 \in 1 .. Len(todo) /\ t = todo[j + 1] /\ t # s /\ t \in DOMAIN node
          /\ Len(todo') = Len(todo) - 1
      BY <2>2, <1>11
    <3>5. t # y /\ node'[t] = node[t]
      BY <3>4, <1>1, <1>2
    <3>6. t \notin graph'.reached /\ \A x \in graph.reached : t \notin node[x].mergeOf
      BY <3>3, <3>4, <3>5, <1>1
    <3>7. ASSUME NEW x \in graph'.reached PROVE t \notin node'[x].mergeOf
      <4>1. CASE x = y
        BY <4>1, <3>4, <3>5, <3>6, <1>2
      <4>2. CASE x # y
        BY <4>2, <3>6, <1>1
      <4> QED BY <4>1, <4>2
    <3>8. Target(todo[j])' # {} => j = Len(todo')
      <4>1. Target(todo[j])' = Target(t)
        BY <3>5, <1>2 DEF Target
      <4>2. Target(t) # {} => j + 1 = Len(todo)
        BY <3>3, <3>4
      <4> QED BY <4>1, <4>2, <3>4
    <3>9. PICK i \in DOMAIN Steps(current) : node[t] = SuccessorOf(current, Steps(current)[i], t)
      BY <3>3, <3>4
    <3>10. SuccessorOf(current, Steps(current)[i], todo[j])' = SuccessorOf(current, Steps(current)[i], t)
      BY <3>2 DEF SuccessorOf
    <3> QED BY <3>2, <3>5, <3>6, <3>7, <3>8, <3>9, <3>10
  <2> QED BY <2>1, <2>2
<1>14. AllCovered'
  <2> SUFFICES ASSUME NEW x \in Left', NEW i \in DOMAIN Steps(x)'
               PROVE  \/ Covered(x, Steps(x)[i])'
                      \/ x = current' /\ \E j \in 1 .. Len(todo') :
                            node'[todo'[j]] = SuccessorOf(x, Steps(x)[i], todo[j])'
    BY DEF AllCovered
  <2>1. /\ x \in Left /\ x \in graph.reached /\ Steps(x)' = Steps(x) /\ node'[x] = node[x] /\ x \in DOMAIN node
    BY <1>1, <1>6
  <2> DEFINE step == Steps(x)[i]
             V == Image(step.change, Has(node[x]))
  <2>2. ASSUME NEW z \in graph'.reached, node'[z].control = Widens(task, step.to), V \subseteq Has(node'[z])
        PROVE  Covered(x, Steps(x)[i])'
    <3>1. (Widens(task, Steps(x)[i].to))' = Widens(task, step.to)
      BY <2>1, <1>2 DEF Widens
    <3>2. (Image(Steps(x)[i].change, Has(node[x])))' = V
      BY <2>1
    <3> QED BY <2>2, <3>1, <3>2 DEF Covered
  <2>3. CASE Covered(x, step)
    <3>1. CASE V = {}
      BY <3>1, <2>1 DEF Covered
    <3>2. CASE V # {}
      <4>1. PICK z \in graph.reached : node[z].control = Widens(task, step.to) /\ V \subseteq Has(node[z])
        BY <3>2, <2>3 DEF Covered
      <4>2. CASE z \in P
        <5>1. node'[y].control = Widens(task, step.to)
          <6>1. node[z].control = node[s].control /\ node[z].control \notin task.heads
            BY <4>2, <1>2
          <6>2. node'[y].control = node[z].control
            BY <6>1, <1>2 DEF Widens
          <6> QED BY <4>1, <6>2
        <5>2. V \subseteq Has(node'[y])
          BY <4>1, <4>2, <1>2
        <5> QED BY <5>1, <5>2, <2>2, <1>1
      <4>3. CASE z \notin P
        BY <4>1, <4>3, <2>2, <1>1
      <4> QED BY <4>2, <4>3
    <3> QED BY <3>1, <3>2
  <2>4. ASSUME x = current, NEW j \in 1 .. Len(todo), node[todo[j]] = SuccessorOf(x, step, todo[j])
        PROVE  \/ Covered(x, Steps(x)[i])'
               \/ x = current' /\ \E k \in 1 .. Len(todo') :
                     node'[todo'[k]] = SuccessorOf(x, Steps(x)[i], todo[k])'
    <3>1. CASE j = 1
      <4>1. node[s] = SuccessorOf(x, step, s)
        BY <3>1, <2>4, <1>5
      <4>2. Has(node[s]) = V
        BY <4>1, <2>1, NodeFacts, SuccessorHas
      <4>3. node[s].control = step.to
        BY <4>1 DEF SuccessorOf
      <4> QED BY <4>2, <4>3, <2>2, <1>1, <1>2
    <3>2. CASE j # 1
      <4>1. pc' = "expand"
        <5>1. Len(todo) # 1
          BY <2>4, <3>2, <1>6
        <5> QED BY <5>1, <1>12
      <4>2. j - 1 \in 1 .. Len(todo') /\ todo'[j - 1] = todo[j] /\ todo[j] # s /\ todo[j] \in DOMAIN node
        <5>1. j - 1 \in 1 .. Len(todo') /\ (j - 1) + 1 = j
          BY <3>2, <4>1, <1>6, <1>11
        <5> QED BY <5>1, <4>1, <1>11
      <4>3. node'[todo[j]] = node[todo[j]]
        BY <4>2, <1>2
      <4>4. SuccessorOf(x, Steps(x)[i], todo[j - 1])' = SuccessorOf(x, step, todo[j])
        BY <2>1, <4>2 DEF SuccessorOf
      <4> QED BY <2>4, <4>2, <4>3, <4>4, <1>2
    <3> QED BY <3>1, <3>2
  <2>5. i \in DOMAIN Steps(x)
    BY <2>1
  <2> QED BY <2>1, <2>3, <2>4, <2>5 DEF SInv, AllCovered
<1>15. TargetsNoted'
  <2> SUFFICES ASSUME NEW x \in graph'.reached
               PROVE  Target(x)' \subseteq verdict'.violated \/ (x \in graph'.addedLast /\ pc' \in {"check", "report"})
    BY DEF TargetsNoted
  <2>1. \A z \in graph.reached : Target(z) \subseteq verdict.violated
    BY <1>2 DEF SInv, TargetsNoted
  <2>2. CASE x # y
    BY <2>1, <2>2, <1>1, <1>2
  <2>3. CASE x = y /\ pc' # "expand"
    BY <2>3, <1>2, <1>4
  <2>4. CASE x = y /\ pc' = "expand"
    <3>1. P # {} \/ Target(s) = {}
      BY <2>4, <1>4
    <3>2. CASE node[s].control \in task.heads
      <4>1. task'.error[node'[y].control] = {}
        <5>1. node'[y].control \in task.heads
          BY <3>2, <1>3
        <5> QED BY <5>1, <1>2, StateFacts, TaskFacts
      <4> QED BY <4>1, <2>4 DEF Target
    <3>3. CASE node[s].control \notin task.heads
      <4>1. Target(y)' = Target(s)
        BY <3>3, <1>2 DEF Target, Widens
      <4>2. \A z \in P : Target(z) = Target(s)
        BY <1>2 DEF Target
      <4>3. Target(s) \subseteq verdict.violated
        BY <3>1, <4>2, <2>1, <1>2
      <4> QED BY <2>4, <4>1, <4>3, <1>2
    <3> QED BY <3>2, <3>3
  <2>5. pc' \in {"check", "expand"}
    BY <1>4
  <2> QED BY <2>2, <2>3, <2>4
<1> QED BY <1>7, <1>8, <1>9, <1>10, <1>13, <1>14, <1>15 DEF SInv

(* The successor is covered by the state r. *)
Stops(r) ==
  LET s == Head(todo)
  IN /\ pc = "expand" /\ todo # <<>> /\ UNCHANGED <<task, graph, verdict, current, thrown, pc>>
     /\ todo' = Tail(todo)
     /\ DOMAIN node' = DOMAIN node
     /\ \A x \in DOMAIN node \ {s} : node'[x] = node[x]
     /\ node'[s].mergeOf = node[s].mergeOf
     /\ r \in graph.reached
     /\ node[r].control = Widens(task, node[s].control)
     /\ Has(node[s]) \subseteq Has(node[r])

LEMMA StopsSInv ==
  ASSUME SInv, AnyInv, NEW r, Stops(r)
  PROVE  SInv'
<1> DEFINE s == Head(todo)
<1>1. /\ pc = "expand" /\ todo # <<>> /\ UNCHANGED <<task, graph, verdict, current, thrown, pc>>
      /\ todo' = Tail(todo)
      /\ DOMAIN node' = DOMAIN node
      /\ \A x \in DOMAIN node \ {s} : node'[x] = node[x]
      /\ node'[s].mergeOf = node[s].mergeOf
      /\ r \in graph.reached
      /\ node[r].control = Widens(task, node[s].control)
      /\ Has(node[s]) \subseteq Has(node[r])
  BY DEF Stops
<1>2. /\ s = todo[1] /\ 1 \in 1 .. Len(todo) /\ s \in DOMAIN node /\ s \notin graph.reached
      /\ current \in Left /\ current \in DOMAIN node
      /\ node[s].block \in Left
  BY <1>1, HeadFacts
<1> HIDE DEF s
<1>3. /\ graph.reached \subseteq DOMAIN node /\ Waits \subseteq graph.reached /\ Left \subseteq graph.reached
      /\ todo \in Seq(DOMAIN node) /\ Len(todo) \in Nat
  BY StateFacts, WaitingFinite DEF SInv
<1>4. Waits' = Waits /\ Left' = Left /\ graph' = graph
  BY <1>1 DEF Waits, Left
<1>5. ASSUME NEW x \in graph.reached
      PROVE  /\ x \in DOMAIN node /\ node'[x] = node[x]
             /\ Rank(x)' = Rank(x) /\ Steps(x)' = Steps(x) /\ Inner(x)' = Inner(x)
             /\ Target(x)' = Target(x)
  <2>1. x \in DOMAIN node /\ node'[x] = node[x] /\ task' = task
    BY <1>1, <1>2, <1>3
  <2> QED BY <2>1 DEF Rank, Steps, Inner, Target
<1>6. InOrder' /\ FrontierRight' /\ 1 \in graph'.reached /\ Sound' /\ NoException'
  BY <1>1, <1>4 DEF SInv, InOrder, Controls, FrontierRight, Holds, Sound, NoException
<1>7. BlocksInOrder'
  <2>1. /\ \A x \in graph.reached : node[x].block # x =>
             node[x].block \in Left /\ Steps(node[x].block) # <<>>
        /\ \A x \in Left, z \in Waits :
             node[x].block = node[z].block /\ Inner(x) /\ Inner(z) => Rank(x) <= Rank(z)
        /\ Steps(current) # <<>> => \A x \in Left : node[x].block = node[current].block /\ Inner(x) =>
             Inner(current) /\ Rank(x) <= Rank(current)
    BY <1>1 DEF SInv, BlocksInOrder
  <2>2. current' = current /\ current \in graph.reached
    BY <1>1, <1>2, <1>3
  <2>3. (\A x \in graph.reached : node[x].block # x =>
           node[x].block \in Left /\ Steps(node[x].block) # <<>>)'
    <3> SUFFICES ASSUME NEW x \in graph'.reached, NEW b, b = node'[x].block, b # x
                 PROVE  b \in Left' /\ Steps(b)' # <<>>
      BY DEF Steps
    <3>1. b \in Left /\ Steps(b) # <<>>
      BY <1>4, <1>5, <2>1
    <3> QED BY <1>3, <1>4, <1>5, <3>1
  <2>4. (\A x \in Left, z \in Waits :
           node[x].block = node[z].block /\ Inner(x) /\ Inner(z) => Rank(x) <= Rank(z))'
    <3> SUFFICES ASSUME NEW x \in Left', NEW z \in Waits',
                        node'[x].block = node'[z].block, Inner(x)', Inner(z)'
                 PROVE  Rank(x)' <= Rank(z)'
      OBVIOUS
    <3>1. x \in Left /\ z \in Waits /\ x \in graph.reached /\ z \in graph.reached
      BY <1>3, <1>4
    <3> QED BY <1>5, <2>1, <3>1
  <2>5. (pc = "expand" /\ Steps(current) # <<>> =>
           \A x \in Left : node[x].block = node[current].block /\ Inner(x) =>
             Inner(current) /\ Rank(x) <= Rank(current))'
    <3>1. /\ Inner(current)' = Inner(current) /\ Rank(current)' = Rank(current)
          /\ Steps(current)' = Steps(current) /\ node'[current] = node[current]
      <4>1. current' = current /\ node'[current] = node[current] /\ task' = task
        BY <1>1, <1>5, <2>2
      <4> QED BY <4>1 DEF Inner, Steps, Rank
    <3> SUFFICES ASSUME Steps(current) # <<>>, NEW x \in Left', node'[x].block = node[current].block, Inner(x)'
                 PROVE  Inner(current) /\ Rank(x)' <= Rank(current)
      BY <2>2, <3>1
    <3>2. x \in Left /\ x \in graph.reached
      BY <1>3, <1>4
    <3> QED BY <3>2, <1>5, <2>1
  <2> QED BY <2>3, <2>4, <2>5 DEF BlocksInOrder
<1>8. PredsLeft'
  <2> SUFFICES ASSUME NEW x \in graph'.reached, NEW p \in node'[x].preds
               PROVE  p \in Left' /\ Steps(p)' # <<>>
    BY DEF PredsLeft
  <2>1. p \in Left /\ Steps(p) # <<>>
    BY <1>4, <1>5 DEF SInv, PredsLeft
  <2> QED BY <2>1, <1>3, <1>4, <1>5
<1>9. MergesNumbered'
  <2>1. \A x \in DOMAIN node : node'[x].mergeOf = node[x].mergeOf
    BY <1>1
  <2> QED BY <2>1, <1>1 DEF SInv, MergesNumbered
<1>10. /\ Len(todo') \in Nat /\ Len(todo') = Len(todo) - 1
       /\ \A j \in 1 .. Len(todo') : /\ j + 1 \in 1 .. Len(todo) /\ todo'[j] = todo[j + 1]
                                     /\ todo'[j] # s /\ todo'[j] \in DOMAIN node
  <2>1. /\ Len(todo') \in Nat /\ Len(todo') = Len(todo) - 1
        /\ \A j \in 1 .. Len(todo') : j + 1 \in 1 .. Len(todo) /\ j + 1 # 1 /\ todo'[j] = todo[j + 1]
    BY <1>1, <1>3
  <2>2. \A j, k \in 1 .. Len(todo) : todo[j] = todo[k] => j = k
    BY DEF AnyInv, Consistent, IInv, Pending
  <2>3. \A j \in 1 .. Len(todo) : todo[j] \in DOMAIN node
    BY <1>3
  <2> QED BY <2>1, <2>2, <2>3, <1>2
<1>11. /\ current' = current /\ current \in graph.reached /\ node'[current] = node[current]
       /\ Steps(current)' = Steps(current)
  <2>1. current' = current /\ current \in graph.reached /\ node'[current] = node[current] /\ task' = task
    BY <1>1, <1>2, <1>3, <1>5
  <2> QED BY <2>1 DEF Steps
<1>12. TodoRight'
  <2>1. (pc = "expand" => current \in Left)'
    BY <1>2, <1>4, <1>11
  <2>2. \A j \in 1 .. Len(todo) :
          /\ \E i \in DOMAIN Steps(current) : node[todo[j]] = SuccessorOf(current, Steps(current)[i], todo[j])
          /\ todo[j] \notin graph.reached
          /\ \A x \in graph.reached : todo[j] \notin node[x].mergeOf
          /\ Target(todo[j]) # {} => j = Len(todo)
    BY DEF SInv, TodoRight
  <2> SUFFICES ASSUME NEW j \in 1 .. Len(todo')
               PROVE  /\ \E i \in DOMAIN Steps(current)' :
                           node'[todo'[j]] = SuccessorOf(current, Steps(current)[i], todo[j])'
                      /\ todo'[j] \notin graph'.reached
                      /\ \A x \in graph'.reached : todo'[j] \notin node'[x].mergeOf
                      /\ Target(todo[j])' # {} => j = Len(todo')
    BY <2>1 DEF TodoRight
  <2> DEFINE t == todo'[j]
  <2>3. /\ j + 1 \in 1 .. Len(todo) /\ t = todo[j + 1] /\ t # s /\ t \in DOMAIN node
        /\ Len(todo') = Len(todo) - 1 /\ node'[t] = node[t]
    BY <1>1, <1>10
  <2>4. t \notin graph'.reached /\ \A x \in graph'.reached : t \notin node'[x].mergeOf
    BY <2>2, <2>3, <1>4, <1>5
  <2>5. Target(todo[j])' # {} => j = Len(todo')
    <3>1. Target(todo[j])' = Target(t)
      BY <2>3, <1>1 DEF Target
    <3>2. Target(t) # {} => j + 1 = Len(todo)
      BY <2>2, <2>3
    <3> QED BY <3>1, <3>2, <2>3
  <2>6. PICK i \in DOMAIN Steps(current) : node[t] = SuccessorOf(current, Steps(current)[i], t)
    BY <2>2, <2>3
  <2>7. SuccessorOf(current, Steps(current)[i], todo[j])' = SuccessorOf(current, Steps(current)[i], t)
    BY <1>11 DEF SuccessorOf
  <2> QED BY <1>11, <2>3, <2>4, <2>5, <2>6, <2>7
<1>13. AllCovered'
  <2> SUFFICES ASSUME NEW x \in Left', NEW i \in DOMAIN Steps(x)'
               PROVE  \/ Covered(x, Steps(x)[i])'
                      \/ x = current' /\ \E j \in 1 .. Len(todo') :
                            node'[todo'[j]] = SuccessorOf(x, Steps(x)[i], todo[j])'
    BY DEF AllCovered
  <2>1. /\ x \in Left /\ x \in graph.reached /\ Steps(x)' = Steps(x) /\ node'[x] = node[x] /\ x \in DOMAIN node
    BY <1>3, <1>4, <1>5
  <2> DEFINE step == Steps(x)[i]
             V == Image(step.change, Has(node[x]))
  <2>2. ASSUME NEW z \in graph.reached, node[z].control = Widens(task, step.to), V \subseteq Has(node[z])
        PROVE  Covered(x, Steps(x)[i])'
    <3>1. (Widens(task, Steps(x)[i].to))' = Widens(task, step.to)
      BY <2>1, <1>1 DEF Widens
    <3>2. (Image(Steps(x)[i].change, Has(node[x])))' = V
      BY <2>1
    <3>3. node'[z] = node[z] /\ z \in graph'.reached
      BY <1>4, <1>5
    <3> QED BY <2>2, <3>1, <3>2, <3>3 DEF Covered
  <2>3. CASE Covered(x, step)
    <3>1. CASE V = {}
      BY <3>1, <2>1 DEF Covered
    <3>2. CASE V # {}
      BY <3>2, <2>3, <2>2 DEF Covered
    <3> QED BY <3>1, <3>2
  <2>4. ASSUME x = current, NEW j \in 1 .. Len(todo), node[todo[j]] = SuccessorOf(x, step, todo[j])
        PROVE  \/ Covered(x, Steps(x)[i])'
               \/ x = current' /\ \E k \in 1 .. Len(todo') :
                     node'[todo'[k]] = SuccessorOf(x, Steps(x)[i], todo[k])'
    <3>1. CASE j = 1
      <4>1. node[s] = SuccessorOf(x, step, s)
        BY <3>1, <2>4, <1>2
      <4>2. Has(node[s]) = V
        BY <4>1, <2>1, NodeFacts, SuccessorHas
      <4>3. node[s].control = step.to
        BY <4>1 DEF SuccessorOf
      <4> QED BY <4>2, <4>3, <2>2, <1>1
    <3>2. CASE j # 1
      <4>1. j - 1 \in 1 .. Len(todo') /\ todo'[j - 1] = todo[j] /\ todo[j] # s /\ todo[j] \in DOMAIN node
        <5>1. j - 1 \in 1 .. Len(todo') /\ (j - 1) + 1 = j
          BY <2>4, <3>2, <1>3, <1>10
        <5> QED BY <5>1, <1>10
      <4>2. node'[todo[j]] = node[todo[j]]
        BY <4>1, <1>1
      <4>3. SuccessorOf(x, Steps(x)[i], todo[j - 1])' = SuccessorOf(x, step, todo[j])
        BY <2>1, <4>1 DEF SuccessorOf
      <4> QED BY <2>4, <4>1, <4>2, <4>3, <1>1
    <3> QED BY <3>1, <3>2
  <2>5. i \in DOMAIN Steps(x)
    BY <2>1
  <2> QED BY <2>1, <2>3, <2>4, <2>5 DEF SInv, AllCovered
<1>14. TargetsNoted'
  <2>1. \A z \in graph.reached : Target(z) \subseteq verdict.violated
    BY <1>1 DEF SInv, TargetsNoted
  <2> QED BY <2>1, <1>1, <1>4, <1>5 DEF TargetsNoted
<1> QED BY <1>6, <1>7, <1>8, <1>9, <1>12, <1>13, <1>14 DEF SInv

(* The successor after its widening. *)
LEMMA WideningFacts ==
  ASSUME SInv, AnyInv, pc = "expand", todo # <<>>, NEW s, s = Head(todo)
  PROVE  LET nodes == Widening(s)
         IN /\ DOMAIN nodes = DOMAIN node
            /\ \A x \in DOMAIN node \ {s} : nodes[x] = node[x]
            /\ nodes[s].mergeOf = node[s].mergeOf /\ nodes[s].preds = node[s].preds
            /\ nodes[s].control = Widens(task, node[s].control)
            /\ Has(node[s]) \subseteq Has(nodes[s])
            /\ \/ /\ node[s].control \in task.heads /\ nodes[s].control \in task.heads
                  /\ nodes[s].block = s /\ nodes[s].widened
               \/ node[s].control \notin task.heads /\ nodes = node
<1> DEFINE nodes == Widening(s)
           w     == Widened(node[s], s)
           c     == node[s].control
<1>1. s \in DOMAIN node /\ ~node[s].widened
  BY HeadFacts
<1>2. node[s] \in NodeType /\ node[s].entering \in SUBSET Values
  BY <1>1, NodeFacts
<1>3. CASE c \notin task.heads
  BY <1>3 DEF Widening, Widens
<1>4. CASE c \in task.heads
  <2>1. nodes = [node EXCEPT ![s] = w]
    BY <1>4 DEF Widening
  <2>2. /\ w.control = task.widened[c] /\ w.widened /\ w.block = s
        /\ w.preds = node[s].preds /\ w.mergeOf = node[s].mergeOf
        /\ w.entering = Abstraction(Image(node[s].formula, node[s].entering))
    BY <1>2 DEF Widened, NodeType
  <2> HIDE DEF w
  <2>3. task.widened[c] \in task.heads
    BY <1>4, StateFacts, TaskFacts
  <2>4. nodes[s] = w /\ DOMAIN nodes = DOMAIN node /\ \A x \in DOMAIN node \ {s} : nodes[x] = node[x]
    BY <1>1, <2>1
  <2>5. Has(node[s]) \subseteq w.entering
    <3>1. Has(node[s]) = Image(node[s].formula, node[s].entering)
      BY <1>1 DEF Has
    <3>2. Image(node[s].formula, node[s].entering) \in SUBSET Values
      BY DEF Image
    <3> QED BY <2>2, <3>1, <3>2, AbstractionCovers
  <2>6. Has(nodes[s]) = w.entering
    BY <2>2, <2>4 DEF Has
  <2> HIDE DEF nodes
  <2> QED BY <1>4, <2>2, <2>3, <2>4, <2>5, <2>6 DEF Widens, nodes
<1> QED BY <1>3, <1>4

(* What the settling of a successor does, when nothing is thrown. *)
LEMMA SettleWithout ==
  ASSUME NEW nodes, NEW g, NEW covered, Settle(nodes, g, covered),
         Faults(nodes, g, Head(todo), covered) = {}
  PROVE  /\ node' = nodes /\ UNCHANGED <<task, current, verdict, thrown>>
         /\ covered => graph' = g /\ pc' = pc /\ todo' = Tail(todo)
         /\ ~covered => /\ graph' = ReachedAdd(Waiting(nodes, g, Head(todo)), Head(todo))
                        /\ IF Target(Head(todo)) # {} THEN pc' = "check" /\ todo' = <<>>
                                                      ELSE pc' = pc /\ todo' = Tail(todo)
<1> DEFINE s == Head(todo)
           faults == Faults(nodes, g, s, covered)
<1>1. faults = {}
  OBVIOUS
<1>2. IF faults # {} THEN Throw(faults)
      ELSE /\ node' = nodes
           /\ IF covered THEN graph' = g /\ pc' = pc /\ todo' = Tail(todo)
              ELSE /\ graph' = ReachedAdd(Waiting(nodes, g, s), s)
                   /\ IF Target(s) # {} THEN pc' = "check" /\ todo' = <<>>
                                        ELSE pc' = pc /\ todo' = Tail(todo)
           /\ UNCHANGED <<task, current, verdict, thrown>>
  BY Zenon DEF Settle
<1> HIDE DEF s, faults
<1> QED BY <1>1, <1>2, Zenon DEF s

(* A successor that is not merged with other states. *)
LEMMA SingleSInv ==
  ASSUME SInv, AnyInv, pc = "expand", todo # <<>>, NEW s, s = Head(todo),
         MergeStop(Widening(s), graph)
  PROVE  SInv'
<1> DEFINE nodes   == Widening(s)
           covered == StopsAt(nodes, graph, s)
<1>1. /\ s = todo[1] /\ s \in DOMAIN node /\ s \notin graph.reached /\ s # 1
      /\ current \in Left /\ current \in DOMAIN node /\ current # s /\ Steps(current) # <<>>
      /\ node[s].preds = {current} /\ node[s].mergeOf = {s} /\ ~node[s].widened
      /\ \A x \in graph.reached : s \notin node[x].mergeOf
  BY HeadFacts
<1>2. /\ DOMAIN nodes = DOMAIN node
      /\ \A x \in DOMAIN node \ {s} : nodes[x] = node[x]
      /\ nodes[s].mergeOf = node[s].mergeOf /\ nodes[s].preds = node[s].preds
      /\ nodes[s].control = Widens(task, node[s].control)
      /\ Has(node[s]) \subseteq Has(nodes[s])
      /\ \/ /\ node[s].control \in task.heads /\ nodes[s].control \in task.heads
            /\ nodes[s].block = s /\ nodes[s].widened
         \/ node[s].control \notin task.heads /\ nodes = node
  BY WideningFacts
<1>3. /\ DOMAIN graph = {"reached", "addedLast", "frontier"}
      /\ graph.reached \subseteq DOMAIN node /\ IsFiniteSet(Waits) /\ Holds(graph.frontier, Waits)
      /\ Waits \subseteq graph.reached /\ Left \subseteq graph.reached
  BY StateFacts, WaitingFinite DEF SInv
<1>4. Settle(nodes, graph, covered)
  BY DEF MergeStop
<1> HIDE DEF nodes, covered
<1>5. Faults(nodes, graph, s, covered) = {}
  <2>1. ~\E x \in DOMAIN nodes \ DOMAIN node : Orphan(nodes, graph, x)
    BY <1>2
  <2>2. ~Orphan(nodes, graph, s)
    BY <1>1, <1>2, <1>3 DEF Orphan
  <2>3. ~Endless(graph.frontier)
    BY <1>3, NotEndless
  <2> QED BY <2>1, <2>2, <2>3 DEF Faults
<1>6. /\ node' = nodes /\ UNCHANGED <<task, current, verdict, thrown>>
      /\ covered => graph' = graph /\ pc' = pc /\ todo' = Tail(todo)
      /\ ~covered => /\ graph' = ReachedAdd(Waiting(nodes, graph, s), s)
                     /\ IF Target(s) # {} THEN pc' = "check" /\ todo' = <<>>
                                          ELSE pc' = pc /\ todo' = Tail(todo)
  BY <1>4, <1>5, SettleWithout
<1>7. CASE covered
  <2>1. PICK r \in graph.reached :
          \/ s \in nodes[r].mergeOf
          \/ /\ nodes[r].control = nodes[s].control
             /\ nodes[r].widened /\ nodes[s].widened
             /\ nodes[s].entering \subseteq nodes[r].entering
    BY <1>7 DEF covered, StopsAt
  <2>2. nodes[r] = node[r] /\ s \notin node[r].mergeOf
    BY <1>1, <1>2, <1>3
  <2>3. /\ node[r].control = nodes[s].control /\ node[r].widened /\ nodes[s].widened
        /\ nodes[s].entering \subseteq node[r].entering
    BY <2>1, <2>2
  <2>4. Has(node[s]) \subseteq Has(node[r])
    <3>1. Has(nodes[s]) = nodes[s].entering /\ Has(node[r]) = node[r].entering
      BY <2>3 DEF Has
    <3> QED BY <3>1, <2>3, <1>2
  <2>5. Stops(r)
    BY <1>1, <1>2, <1>6, <1>7, <2>3, <2>4 DEF Stops
  <2> QED BY <2>5, StopsSInv
<1>8. CASE ~covered
  <2> DEFINE f == FrontierAdd(Keys(nodes), graph.frontier, s)
  <2>1. Holds(f, Waits \cup {s})
    BY <1>1, <1>3, FrontierAddHolds
  <2>2. graph'.reached = graph.reached \cup {s} /\ graph'.addedLast = {s} /\ graph'.frontier = f
    BY <1>3, <1>6, <1>8 DEF ReachedAdd, Waiting
  <2> HIDE DEF f
  <2>3. Holds(graph'.frontier, (Waits \cup {s}) \ {})
    BY <2>1, <2>2
  <2>4. \A p \in node'[s].preds : p \in Left /\ Steps(p) # <<>>
    BY <1>1, <1>2, <1>6
  <2>5. DOMAIN node' = DOMAIN node \cup {s} /\ \A x \in DOMAIN node : node'[x].mergeOf = node[x].mergeOf
    BY <1>1, <1>2, <1>6
  <2>6. node[s].control \notin task.heads => node'[s].block = node[s].block
    BY <1>2, <1>6
  <2>7. Adds(s, {})
    BY <1>1, <1>2, <1>6, <1>8, <2>2, <2>3, <2>4, <2>5, <2>6 DEF Adds
  <2> QED BY <2>7, AddsSInv
<1> QED BY <1>7, <1>8

(* The states that a successor is merged with: they were not expanded, or are  *)
(* ends; so they are nobody's predecessors.                                  *)
LEMMA PartnerFacts ==
  ASSUME SInv, AnyInv, pc = "expand", todo # <<>>, NEW s, s = Head(todo),
         node[s].control \notin task.heads, NEW x \in MergePartners(node, s)
  PROVE  /\ x \in graph.reached \ {1} /\ x \in DOMAIN node
         /\ node[x].control = node[s].control /\ node[x].block = node[s].block
         /\ node[x].part = node[s].part
         /\ ~node[x].widened /\ node[x].entering = node[s].entering
         /\ x \in Left => Steps(x) = <<>>
<1>1. /\ x \in graph.reached /\ node[x].part = node[s].part
      /\ node[x].control = node[s].control /\ node[x].block = node[s].block
  BY DEF MergePartners
<1>2. /\ s \in DOMAIN node
      /\ node[s].block \in Left /\ Steps(node[s].block) # <<>>
      /\ Inner(s) => \A y \in Left : node[y].block = node[s].block /\ Inner(y) => Rank(y) < Rank(s)
  BY HeadFacts
<1>3. x \in DOMAIN node /\ Left \subseteq graph.reached /\ node[1] = Root
  BY <1>1, StateFacts, WaitingFinite DEF SInv
<1>4. Linked(node, x) /\ Linked(node, s) /\ Rank(s) \in Int
  BY <1>2, <1>3, NodeFacts
<1>5. ~node[x].widened /\ node[x].entering = node[s].entering
  BY <1>1, <1>4 DEF Linked
<1>6. ASSUME x \in Left, Steps(x) # <<>> PROVE FALSE
  <2>1. Inner(x) /\ Inner(s) /\ Rank(x) = Rank(s)
    BY <1>1, <1>6 DEF Inner, Steps, Rank
  <2>2. Rank(x) < Rank(s)
    BY <1>1, <1>2, <1>6, <2>1
  <2> QED BY <1>4, <2>1, <2>2
<1>7. x # 1
  <2> SUFFICES ASSUME x = 1 PROVE FALSE
    OBVIOUS
  <2>1. node[s].block = x
    BY <1>1, <1>3 DEF Root
  <2> QED BY <1>2, <1>6, <2>1
<1> QED BY <1>1, <1>3, <1>5, <1>6, <1>7

LEMMA MergedSInv ==
  ASSUME SInv, AnyInv, pc = "expand", todo # <<>>, NEW s, s = Head(todo),
         node[s].control \notin task.heads,
         NEW partners, partners = MergePartners(node, s), partners # {},
         NEW merged, merged = Append(node, MergedState(node, s, partners)),
         MergeStop(merged, MergedGraph(merged, partners))
  PROVE  SInv'
<1> DEFINE m       == MergedState(node, s, partners)
           g       == MergedGraph(merged, partners)
           covered == StopsAt(merged, g, s)
           parts   == partners \cup {s}
<1>1. /\ s = todo[1] /\ s \in DOMAIN node /\ s \notin graph.reached /\ s # 1
      /\ current \in Left /\ Steps(current) # <<>>
      /\ node[s].preds = {current} /\ node[s].mergeOf = {s} /\ ~node[s].widened
  BY HeadFacts
<1>2. \A x \in partners :
        /\ x \in graph.reached \ {1} /\ x \in DOMAIN node
        /\ node[x].control = node[s].control /\ node[x].block = node[s].block
        /\ node[x].part = node[s].part
        /\ ~node[x].widened /\ node[x].entering = node[s].entering
        /\ x \in Left => Steps(x) = <<>>
  BY PartnerFacts
<1>3. /\ Len(node) \in Nat /\ DOMAIN node = 1 .. Len(node) /\ node \in Seq(NodeType)
      /\ DOMAIN graph = {"reached", "addedLast", "frontier"}
      /\ graph.reached \subseteq DOMAIN node /\ IsFiniteSet(Waits) /\ Holds(graph.frontier, Waits)
      /\ Waits \subseteq graph.reached /\ Left \subseteq graph.reached
      /\ \A x \in graph.reached : node[x].preds \subseteq graph.reached
  BY StateFacts, WaitingFinite DEF SInv
<1>4. node[s] \in NodeType
  BY <1>1, NodeFacts
<1>5. /\ m.preds = UNION {node[x].preds : x \in parts}
      /\ m.mergeOf = {Fresh} \cup UNION {node[x].mergeOf : x \in parts}
      /\ m.formula = UNION {node[x].formula : x \in parts}
      /\ m.control = node[s].control /\ m.part = node[s].part /\ m.block = node[s].block
      /\ m.entering = node[s].entering /\ m.widened = node[s].widened
  BY <1>4 DEF MergedState, NodeType
<1> HIDE DEF m
<1>6. /\ Fresh \notin DOMAIN node /\ Fresh = Len(node) + 1 /\ Len(merged) \in Nat
      /\ DOMAIN merged = 1 .. Len(merged)
      /\ DOMAIN merged = DOMAIN node \cup {Fresh}
      /\ merged[Fresh] = m /\ \A x \in DOMAIN node : merged[x] = node[x]
  <2>1. Fresh \notin DOMAIN node /\ Fresh = Len(node) + 1
    BY <1>3 DEF Fresh
  <2>2. /\ Len(merged) = Len(node) + 1 /\ DOMAIN merged = 1 .. Len(node) + 1
        /\ merged[Len(node) + 1] = m /\ \A x \in 1 .. Len(node) : merged[x] = node[x]
    BY <1>3 DEF m
  <2>3. 1 .. Len(node) + 1 = 1 .. Len(node) \cup {Len(node) + 1}
    BY <1>3
  <2> QED BY <1>3, <2>1, <2>2, <2>3
<1>7. \A x \in graph.reached \cup {s} : \A p \in node[x].preds : p \in Left /\ Steps(p) # <<>>
  BY <1>1 DEF SInv, PredsLeft
<1>8. \A p \in m.preds : p \in Left /\ Steps(p) # <<>>
  BY <1>2, <1>5, <1>7
<1>9. /\ DOMAIN g = {"reached", "addedLast", "frontier"}
      /\ g.reached = (graph.reached \cup {Fresh}) \ partners
      /\ g.addedLast = {Fresh}
      /\ Holds(g.frontier, (Waits \cup {Fresh}) \ partners)
  <2>1. partners \in SUBSET (1 .. Len(merged))
    BY <1>2, <1>6
  <2>2. \A z \in graph.reached \cup {Fresh} : merged[z].preds \cap partners = {}
    <3>1. \A z \in graph.reached : merged[z].preds \cap partners = {}
      BY <1>2, <1>3, <1>6, <1>7
    <3>2. merged[Fresh].preds \cap partners = {}
      BY <1>2, <1>6, <1>8
    <3> QED BY <3>1, <3>2
  <2>3. Fresh \notin Waits \cup partners
    BY <1>2, <1>3, <1>6
  <2>4. /\ DOMAIN graph = {"reached", "addedLast", "frontier"}
        /\ IsFiniteSet(Waits) /\ Holds(graph.frontier, Waits) /\ Len(merged) \in Nat
    BY <1>3, <1>6
  <2> QED BY <2>1, <2>2, <2>3, <2>4, MergedAlone
<1>10. Settle(merged, g, covered)
  BY DEF MergeStop
<1>11. covered
  <2>1. Fresh \in g.reached
    BY <1>2, <1>6, <1>9
  <2>2. s \in m.mergeOf
    BY <1>1, <1>5
  <2>3. merged[Fresh].part = merged[s].part
    BY <1>1, <1>5, <1>6
  <2> HIDE DEF g
  <2> QED BY <2>1, <2>2, <2>3, <1>6 DEF StopsAt
<1> HIDE DEF covered, g, parts
<1>12. Faults(merged, g, s, covered) = {}
  <2>1. \A x \in DOMAIN merged \ DOMAIN node : ~Orphan(merged, graph, x)
    <3> SUFFICES ASSUME NEW x \in DOMAIN merged \ DOMAIN node PROVE ~Orphan(merged, graph, x)
      OBVIOUS
    <3>1. merged[x] = m
      BY <1>6
    <3>2. m.preds \subseteq graph.reached
      BY <1>3, <1>8
    <3> QED BY <3>1, <3>2 DEF Orphan
  <2>2. ~Endless(g.frontier)
    <3>1. IsFiniteSet((Waits \cup {Fresh}) \ partners)
      <4>1. IsFiniteSet(Waits \cup {Fresh})
        BY <1>3, FS_AddElement
      <4> QED BY <4>1, FS_Subset
    <3> QED BY <3>1, <1>9, NotEndless
  <2> QED BY <1>11, <2>1, <2>2 DEF Faults
<1>13. /\ node' = merged /\ UNCHANGED <<task, current, verdict, thrown>>
       /\ graph' = g /\ pc' = pc /\ todo' = Tail(todo)
  BY <1>10, <1>11, <1>12, SettleWithout
<1>14. \A x \in parts : Has(node[x]) \subseteq Has(m)
  <2> SUFFICES ASSUME NEW x \in parts PROVE Has(node[x]) \subseteq Has(m)
    OBVIOUS
  <2>1. ~node[x].widened /\ node[x].entering = node[s].entering
    BY <1>1, <1>2 DEF parts
  <2>2. node[x].formula \subseteq m.formula
    BY <1>5
  <2>3. Has(node[x]) = Image(node[x].formula, node[s].entering) /\ Has(m) = Image(m.formula, node[s].entering)
    BY <1>1, <1>5, <2>1 DEF Has
  <2> QED BY <2>2, <2>3 DEF Image
<1>15. Adds(Fresh, partners)
  <2>1. Fresh \notin graph.reached
    BY <1>3, <1>6
  <2>2. DOMAIN node' = DOMAIN node \cup {Fresh} /\ \A x \in DOMAIN node : node'[x] = node[x]
    BY <1>6, <1>13
  <2>3. node'[Fresh] = m
    BY <1>6, <1>13
  <2>4. node'[Fresh].control = Widens(task, node[s].control) /\ node'[Fresh].block = node[s].block
    BY <1>5, <2>3 DEF Widens
  <2>5. Has(node[s]) \subseteq Has(node'[Fresh])
    BY <1>14, <2>3 DEF parts
  <2>6. \A p \in node'[Fresh].preds : p \in Left /\ Steps(p) # <<>>
    BY <1>8, <2>3
  <2>7. node'[Fresh].mergeOf \subseteq {Fresh, s} \cup UNION {node[x].mergeOf : x \in partners}
    BY <1>1, <1>5, <2>3 DEF parts
  <2>8. partners \subseteq graph.reached \ {1}
    BY <1>2
  <2>9. \A x \in partners : /\ node[x].control = node[s].control /\ node[x].control \notin task.heads
                            /\ Has(node[x]) \subseteq Has(node'[Fresh])
                            /\ x \in Left => Steps(x) = <<>>
    BY <1>2, <1>14, <2>3 DEF parts
  <2> QED BY <1>9, <1>13, <2>1, <2>2, <2>4, <2>5, <2>6, <2>7, <2>8, <2>9 DEF Adds
<1> QED BY <1>15, AddsSInv

LEMMA ProcessSInv ==
  ASSUME SInv, AnyInv, Process
  PROVE  SInv'
<1> DEFINE s        == Head(todo)
           nodes    == Widening(s)
           partners == MergePartners(nodes, s)
<1>1. /\ pc = "expand" /\ todo # <<>>
      /\ IF partners = {} THEN MergeStop(nodes, graph)
         ELSE LET merged == Append(nodes, MergedState(nodes, s, partners))
              IN MergeStop(merged, MergedGraph(merged, partners))
  BY DEF Process
<1>2. CASE partners = {}
  BY <1>1, <1>2, SingleSInv
<1>3. CASE partners # {}
  <2>1. nodes[s].control \notin task.heads
    BY <1>3 DEF MergePartners
  <2>2. node[s].control \notin task.heads /\ nodes = node
    BY <1>1, <2>1, WideningFacts
  <2> QED BY <1>1, <1>3, <2>2, MergedSInv
<1> QED BY <1>2, <1>3

-----------------------------------------------------------------------------
(* A refinement leaves the root, which waits again.                          *)

LEMMA RestartSInv ==
  ASSUME SInv, AnyInv, pc = "check", NEW x \in Targets, NEW found, Restart(found)
  PROVE  SInv'
<1> DEFINE children == {y \in graph.reached : 1 \in node[y].preds}
           w    == Waiting(node, graph, 1)
           gone == WithBelow(node, w, children)
           g    == Removed(node, w, children)
<1>1. /\ graph' = g /\ node' = SubSeq(node, 1, Max(StillNamed(g))) /\ current' = 1
      /\ pc' = IF IsEmpty(g.frontier) THEN "report" ELSE "begin"
      /\ UNCHANGED <<task, todo, verdict, thrown>>
  BY DEF Restart
<1>2. /\ task \in Tasks /\ Len(node) \in Nat /\ DOMAIN node = 1 .. Len(node) /\ 1 \in DOMAIN node
      /\ node[1] = Root /\ node \in Seq(NodeType)
      /\ DOMAIN graph = {"reached", "addedLast", "frontier"} /\ graph.addedLast \subseteq graph.reached
      /\ graph.reached \subseteq 1 .. Len(node) /\ IsFiniteSet(graph.reached)
      /\ \A z \in graph.reached : node[z].preds \subseteq graph.reached
      /\ todo = <<>> /\ 1 \in graph.reached
  BY StateFacts DEF SInv
<1>3. Root.preds = {} /\ Root.control = 0 /\ Root.block = 1 /\ task.error[0] = {}
  BY <1>2, ExecutionFacts DEF Root
<1>4. IsFiniteSet(Waits) /\ Holds(graph.frontier, Waits) /\ Waits \subseteq graph.reached
  BY WaitingFinite DEF SInv
<1>5. \A z \in graph.reached : node[z].preds \subseteq 1 .. z - 1 /\ (node[z].preds = {} => z = 1)
  BY <1>2, NodeFacts DEF Linked
<1>6. x \in graph.reached \ {1}
  BY <1>2, <1>3 DEF Targets, Target
<1>7. 1 \in Left
  <2> DEFINE Rest == graph.reached \ {1}
  <2>1. Rest \in SUBSET Nat /\ Rest # {}
    BY <1>2, <1>6
  <2>2. PICK z \in Rest : \A k \in Rest : z <= k
    <3> HIDE DEF Rest
    <3> QED BY <2>1, LeastElement
  <2>3. PICK p \in node[z].preds : p \in 1 .. z - 1 /\ p \in graph.reached
    BY <1>2, <1>5
  <2>4. p = 1
    BY <1>2, <2>2, <2>3
  <2> QED BY <2>3, <2>4 DEF SInv, PredsLeft
<1>8. 1 \notin Waits
  BY <1>7 DEF Left
<1>9. /\ DOMAIN w = {"reached", "addedLast", "frontier"}
      /\ w.reached = graph.reached /\ w.addedLast = graph.addedLast
      /\ Holds(w.frontier, Waits \cup {1})
  <2> DEFINE f == FrontierAdd(Keys(node), graph.frontier, 1)
  <2>1. Holds(f, Waits \cup {1})
    BY <1>4, <1>8, FrontierAddHolds
  <2>2. w = [graph EXCEPT !.frontier = f]
    BY DEF Waiting
  <2> HIDE DEF f, w
  <2> QED BY <1>2, <2>1, <2>2
<1> HIDE DEF w
<1>10. Ordered(node, w) /\ children \subseteq 1 .. Len(node)
  BY <1>2, <1>5, <1>9 DEF Ordered
<1>11. /\ gone \subseteq graph.reached /\ children \subseteq gone
       /\ \A z \in graph.reached : node[z].preds \cap gone # {} => z \in gone
  <2>1. gone \subseteq children \cup graph.reached
    BY <1>9, <1>10, WithBelowReached
  <2>2. children \subseteq gone
    BY DEF WithBelow
  <2>3. \A z \in w.reached : node[z].preds \cap gone # {} => z \in gone
    BY <1>10, WithBelowClosed
  <2> QED BY <1>9, <2>1, <2>2, <2>3
<1>12. 1 \notin gone
  <2>1. \A y \in children : Below(node, w, y) \subseteq y + 1 .. Len(node) /\ y \in 1 .. Len(node)
    BY <1>10, BelowLarger
  <2>2. \A y \in children : 1 \notin Below(node, w, y)
    BY <1>2, <2>1
  <2>3. 1 \notin children
    BY <1>2, <1>3
  <2> QED BY <2>2, <2>3 DEF WithBelow
<1>13. \A z \in children : z \in graph.reached
  OBVIOUS
<1>14. \A z \in graph.reached : 1 \in node[z].preds => z \in children
  OBVIOUS
<1> HIDE DEF gone, children
<1>15. graph.reached \ gone = {1}
  <2> DEFINE Rest == graph.reached \ (gone \cup {1})
  <2>1. ASSUME Rest # {} PROVE FALSE
    <3>1. Rest \in SUBSET Nat
      BY <1>2
    <3>2. PICK z \in Rest : \A k \in Rest : z <= k
      <4> HIDE DEF Rest
      <4> QED BY <2>1, <3>1, LeastElement
    <3>3. PICK p \in node[z].preds : p \in 1 .. z - 1 /\ p \in graph.reached
      BY <1>2, <1>5
    <3>4. p \in gone \cup {1}
      BY <1>2, <3>2, <3>3
    <3> QED BY <1>11, <1>14, <3>2, <3>3, <3>4
  <2> QED BY <1>2, <1>12, <2>1
<1>16. /\ g.reached = {1} /\ g.addedLast \subseteq {1} /\ DOMAIN g = {"reached", "addedLast", "frontier"}
       /\ Holds(g.frontier, {1})
  <2>1. IsFiniteSet(gone)
    BY <1>2, <1>11, FS_Subset
  <2>2. \A z \in gone \ children : node[z].preds \subseteq gone
    <3>1. \A z \in gone \ children : z \in graph.reached /\ 1 \notin node[z].preds
      BY <1>11, <1>14
    <3> QED BY <1>2, <1>15, <3>1
  <2>3. IsFiniteSet(Waits \cup {1})
    BY <1>4, FS_AddElement
  <2>4. /\ DOMAIN g = DOMAIN w
        /\ g.reached = w.reached \ gone
        /\ g.addedLast = w.addedLast \ gone
        /\ Holds(g.frontier, (Waits \cup {1}) \ gone)
    BY <1>9, <2>1, <2>2, <2>3, RemovedWhole DEF gone
  <2>5. (Waits \cup {1}) \ gone = {1}
    BY <1>4, <1>12, <1>15
  <2> HIDE DEF g
  <2> QED BY <1>2, <1>9, <1>15, <2>4, <2>5
<1> HIDE DEF g
<1>17. PICK k \in 1 .. Len(node) : node' = SubSeq(node, 1, k)
  <2>1. StillNamed(g) \in SUBSET (1 .. Len(node)) /\ 1 \in StillNamed(g)
    BY <1>2 DEF StillNamed
  <2>2. Max(StillNamed(g)) \in 1 .. Len(node)
    BY <1>2, <2>1, SomeKept
  <2> QED BY <1>1, <2>2
<1>18. DOMAIN node' = 1 .. k /\ 1 .. k \subseteq DOMAIN node /\ \A y \in 1 .. k : node'[y] = node[y]
  <2>1. 1 \in Int /\ k \in Int /\ \A i \in 1 .. k : node[i] \in NodeType
    BY <1>2
  <2> DEFINE q == SubSeq(node, 1, k)
  <2>2. /\ q \in Seq(NodeType)
        /\ Len(q) = IF 1 <= k THEN k - 1 + 1 ELSE 0
        /\ \A i \in 1 .. k - 1 + 1 : q[i] = node[1 + i - 1]
    BY <2>1, SubSeqProperties
  <2>3. node' = q
    BY <1>17
  <2> HIDE DEF q
  <2>4. 1 <= k /\ k - 1 + 1 = k /\ \A i \in 1 .. k : 1 + i - 1 = i
    BY <1>17
  <2> QED BY <1>2, <2>2, <2>3, <2>4
<1>19. node'[1] = Root
  BY <1>2, <1>18
<1>20. Waits' = {1} /\ Left' = {} /\ Holds(graph.frontier, Waits)' /\ graph'.reached = {1}
  BY <1>1, <1>16 DEF Waits, Left, Holds
<1>21. pc' = "begin"
  <2>1. IsFiniteSet({1}) /\ {1} # {}
    BY FS_Singleton
  <2>2. ~IsEmpty(g.frontier)
    BY <1>16, <2>1, NotEndless
  <2> QED BY <1>1, <2>2
<1>22. InOrder' /\ FrontierRight' /\ (1 \in graph.reached)' /\ Sound' /\ NoException'
  BY <1>1, <1>20 DEF SInv, InOrder, Controls, FrontierRight, Sound, NoException
<1>23. BlocksInOrder' /\ PredsLeft'
  BY <1>3, <1>19, <1>20, <1>21 DEF BlocksInOrder, PredsLeft
<1>24. TodoRight' /\ AllCovered'
  <2>1. todo' = <<>> /\ Len(<<>>) = 0
    BY <1>1, <1>2
  <2> QED BY <2>1, <1>20, <1>21 DEF TodoRight, AllCovered
<1>25. MergesNumbered'
  BY <1>18 DEF SInv, MergesNumbered
<1>26. TargetsNoted'
  BY <1>1, <1>3, <1>19, <1>20 DEF TargetsNoted, Target
<1> QED BY <1>22, <1>23, <1>24, <1>25, <1>26 DEF SInv

LEMMA RefineSInv ==
  ASSUME SInv, AnyInv, Refine
  PROVE  SInv'
<1>1. PICK L : IInv(L)
  BY DEF AnyInv, Consistent
<1>2. PICK x \in Targets : \E trace \in Traces(x) :
        LET blocks == Blocks(trace, x)
        IN /\ ~FeasibleTrace(blocks)
           /\ \/ Len(blocks) = 1
              \/ \E found : Restart(found)
  BY DEF Refine
<1>2a. PICK trace \in Traces(x) :
         /\ ~FeasibleTrace(Blocks(trace, x))
         /\ \/ Len(Blocks(trace, x)) = 1
            \/ \E found : Restart(found)
  BY <1>2
<1>3. pc = "check"
  BY DEF Refine
<1>4. Len(Blocks(trace, x)) # 1
  <2>1. Len(Blocks(trace, x)) > 1
    BY <1>1, <1>2a, <1>3, PlaceForInterpolants
  <2>2. ~(1 > 1)
    OBVIOUS
  <2> QED BY <2>1, <2>2, Zenon
<1>5. PICK found : Restart(found)
  BY <1>2a, <1>4
<1> QED BY <1>3, <1>5, RestartSInv

-----------------------------------------------------------------------------
(* All steps.                                                                *)

LEMMA NextSInv ==
  ASSUME SInv, AnyInv, AnyInv', [Next]_allVars
  PROVE  SInv'
<1>1. CASE Choose
  BY <1>1, ChooseSInv
<1>2. CASE Process
  BY <1>2, ProcessSInv
<1>3. CASE Check
  BY <1>3, CheckSInv
<1>4. CASE Refine
  BY <1>4, RefineSInv
<1>5. CASE Report
  BY <1>5, ReportSInv
<1>6. CASE Begin \/ Expanded \/ Explored \/ UNCHANGED allVars
  <2>1. /\ UNCHANGED <<task, node, graph, current, todo, verdict, thrown>>
        /\ pc' = "expand" => pc = "expand"
        /\ pc \in {"check", "report"} => pc' = pc
    BY <1>6 DEF Begin, Expanded, Explored, allVars, vars
  <2>2. Sound'
    BY <2>1 DEF SInv, Sound
  <2> QED BY <2>1, <2>2, SameGraphSInv
<1> QED BY <1>1, <1>2, <1>3, <1>4, <1>5, <1>6 DEF Next

LEMMA InOrderStays == Spec /\ InOrder => []SInv
<1>1. Init /\ InOrder /\ AnyInv => SInv
  BY InitSInv
<1>2. SInv /\ AnyInv /\ AnyInv' /\ [Next]_allVars => SInv'
  BY NextSInv
<1>3. Spec => []AnyInv
  BY Truthfulness DEF AnyInv
<1> QED BY <1>1, <1>2, <1>3, PTL DEF Spec

(* If the states of a program are explored in order, a property is reported    *)
(* as satisfied only if no execution violates it: the steps of every state    *)
(* that was expanded lead to states that are covered, whatever was merged or  *)
(* removed (CEGARAlgorithm.run, GraphCoverCheckStopOperator).                 *)
THEOREM SoundInOrder == Spec /\ InOrder => []Sound
<1>1. SInv => Sound
  BY DEF SInv
<1> QED BY <1>1, InOrderStays, PTL

(* And no exception is thrown: every parent is in the graph, and the frontier  *)
(* counts its elements right (ReachabilityAlgorithm.run).                     *)
THEOREM NoExceptionInOrder == Spec /\ InOrder => []NoException
<1>1. SInv => NoException
  BY DEF SInv
<1> QED BY <1>1, InOrderStays, PTL

(* And the verdicts are given as promised, whatever is refined.                *)
THEOREM VerdictsKeptInOrder == Spec /\ InOrder => KeepsPromise
BY SoundInOrder, VerdictsKept, PTL
===============================================================================
