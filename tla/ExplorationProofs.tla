-------------------------- MODULE ExplorationProofs --------------------------
(***************************************************************************)
(* What the proofs about Reachability and Predicates need of the graph that  *)
(* both explore: what removing and merging states leaves of the reached      *)
(* states, and of the frontier.                                              *)
(***************************************************************************)
EXTENDS Exploration, TLAPS, SequenceTheorems, FiniteSetTheorems, WellFoundedInduction

-----------------------------------------------------------------------------
(* Sequences and numbers.                                                    *)

LEMMA LeastElement ==
  ASSUME NEW S \in SUBSET Nat, S # {}
  PROVE  \E m \in S : \A k \in S : m <= k
<1>1. PICK m \in S : \A k \in S : ~(<<k, m>> \in OpToRel(<, Nat))
  BY NatLessThanWellFounded, WFMin
<1>2. \A k \in S : ~(k < m)
  BY <1>1 DEF OpToRel
<1> QED BY <1>2

(* A function that is defined by recursion exists; its step is the function G. *)
Follows(G, b, l, m, D, f) ==
  /\ f \in [l .. m -> D] /\ f[l] = b
  /\ \A i \in l + 1 .. m : f[i] = G[<<i, f[i - 1]>>]

LEMMA Recursion ==
  ASSUME NEW l \in Nat, NEW n \in Nat, l <= n,
         NEW D, NEW b \in D, NEW G \in [(l + 1 .. n) \X D -> D]
  PROVE  \E f : Follows(G, b, l, n, D, f)
<1> DEFINE Up(m, f) == Follows(G, b, l, m, D, f)
           Bad == {m \in l .. n : ~ \E f : Up(m, f)}
<1>1. CASE Bad # {}
  <2>0. Bad \in SUBSET Nat
    OBVIOUS
  <2>1. PICK m \in Bad : \A k \in Bad : m <= k
    <3> HIDE DEF Bad
    <3> QED BY <1>1, <2>0, LeastElement
  <2>2. m \in l .. n /\ ~ \E f : Up(m, f)
    OBVIOUS
  <2>3. m # l
    <3>1. Up(l, [i \in l .. l |-> b])
      BY DEF Follows
    <3> QED BY <3>1, <2>2
  <2>4. m - 1 \in l .. n /\ m - 1 \notin Bad
    <3>1. m - 1 \in l .. n /\ ~(m <= m - 1)
      BY <2>2, <2>3
    <3> QED BY <2>1, <3>1
  <2>5. PICK f : Up(m - 1, f)
    BY <2>4
  <2> DEFINE g == [i \in l .. m |-> IF i = m THEN G[<<m, f[m - 1]>>] ELSE f[i]]
  <2>6. m \in l + 1 .. n /\ f[m - 1] \in D
    BY <2>2, <2>3, <2>5 DEF Follows
  <2>7. G[<<m, f[m - 1]>>] \in D
    BY <2>6
  <2>8. \A i \in l .. m : i # m => i \in l .. m - 1
    BY <2>6
  <2>9. g \in [l .. m -> D] /\ g[l] = b
    BY <2>5, <2>6, <2>7, <2>8 DEF Follows
  <2>10. \A i \in l .. m - 1 : g[i] = f[i]
    BY <2>6
  <2>11. g[m] = G[<<m, f[m - 1]>>]
    BY <2>6
  <2> HIDE DEF g
  <2>12. \A i \in l + 1 .. m : g[i] = G[<<i, g[i - 1]>>]
    <3> SUFFICES ASSUME NEW i \in l + 1 .. m PROVE g[i] = G[<<i, g[i - 1]>>]
      OBVIOUS
    <3>1. i - 1 \in l .. m - 1 /\ g[i - 1] = f[i - 1]
      BY <2>6, <2>10
    <3>2. i # m => i \in l + 1 .. m - 1 /\ g[i] = f[i]
      BY <2>6, <2>10
    <3> QED BY <3>1, <3>2, <2>5, <2>11 DEF Follows
  <2> QED BY <2>2, <2>9, <2>12 DEF Follows
<1>2. CASE Bad = {}
  <2>1. n \in l .. n
    OBVIOUS
  <2> QED BY <1>2, <2>1
<1> QED BY <1>1, <1>2

LEMMA Concatenated ==
  ASSUME NEW T, NEW s \in Seq(T), NEW t \in Seq(T)
  PROVE  /\ s \o t \in Seq(T)
         /\ Len(s \o t) = Len(s) + Len(t)
         /\ Len(s) \in Nat /\ DOMAIN s = 1 .. Len(s)
         /\ Len(t) \in Nat /\ DOMAIN t = 1 .. Len(t)
         /\ DOMAIN (s \o t) = 1 .. Len(s) + Len(t)
         /\ \A x \in DOMAIN s : (s \o t)[x] = s[x]
         /\ \A i \in DOMAIN t : (s \o t)[Len(s) + i] = t[i]
         /\ \A x \in DOMAIN (s \o t) : x \in DOMAIN s \/ \E i \in DOMAIN t : x = Len(s) + i
<1>1. /\ s \o t \in Seq(T)
      /\ Len(s \o t) = Len(s) + Len(t)
      /\ Len(s) \in Nat /\ Len(t) \in Nat
      /\ DOMAIN s = 1 .. Len(s) /\ DOMAIN t = 1 .. Len(t)
  OBVIOUS
<1>2. DOMAIN (s \o t) = 1 .. Len(s) + Len(t)
  BY <1>1
<1>3. \A x \in DOMAIN s : (s \o t)[x] = s[x]
  OBVIOUS
<1>4. \A i \in DOMAIN t : (s \o t)[Len(s) + i] = t[i]
  BY <1>1, <1>2
<1>5. ASSUME NEW x \in DOMAIN (s \o t), x \notin DOMAIN s
      PROVE  \E i \in DOMAIN t : x = Len(s) + i
  <2>1. x - Len(s) \in DOMAIN t /\ x = Len(s) + (x - Len(s))
    BY <1>1, <1>2, <1>5
  <2> QED BY <2>1
<1> QED BY <1>1, <1>2, <1>3, <1>4, <1>5

-----------------------------------------------------------------------------
(* Removing states with what is below them.                                  *)

(* A state has a larger number than its predecessors. *)
Ordered(nodes, g) ==
  /\ Len(nodes) \in Nat
  /\ \A z \in g.reached : z \in 1 .. Len(nodes) /\ nodes[z].preds \subseteq 1 .. z - 1

(* Below collects, id by id, the reached states that have a predecessor in what *)
(* was collected before.                                                     *)
Extended(nodes, g, S, i) == S \cup {z \in {i} \cap g.reached : nodes[z].preds \cap S # {}}

Layers(nodes, g, x, f) ==
  /\ \A i \in x .. Len(nodes) :
       f[i] = IF i = x THEN {x} ELSE Extended(nodes, g, f[i - 1], i)
  /\ Below(nodes, g, x) = f[Len(nodes)] \ {x}

LEMMA BelowLayers ==
  ASSUME NEW nodes, NEW g, Ordered(nodes, g), NEW x \in 1 .. Len(nodes)
  PROVE  \E f : Layers(nodes, g, x, f)
<1> DEFINE n == Len(nodes)
           extend(S, i) == S \cup {y \in {i} \cap g.reached : nodes[y].preds \cap S # {}}
           Step(f) == [i \in x .. n |-> IF i = x THEN {x} ELSE extend(f[i - 1], i)]
           D == SUBSET ({x} \cup g.reached)
           G == [q \in (x + 1 .. n) \X D |-> extend(q[2], q[1])]
<1>1. n \in Nat /\ x \in Nat /\ x <= n
  BY DEF Ordered
<1>2. Below(nodes, g, x) = (CHOOSE f : f = Step(f))[n] \ {x}
  BY DEF Below
<1> HIDE DEF n
<1>3. \A S, i : extend(S, i) = Extended(nodes, g, S, i)
  BY DEF Extended
<1>4. G \in [(x + 1 .. n) \X D -> D] /\ {x} \in D
      /\ \A i \in x + 1 .. n, S \in D : G[<<i, S>>] = extend(S, i)
  OBVIOUS
<1> HIDE DEF extend, G, D
<1>5. PICK h : Follows(G, {x}, x, n, D, h)
  BY <1>1, <1>4, Recursion
<1>6. h = Step(h)
  <2>1. \A i \in x .. n : i # x => i \in x + 1 .. n /\ i - 1 \in x .. n
    BY <1>1
  <2> QED BY <2>1, <1>4, <1>5 DEF Follows
<1>7. PICK f : f = Step(f) /\ Below(nodes, g, x) = f[n] \ {x}
  BY <1>2, <1>6
<1>8. \A i \in x .. n : f[i] = IF i = x THEN {x} ELSE extend(f[i - 1], i)
  BY <1>7
<1> QED BY <1>3, <1>7, <1>8 DEF n, Layers

(* What is below a state is reached. *)
LEMMA BelowReached ==
  ASSUME NEW nodes, NEW g, Ordered(nodes, g), NEW x \in 1 .. Len(nodes)
  PROVE  Below(nodes, g, x) \subseteq g.reached
<1>1. PICK f : Layers(nodes, g, x, f)
  BY BelowLayers
<1> DEFINE n == Len(nodes)
           Bad == {i \in x .. n : ~(f[i] \subseteq {x} \cup g.reached)}
<1>1a. Below(nodes, g, x) = f[n] \ {x}
  BY <1>1 DEF Layers
<1>1b. n \in Nat /\ x \in Nat /\ x <= n
  BY DEF Ordered
<1>1c. \A i \in x .. n : f[i] = IF i = x THEN {x} ELSE Extended(nodes, g, f[i - 1], i)
  BY <1>1 DEF Layers
<1>2. /\ \A i \in x .. n : f[i] = IF i = x THEN {x} ELSE Extended(nodes, g, f[i - 1], i)
      /\ Below(nodes, g, x) = f[n] \ {x}
      /\ n \in Nat /\ x \in Nat /\ x <= n
  BY <1>1a, <1>1b, <1>1c
<1> HIDE DEF n
<1>3. CASE Bad # {}
  <2>1. Bad \in SUBSET Nat
    BY <1>2
  <2>2. PICK m \in Bad : \A k \in Bad : m <= k
    <3> HIDE DEF Bad
    <3> QED BY <1>3, <2>1, LeastElement
  <2>3. m \in x .. n /\ ~(f[m] \subseteq {x} \cup g.reached)
    OBVIOUS
  <2>4. m # x
    BY <1>2, <2>3
  <2>5. m - 1 \in x .. n /\ ~(m <= m - 1)
    BY <1>2, <2>3, <2>4
  <2>6. f[m - 1] \subseteq {x} \cup g.reached
    BY <2>2, <2>5
  <2>7. f[m] = Extended(nodes, g, f[m - 1], m)
    BY <1>2, <2>3, <2>4
  <2>8. f[m] \subseteq {x} \cup g.reached
    BY <2>6, <2>7 DEF Extended
  <2> QED BY <2>3, <2>8
<1>4. CASE Bad = {}
  <2>1. n \in x .. n
    BY <1>2
  <2>2. f[n] \subseteq {x} \cup g.reached
    BY <1>4, <2>1
  <2> QED BY <1>2, <2>2
<1> QED BY <1>3, <1>4

LEMMA BelowClosed ==
  ASSUME NEW nodes, NEW g, Ordered(nodes, g), NEW x \in 1 .. Len(nodes),
         NEW z \in g.reached, NEW p \in nodes[z].preds, p = x \/ p \in Below(nodes, g, x)
  PROVE  z \in Below(nodes, g, x)
<1> DEFINE n == Len(nodes)
           extend(S, i) == Extended(nodes, g, S, i)
<1>1. n \in Nat /\ x \in Nat /\ x <= n /\ z \in 1 .. n /\ nodes[z].preds \subseteq 1 .. z - 1
  BY DEF Ordered
<1>3. \A i, S : S \subseteq extend(S, i)
  BY DEF Extended
<1>4. \A S : nodes[z].preds \cap S # {} => z \in extend(S, z)
  BY DEF Extended
<1>5. \A i, S : \A y \in extend(S, i) : y \in S \/ y = i
  BY DEF Extended
<1>8. PICK f : Layers(nodes, g, x, f)
  BY BelowLayers
<1>9. Below(nodes, g, x) = f[n] \ {x}
  BY <1>8 DEF Layers
<1>10. \A i \in x .. n : f[i] = IF i = x THEN {x} ELSE extend(f[i - 1], i)
  BY <1>8 DEF Layers
<1> HIDE DEF n, extend
<1> DEFINE Small(i) == f[i] \subseteq x .. i /\ x \in f[i]
           Bad == {i \in x .. n : ~Small(i)}
<1>11. \A i \in x .. n : Small(i)
  <2>1. CASE Bad # {}
    <3>1. Bad \in SUBSET Nat
      BY <1>1
    <3>2. PICK m \in Bad : \A k \in Bad : m <= k
      <4> HIDE DEF Bad
      <4> QED BY <2>1, <3>1, LeastElement
    <3>3. m \in x .. n /\ ~Small(m)
      OBVIOUS
    <3>4. m # x
      BY <1>1, <1>10, <3>3
    <3>5. m - 1 \in x .. n /\ ~(m <= m - 1)
      BY <1>1, <3>3, <3>4
    <3>6. Small(m - 1)
      BY <3>2, <3>5
    <3>7. f[m] = extend(f[m - 1], m)
      BY <1>10, <3>3, <3>4
    <3>8. x \in f[m] /\ \A y \in f[m] : y \in x .. m - 1 \/ y = m
      BY <3>6, <3>7, <1>3, <1>5
    <3> QED BY <3>3, <3>8, <1>1
  <2> QED BY <2>1
<1>12. \A i \in x .. n : f[i] \subseteq f[n]
  <2> DEFINE Gap == {j \in 0 .. n - x : ~(f[n - j] \subseteq f[n])}
  <2>1. CASE Gap # {}
    <3>1. Gap \in SUBSET Nat
      BY <1>1
    <3>2. PICK m \in Gap : \A k \in Gap : m <= k
      <4> HIDE DEF Gap
      <4> QED BY <2>1, <3>1, LeastElement
    <3>3. m \in 0 .. n - x /\ ~(f[n - m] \subseteq f[n])
      OBVIOUS
    <3>4. m # 0 /\ m - 1 \in 0 .. n - x /\ ~(m <= m - 1)
      BY <1>1, <3>3
    <3>5. f[n - (m - 1)] \subseteq f[n]
      BY <3>2, <3>4
    <3>6. n - (m - 1) \in x .. n /\ n - (m - 1) # x /\ n - (m - 1) - 1 = n - m
      BY <1>1, <3>3, <3>4
    <3>7. f[n - (m - 1)] = extend(f[n - m], n - (m - 1))
      BY <1>10, <3>6
    <3> QED BY <3>3, <3>5, <3>7, <1>3
  <2>2. CASE Gap = {}
    <3> SUFFICES ASSUME NEW i \in x .. n PROVE f[i] \subseteq f[n]
      OBVIOUS
    <3>1. n - i \in 0 .. n - x /\ n - (n - i) = i
      BY <1>1
    <3> QED BY <2>2, <3>1
  <2> QED BY <2>1, <2>2
<1>13. p \in f[n] /\ p \in 1 .. z - 1
  BY <1>1, <1>9, <1>11
<1>14. p >= x
  BY <1>1, <1>11, <1>13
<1>15. z \in x .. n /\ z # x /\ z - 1 \in x .. n
  BY <1>1, <1>13, <1>14
<1>16. p \in f[z - 1]
  <2> DEFINE Late == {i \in z - 1 .. n : p \in f[i]}
  <2>1. n \in Late /\ Late \in SUBSET Nat
    BY <1>1, <1>13, <1>15
  <2>2. PICK m \in Late : \A k \in Late : m <= k
    <3> HIDE DEF Late
    <3> QED BY <2>1, LeastElement
  <2>3. m \in z - 1 .. n /\ p \in f[m]
    OBVIOUS
  <2>4. CASE m # z - 1
    <3>1. m \in x .. n /\ m # x /\ m - 1 \in z - 1 .. n /\ ~(m <= m - 1) /\ p # m
      BY <1>1, <1>13, <1>15, <2>3, <2>4
    <3>2. f[m] = extend(f[m - 1], m)
      BY <1>10, <3>1
    <3>3. p \in f[m - 1]
      BY <1>5, <2>3, <3>1, <3>2
    <3> QED BY <2>2, <3>1, <3>3
  <2> QED BY <2>3, <2>4
<1>17. f[z] = extend(f[z - 1], z)
  BY <1>10, <1>15
<1>18. z \in f[z]
  BY <1>4, <1>16, <1>17
<1> QED BY <1>9, <1>12, <1>15, <1>18

LEMMA WithBelowClosed ==
  ASSUME NEW nodes, NEW g, Ordered(nodes, g), NEW xs, xs \subseteq 1 .. Len(nodes),
         NEW z \in g.reached, nodes[z].preds \cap WithBelow(nodes, g, xs) # {}
  PROVE  z \in WithBelow(nodes, g, xs)
<1>1. PICK p \in nodes[z].preds : p \in WithBelow(nodes, g, xs)
  OBVIOUS
<1>2. PICK x \in xs : p = x \/ p \in Below(nodes, g, x)
  BY <1>1 DEF WithBelow
<1>3. z \in Below(nodes, g, x)
  BY <1>2, BelowClosed
<1> QED BY <1>3 DEF WithBelow

(* The graph h is g without some states, xs among them, and what stays lost   *)
(* no predecessor.                                                           *)
Shrinks(nodes, g, h, xs) ==
  /\ DOMAIN h = DOMAIN g
  /\ \E lost : /\ xs \subseteq lost
               /\ h.reached = g.reached \ lost
               /\ h.addedLast = g.addedLast \ lost
  /\ \A z \in h.reached : nodes[z].preds \cap (g.reached \ h.reached) = {}

LEMMA RemovedKeeps ==
  ASSUME NEW nodes, NEW g, Ordered(nodes, g), NEW xs, xs \subseteq 1 .. Len(nodes),
         DOMAIN g = {"reached", "addedLast", "frontier"}
  PROVE  Shrinks(nodes, g, Removed(nodes, g, xs), xs)
<1> DEFINE h == Removed(nodes, g, xs)
<1>1. \E r, gone, cut :
        /\ h = Without(nodes, r, gone \cup WithBelow(nodes, g, cut))
        /\ gone = WithBelow(nodes, g, xs)
        /\ cut \subseteq g.reached
        /\ DOMAIN r = DOMAIN g
        /\ r.reached = g.reached /\ r.addedLast = g.addedLast
  <2> DEFINE gone     == WithBelow(nodes, g, xs)
             again    == IF (gone \ xs) \cap g.frontier.elements = {} THEN {}
                           ELSE Bereaved(nodes, gone \ xs, gone)
             siblings == {y \in g.reached : \E pair \in again : pair[2] \in nodes[y].preds}
             cut      == {z \in g.reached : nodes[z].preds \cap siblings # {}}
             readded  == [g EXCEPT !.frontier = ReAdded(nodes, @, again)]
  <2>1. h = Without(nodes, readded, gone \cup WithBelow(nodes, g, cut))
    BY Zenon DEF Removed
  <2>2. cut \subseteq g.reached
    OBVIOUS
  <2> HIDE DEF again, cut
  <2>3. /\ DOMAIN readded = DOMAIN g
        /\ readded.reached = g.reached /\ readded.addedLast = g.addedLast
    OBVIOUS
  <2> HIDE DEF readded
  <2> QED BY <2>1, <2>2, <2>3
<1>2. PICK r, gone, cut :
        /\ h = Without(nodes, r, gone \cup WithBelow(nodes, g, cut))
        /\ gone = WithBelow(nodes, g, xs)
        /\ cut \subseteq g.reached
        /\ DOMAIN r = DOMAIN g
        /\ r.reached = g.reached /\ r.addedLast = g.addedLast
  BY <1>1
<1> DEFINE lost == gone \cup WithBelow(nodes, g, cut)
<1>3. /\ DOMAIN h = DOMAIN g
      /\ h.reached = g.reached \ lost /\ h.addedLast = g.addedLast \ lost
  <2> HIDE DEF lost, h
  <2>1. h = Without(nodes, r, lost)
    BY <1>2 DEF lost
  <2> QED BY <1>2, <2>1 DEF Without
<1>4. xs \subseteq lost
  BY <1>2 DEF WithBelow
<1>5. cut \subseteq 1 .. Len(nodes)
  BY <1>2 DEF Ordered
<1>6. ASSUME NEW z \in h.reached PROVE nodes[z].preds \cap lost = {}
  <2>1. z \in g.reached /\ z \notin gone /\ z \notin WithBelow(nodes, g, cut)
    BY <1>3
  <2>2. nodes[z].preds \cap gone = {}
    BY <1>2, <2>1, WithBelowClosed
  <2>3. nodes[z].preds \cap WithBelow(nodes, g, cut) = {}
    BY <1>5, <2>1, WithBelowClosed
  <2> QED BY <2>2, <2>3
<1> HIDE DEF h, lost
<1>7. \A z \in h.reached : nodes[z].preds \cap (g.reached \ h.reached) = {}
  BY <1>3, <1>6
<1>8. Shrinks(nodes, g, h, xs)
  BY <1>3, <1>4, <1>7 DEF Shrinks
<1> QED BY <1>8 DEF h

(* Merging puts the new state in the place of its partners. *)
LEMMA MergedGraphHolds ==
  ASSUME NEW nodes, NEW partners, partners \subseteq graph.reached,
         DOMAIN graph = {"reached", "addedLast", "frontier"},
         Ordered(nodes, [reached |-> graph.reached \cup {Fresh}])
  PROVE  LET g == MergedGraph(nodes, partners)
         IN /\ DOMAIN g = {"reached", "addedLast", "frontier"}
            /\ g.reached \subseteq (graph.reached \cup {Fresh}) \ partners
            /\ g.addedLast \subseteq g.reached \cap {Fresh}
            /\ \A z \in g.reached :
                 nodes[z].preds \cap ((graph.reached \cup {Fresh}) \ g.reached) = {}
<1> DEFINE f       == FrontierRemoveAll(Keys(nodes), FrontierAdd(Keys(nodes), graph.frontier, Fresh), partners)
           waiting == [graph EXCEPT !.frontier = f]
           base    == [waiting EXCEPT !.reached = waiting.reached \cup {Fresh}, !.addedLast = {Fresh}]
           g       == MergedGraph(nodes, partners)
<1>1. g = Removed(nodes, base, partners)
  BY Zenon DEF MergedGraph, ReachedAdd
<1> HIDE DEF f
<1>2. DOMAIN waiting = {"reached", "addedLast", "frontier"} /\ waiting.reached = graph.reached
  OBVIOUS
<1> HIDE DEF waiting
<1>3. /\ DOMAIN base = {"reached", "addedLast", "frontier"}
      /\ base.reached = graph.reached \cup {Fresh}
      /\ base.addedLast = {Fresh}
  BY <1>2
<1> HIDE DEF base, g
<1>4. Ordered(nodes, base) /\ partners \subseteq 1 .. Len(nodes)
  BY <1>3 DEF Ordered
<1>5. Shrinks(nodes, base, g, partners)
  BY <1>1, <1>3, <1>4, RemovedKeeps
<1>6. g.addedLast \subseteq g.reached \cap {Fresh}
  BY <1>3, <1>5 DEF Shrinks
<1> QED BY <1>3, <1>5, <1>6 DEF Shrinks, g

-----------------------------------------------------------------------------
(* The frontier, in any order and with copies.                               *)

(* The copies are among Q; what waits is in a heap, and counted.             *)
Counted(f, Q) ==
  /\ DOMAIN f = {"heap", "elements", "size", "parts", "turns"}
  /\ DOMAIN f.heap \subseteq Q
  /\ \A x \in DOMAIN f.heap : f.heap[x] \in Nat \ {0}
  /\ f.elements \subseteq DOMAIN f.heap
  /\ IsFiniteSet(f.elements)
  /\ f.size \in Nat /\ Cardinality(f.elements) <= f.size

(* The elements of h are those of f and S; those of f without S. *)
Gains(f, h, S) == h.elements = f.elements \cup S
Loses(f, h, S) == h.elements = f.elements \ S

LEMMA AddCounted ==
  ASSUME NEW keys, NEW Q, NEW f, Counted(f, Q), NEW x \in Q
  PROVE  /\ Counted(FrontierAdd(keys, f, x), Q)
         /\ Gains(f, FrontierAdd(keys, f, x), {x})
<1> DEFINE h == FrontierAdd(keys, f, x)
           b == f.heap (+) SetToBag({x})
<1>1. /\ DOMAIN h = {"heap", "elements", "size", "parts", "turns"}
      /\ h.heap = b
      /\ h.elements = f.elements \cup {x}
      /\ h.size = f.size + 1
  BY DEF Counted, FrontierAdd
<1>2. /\ DOMAIN b = DOMAIN f.heap \cup {x}
      /\ \A y \in DOMAIN b : b[y] \in Nat \ {0}
  BY DEF Counted, (+), SetToBag
<1>3. /\ IsFiniteSet(f.elements \cup {x})
      /\ Cardinality(f.elements \cup {x}) <= Cardinality(f.elements) + 1
      /\ Cardinality(f.elements) \in Nat /\ Cardinality(f.elements \cup {x}) \in Nat
  BY FS_AddElement, FS_CardinalityType DEF Counted
<1> HIDE DEF h, b
<1>4. Counted(h, Q)
  BY <1>1, <1>2, <1>3 DEF Counted
<1> QED BY <1>1, <1>4 DEF h, Gains

LEMMA TurnCounted ==
  ASSUME NEW keys, NEW Q, NEW f, Counted(f, Q)
  PROVE  /\ Counted(Activated(keys, f), Q) /\ Activated(keys, f).elements = f.elements
         /\ Counted(Peeked(keys, f), Q) /\ Peeked(keys, f).elements = f.elements
         /\ Activated(keys, f).size = f.size /\ Peeked(keys, f).size = f.size
BY DEF Counted, Activated, Peeked

LEMMA RemoveCounted ==
  ASSUME NEW keys, NEW Q, NEW f, Counted(f, Q), NEW x
  PROVE  /\ Counted(FrontierRemove(keys, f, x), Q)
         /\ Loses(f, FrontierRemove(keys, f, x), {x})
<1> DEFINE h == [f EXCEPT !.heap = @ (-) SetToBag({x}), !.elements = @ \ {x},
                          !.size = IF x \in f.elements THEN @ - 1 ELSE @,
                          !.parts = @ \cup {keys[x].part}]
           b == f.heap (-) SetToBag({x})
<1>1. /\ DOMAIN h = {"heap", "elements", "size", "parts", "turns"}
      /\ h.heap = b
      /\ h.elements = f.elements \ {x}
      /\ h.size = IF x \in f.elements THEN f.size - 1 ELSE f.size
  BY DEF Counted
<1>2. /\ DOMAIN f.heap \ {x} \subseteq DOMAIN b /\ DOMAIN b \subseteq DOMAIN f.heap
      /\ \A y \in DOMAIN b : b[y] \in Nat \ {0}
  BY DEF Counted, (-), SetToBag
<1>3. /\ IsFiniteSet(f.elements \ {x})
      /\ Cardinality(f.elements \ {x}) =
           IF x \in f.elements THEN Cardinality(f.elements) - 1 ELSE Cardinality(f.elements)
      /\ Cardinality(f.elements) \in Nat /\ Cardinality(f.elements \ {x}) \in Nat
  BY FS_RemoveElement, FS_CardinalityType DEF Counted
<1>4. FrontierRemove(keys, f, x) = Activated(keys, h)
  BY DEF FrontierRemove
<1> HIDE DEF h, b
<1>5. Counted(h, Q)
  BY <1>1, <1>2, <1>3 DEF Counted
<1>6. Activated(keys, h).elements = f.elements \ {x}
  BY <1>1, <1>5, TurnCounted
<1> QED BY <1>4, <1>5, <1>6, TurnCounted DEF Loses

Pick(s) == CHOOSE y \in s : TRUE

Seconds(pairs) == {pair[2] : pair \in pairs}

(* A fold over a finite set exists: the removals, and the additions of the    *)
(* second components.                                                        *)
Folding(kind, keys, base, T, g) ==
  [s \in T |-> IF s = {} THEN base
               ELSE IF kind = "add" THEN FrontierAdd(keys, g[s \ {Pick(s)}], Pick(s)[2])
                           ELSE FrontierRemove(keys, g[s \ {Pick(s)}], Pick(s))]

Folds(kind, keys, base, S, g) == g = Folding(kind, keys, base, SUBSET S, g)

LEMMA FoldExists ==
  ASSUME NEW kind \in {"add", "remove"}, NEW keys, NEW base, NEW S, IsFiniteSet(S)
  PROVE  \E g : Folds(kind, keys, base, S, g)
<1> DEFINE T(n) == {s \in SUBSET S : Cardinality(s) <= n}
           Op(h, x) == IF kind = "add" THEN FrontierAdd(keys, h, x[2]) ELSE FrontierRemove(keys, h, x)
           Up(n, g) == g = Folding(kind, keys, base, T(n), g)
           Bad == {n \in 0 .. Cardinality(S) : ~ \E g : Up(n, g)}
<1>1. /\ Cardinality(S) \in Nat
      /\ \A s \in SUBSET S : /\ IsFiniteSet(s) /\ Cardinality(s) \in Nat
                             /\ Cardinality(s) <= Cardinality(S)
                             /\ Cardinality(s) = 0 <=> s = {}
  BY FS_CardinalityType, FS_Subset, FS_EmptySet
<1>2. \A s \in SUBSET S : \A x \in s : Cardinality(s \ {x}) = Cardinality(s) - 1
  BY <1>1, FS_RemoveElement
<1>3. CASE Bad # {}
  <2>1. Bad \in SUBSET Nat
    BY <1>1
  <2>2. PICK m \in Bad : \A k \in Bad : m <= k
    <3> HIDE DEF Bad
    <3> QED BY <1>3, <2>1, LeastElement
  <2>3. m \in 0 .. Cardinality(S) /\ ~ \E g : Up(m, g)
    OBVIOUS
  <2>4. m # 0
    <3>1. SUFFICES ASSUME m = 0 PROVE Up(0, [s \in T(0) |-> base])
      BY <2>3
    <3>2. \A s \in T(0) : s = {}
      BY <1>1
    <3> QED BY <3>2 DEF Folding
  <2>5. m - 1 \in 0 .. Cardinality(S) /\ ~(m <= m - 1)
    BY <1>1, <2>3, <2>4
  <2>6. PICK f : Up(m - 1, f)
    BY <2>2, <2>5
  <2> DEFINE g == Folding(kind, keys, base, T(m), f)
  <2>7. \A s \in T(m - 1) : g[s] = f[s]
    <3>1. \A s \in T(m - 1) : s \in T(m)
      BY <1>1, <2>3
    <3> QED BY <2>6, <3>1 DEF Folding
  <2>8. \A s \in T(m) : s # {} => s \ {Pick(s)} \in T(m - 1)
    <3> SUFFICES ASSUME NEW s \in SUBSET S, Cardinality(s) <= m, s # {}
                 PROVE  s \ {Pick(s)} \in T(m - 1)
      OBVIOUS
    <3>1. Pick(s) \in s
      BY DEF Pick
    <3> DEFINE c == Pick(s)
    <3>2. c \in s
      BY <3>1
    <3> HIDE DEF c
    <3>3. s \ {c} \in SUBSET S /\ Cardinality(s \ {c}) = Cardinality(s) - 1
      BY <1>2, <3>2
    <3>4. Cardinality(s \ {c}) <= m - 1
      BY <1>1, <2>3, <3>3
    <3> QED BY <3>3, <3>4 DEF c
  <2> HIDE DEF T
  <2>9. Folding(kind, keys, base, T(m), g) = Folding(kind, keys, base, T(m), f)
    <3>1. \A s \in T(m) : s # {} =>
            g[s \ {Pick(s)}] = f[s \ {Pick(s)}]
      BY <2>7, <2>8
    <3> HIDE DEF g
    <3> QED BY <3>1 DEF Folding
  <2>10. Up(m, g)
    BY <2>9
  <2> QED BY <2>3, <2>10
<1>4. CASE Bad = {}
  <2>1. Cardinality(S) \in 0 .. Cardinality(S)
    BY <1>1
  <2>2. PICK g : Up(Cardinality(S), g)
    BY <1>4, <2>1
  <2>3. T(Cardinality(S)) = SUBSET S
    BY <1>1
  <2> QED BY <2>2, <2>3 DEF Folds
<1> QED BY <1>3, <1>4

Addable(kind, S, Q) == kind = "add" => Seconds(S) \subseteq Q

LEMMA FoldCounted ==
  ASSUME NEW kind \in {"add", "remove"}, NEW keys, NEW Q, NEW base, Counted(base, Q), NEW S, IsFiniteSet(S),
         Addable(kind, S, Q),
         NEW g, Folds(kind, keys, base, S, g)
  PROVE  /\ Counted(g[S], Q)
         /\ kind = "add" => g[S].elements = base.elements \cup Seconds(S)
         /\ kind = "remove" => Loses(base, g[S], S)
<1> DEFINE Elements(s) == IF kind = "add" THEN base.elements \cup Seconds(s) ELSE base.elements \ s
           Good(s) == Counted(g[s], Q) /\ g[s].elements = Elements(s)
           Bad == {n \in Nat : \E s \in SUBSET S : Cardinality(s) = n /\ ~Good(s)}
<1>0. \A s : s \subseteq S =>
        g[s] = IF s = {} THEN base
               ELSE IF kind = "add" THEN FrontierAdd(keys, g[s \ {Pick(s)}], Pick(s)[2])
                                    ELSE FrontierRemove(keys, g[s \ {Pick(s)}], Pick(s))
  BY DEF Folds, Folding
<1>1. ASSUME NEW s, s \subseteq S, s # {}, Good(s \ {Pick(s)})
      PROVE  Good(s)
  <2> DEFINE c == Pick(s)
             t == s \ {c}
             h == g[t]
  <2>1. c \in s /\ c \in S
    BY <1>1 DEF Pick
  <2>2. g[s] = IF kind = "add" THEN FrontierAdd(keys, h, c[2]) ELSE FrontierRemove(keys, h, c)
    BY <1>0, <1>1
  <2>3. Counted(h, Q) /\ h.elements = Elements(t)
    BY <1>1
  <2> HIDE DEF c, h
  <2>4. CASE kind = "add"
    <3>0. c[2] \in Q
      BY <2>1, <2>4 DEF Seconds, Addable
    <3>1. Counted(g[s], Q) /\ g[s].elements = h.elements \cup {c[2]}
      <4> DEFINE d == c[2]
      <4>1. g[s] = FrontierAdd(keys, h, d) /\ Counted(h, Q) /\ d \in Q
        BY <2>2, <2>3, <2>4, <3>0
      <4> HIDE DEF d
      <4>2. Counted(g[s], Q) /\ Gains(h, g[s], {d})
        BY <4>1, AddCounted
      <4> QED BY <4>2 DEF d, Gains
    <3>2. s = t \cup {c}
      BY <2>1
    <3>3. Seconds(s) = Seconds(t) \cup {c[2]}
      BY <2>1 DEF Seconds
    <3> QED BY <2>3, <2>4, <3>1, <3>3
  <2>5. CASE kind # "add"
    <3>1. Counted(g[s], Q) /\ g[s].elements = h.elements \ {c}
      <4>1. g[s] = FrontierRemove(keys, h, c) /\ Counted(h, Q)
        BY <2>2, <2>3, <2>5
      <4>2. /\ Counted(FrontierRemove(keys, h, c), Q)
            /\ Loses(h, FrontierRemove(keys, h, c), {c})
        BY <4>1, RemoveCounted
      <4> QED BY <4>1, <4>2 DEF Loses
    <3> QED BY <2>1, <2>3, <2>5, <3>1
  <2> QED BY <2>4, <2>5
<1>2. Good({})
  <2>1. g[{}] = base
    BY <1>0
  <2> QED BY <2>1 DEF Seconds
<1> SUFFICES Good(S)
  BY DEF Loses
<1>3. CASE Bad # {}
  <2>1. Bad \in SUBSET Nat
    OBVIOUS
  <2>2. PICK m \in Bad : \A k \in Bad : m <= k
    <3> HIDE DEF Bad
    <3> QED BY <1>3, <2>1, LeastElement
  <2>3. PICK s : s \subseteq S /\ Cardinality(s) = m /\ ~Good(s)
    BY <2>2
  <2> DEFINE c == Pick(s)
  <2>4. s # {}
    BY <1>2, <2>3
  <2>5. c \in s
    BY <2>4 DEF Pick
  <2>6. IsFiniteSet(s)
    BY <2>3, FS_Subset
  <2> HIDE DEF c
  <2>7. Cardinality(s \ {c}) = m - 1 /\ m - 1 \in Nat /\ s \ {c} \subseteq S
    <3>1. Cardinality(s \ {c}) = Cardinality(s) - 1
      BY <2>5, <2>6, FS_RemoveElement
    <3>2. Cardinality(s) \in Nat /\ Cardinality(s) # 0
      BY <2>4, <2>6, FS_CardinalityType, FS_EmptySet
    <3> HIDE DEF Bad
    <3> QED BY <2>3, <3>1, <3>2
  <2>8. Good(s \ {c})
    <3>1. m - 1 \notin Bad
      <4>1. ~(m <= m - 1)
        BY <2>7
      <4> HIDE DEF Bad
      <4> QED BY <2>2, <4>1
    <3> HIDE DEF Good
    <3> QED BY <2>7, <3>1
  <2> HIDE DEF Good
  <2> QED BY <1>1, <2>3, <2>4, <2>8 DEF c
<1>4. CASE Bad = {}
  <2>1. Cardinality(S) \in Nat
    BY FS_CardinalityType
  <2>2. Good(S)
    <3> HIDE DEF Good
    <3> QED BY <1>4, <2>1
  <2> QED BY <2>2
<1> QED BY <1>3, <1>4

(* Removing the elements of a set. *)
LEMMA RemovalFolds ==
  ASSUME NEW keys, NEW f, NEW xs, IsFiniteSet(xs)
  PROVE  \E g : Folds("remove", keys, f, xs, g) /\ FrontierRemoveAll(keys, f, xs) = g[xs]
<1> DEFINE Step(g) == [s \in SUBSET xs |-> IF s = {} THEN f
                        ELSE LET x == CHOOSE y \in s : TRUE IN FrontierRemove(keys, g[s \ {x}], x)]
<1>1. FrontierRemoveAll(keys, f, xs) = (CHOOSE h : h = Step(h))[xs]
  BY DEF FrontierRemoveAll, FoldSet, MapThenFoldSet
<1>2. \A g : Folds("remove", keys, f, xs, g) <=> g = Step(g)
  BY DEF Folds, Folding, Pick
<1>3. PICK i : Folds("remove", keys, f, xs, i)
  BY FoldExists
<1>4. i = Step(i)
  BY <1>2, <1>3
<1> HIDE DEF Step
<1>5. PICK g : g = Step(g) /\ g = CHOOSE h : h = Step(h)
  BY <1>4, Zenon
<1> QED BY <1>1, <1>2, <1>5

LEMMA RemoveAllCounted ==
  ASSUME NEW keys, NEW Q, NEW f, Counted(f, Q), NEW xs, IsFiniteSet(xs)
  PROVE  /\ Counted(FrontierRemoveAll(keys, f, xs), Q)
         /\ Loses(f, FrontierRemoveAll(keys, f, xs), xs)
<1>1. PICK g : Folds("remove", keys, f, xs, g) /\ FrontierRemoveAll(keys, f, xs) = g[xs]
  BY RemovalFolds
<1>2. Counted(g[xs], Q) /\ Loses(f, g[xs], xs)
  <2> DEFINE kind == "remove"
  <2>1. kind \in {"add", "remove"} /\ kind = "remove" /\ Folds(kind, keys, f, xs, g)
    BY <1>1
  <2>2. Addable(kind, xs, Q)
    BY DEF Addable
  <2> HIDE DEF kind
  <2> QED BY <2>1, <2>2, FoldCounted
<1> QED BY <1>1, <1>2

(* Adding the second components of pairs. *)
LEMMA ReAddedCounted ==
  ASSUME NEW nodes, NEW Q, NEW f, Counted(f, Q), NEW pairs, IsFiniteSet(pairs),
         Seconds(pairs) \subseteq Q
  PROVE  /\ Counted(ReAdded(nodes, f, pairs), Q)
         /\ ReAdded(nodes, f, pairs).elements = f.elements \cup Seconds(pairs)
<1> DEFINE keys == Keys(nodes)
           Step(g) == [s \in SUBSET pairs |-> IF s = {} THEN f
                        ELSE LET x == CHOOSE y \in s : TRUE IN FrontierAdd(keys, g[s \ {x}], x[2])]
<1>0. ReAdded(nodes, f, pairs) = (CHOOSE h : h = Step(h))[pairs]
  BY DEF ReAdded, FoldSet, MapThenFoldSet
<1> HIDE DEF keys
<1>1. \A g : Folds("add", keys, f, pairs, g) <=> g = Step(g)
  BY DEF Folds, Folding, Pick
<1>2. PICK i : Folds("add", keys, f, pairs, i)
  BY FoldExists
<1>2a. i = Step(i)
  BY <1>1, <1>2
<1> HIDE DEF Step
<1>3. PICK g : g = Step(g) /\ g = CHOOSE h : h = Step(h)
  BY <1>2a, Zenon
<1>4. Folds("add", keys, f, pairs, g) /\ ReAdded(nodes, f, pairs) = g[pairs]
  BY <1>0, <1>1, <1>3
<1> HIDE DEF Step
<1>5. Counted(g[pairs], Q) /\ g[pairs].elements = f.elements \cup Seconds(pairs)
  <2> DEFINE kind == "add"
  <2>1. kind \in {"add", "remove"} /\ kind = "add" /\ Folds(kind, keys, f, pairs, g)
    BY <1>4
  <2>2. Addable(kind, pairs, Q)
    BY DEF Addable
  <2> HIDE DEF kind
  <2> QED BY <2>1, <2>2, FoldCounted
<1> QED BY <1>4, <1>5

-----------------------------------------------------------------------------
(* The frontier when states are removed and merged.                          *)

(* The graph g holds states of nodes, with their predecessors; what waits is  *)
(* reached, and counted.                                                     *)
Orderly(nodes, g) ==
  /\ DOMAIN g = {"reached", "addedLast", "frontier"}
  /\ Ordered(nodes, g)
  /\ \A z \in g.reached : nodes[z].preds \subseteq g.reached
  /\ Counted(g.frontier, 1 .. Len(nodes))
  /\ g.frontier.elements \subseteq g.reached

LEMMA WithBelowReached ==
  ASSUME NEW nodes, NEW g, Ordered(nodes, g), NEW xs, xs \subseteq 1 .. Len(nodes)
  PROVE  /\ WithBelow(nodes, g, xs) \subseteq xs \cup g.reached
         /\ WithBelow(nodes, g, xs) \subseteq 1 .. Len(nodes)
<1>1. \A x \in xs : Below(nodes, g, x) \subseteq g.reached
  BY BelowReached
<1>2. g.reached \subseteq 1 .. Len(nodes)
  BY DEF Ordered
<1> QED BY <1>1, <1>2 DEF WithBelow

(* Removing states leaves the copies in the heaps among Q, which has all       *)
(* reached states, and what waits with them.                                 *)
Bounded(nodes, g, Q) ==
  /\ DOMAIN g = {"reached", "addedLast", "frontier"}
  /\ Ordered(nodes, g)
  /\ \A z \in g.reached : nodes[z].preds \subseteq g.reached
  /\ g.reached \subseteq Q
  /\ Counted(g.frontier, Q)

LEMMA RemovedCounted ==
  ASSUME NEW nodes, DOMAIN nodes = 1 .. Len(nodes), NEW Q, NEW g, Bounded(nodes, g, Q),
         NEW xs, xs \subseteq 1 .. Len(nodes)
  PROVE  /\ Bounded(nodes, Removed(nodes, g, xs), Q)
         /\ g.frontier.elements \subseteq g.reached =>
              Removed(nodes, g, xs).frontier.elements \subseteq Removed(nodes, g, xs).reached
<1> DEFINE h        == Removed(nodes, g, xs)
           P        == 1 .. Len(nodes)
           gone     == WithBelow(nodes, g, xs)
           again    == IF (gone \ xs) \cap g.frontier.elements = {} THEN {}
                         ELSE Bereaved(nodes, gone \ xs, gone)
           siblings == {y \in g.reached : \E pair \in again : pair[2] \in nodes[y].preds}
           cut      == {z \in g.reached : nodes[z].preds \cap siblings # {}}
           readded  == [g EXCEPT !.frontier = ReAdded(nodes, @, again)]
           all      == gone \cup WithBelow(nodes, g, cut)
<1>1. h = Without(nodes, readded, all)
  BY Zenon DEF Removed
<1>2. /\ DOMAIN g = {"reached", "addedLast", "frontier"} /\ Ordered(nodes, g)
      /\ Len(nodes) \in Nat /\ g.reached \subseteq P /\ g.reached \subseteq Q
      /\ \A z \in g.reached : nodes[z].preds \subseteq g.reached
      /\ Counted(g.frontier, Q)
  BY DEF Bounded, Ordered
<1>3. cut \subseteq g.reached
  OBVIOUS
<1> HIDE DEF cut, h
<1>4. gone \subseteq P /\ all \subseteq P /\ gone \subseteq xs \cup g.reached
  BY <1>2, <1>3, WithBelowReached
<1> HIDE DEF gone
<1>5. \A pair \in again : pair \in P \X P /\ pair[2] \in g.reached
  <2> SUFFICES ASSUME NEW pair \in Bereaved(nodes, gone \ xs, gone)
               PROVE  pair \in P \X P /\ pair[2] \in g.reached
    OBVIOUS
  <2>1. pair \in (gone \ xs) \X P /\ pair[2] \in nodes[pair[1]].preds
    BY DEF Bereaved
  <2>2. pair[1] \in g.reached /\ pair[1] \in P /\ pair[2] \in P
    BY <1>4, <2>1
  <2> QED BY <1>2, <2>1, <2>2
<1> HIDE DEF again
<1>6. IsFiniteSet(P) /\ IsFiniteSet(again) /\ IsFiniteSet(all)
  <2>1. IsFiniteSet(P)
    BY <1>2, FS_Interval
  <2> HIDE DEF P
  <2>2. IsFiniteSet(P \X P) /\ again \subseteq P \X P
    BY <2>1, <1>5, FS_Product
  <2> HIDE DEF all
  <2> QED BY <1>4, <2>1, <2>2, FS_Subset
<1> HIDE DEF all
<1>7. Seconds(again) \subseteq Q /\ Seconds(again) \subseteq g.reached
  BY <1>2, <1>5 DEF Seconds
<1> HIDE DEF P
<1> DEFINE r == ReAdded(nodes, g.frontier, again)
           k == FrontierRemoveAll(Keys(nodes), r, all)
<1>8. Counted(r, Q) /\ r.elements = g.frontier.elements \cup Seconds(again)
  <2> DEFINE f == g.frontier
  <2>1. Counted(f, Q) /\ IsFiniteSet(again) /\ Seconds(again) \subseteq Q
    BY <1>2, <1>6, <1>7
  <2> HIDE DEF f
  <2>2. /\ Counted(ReAdded(nodes, f, again), Q)
        /\ ReAdded(nodes, f, again).elements = f.elements \cup Seconds(again)
    BY <2>1, ReAddedCounted
  <2> QED BY <2>2 DEF f
<1>9. /\ DOMAIN readded = DOMAIN g /\ readded.reached = g.reached
      /\ readded.addedLast = g.addedLast /\ readded.frontier = r
  BY <1>2
<1> HIDE DEF r, readded
<1>10. Counted(k, Q) /\ Loses(r, k, all)
  <2> DEFINE keys == Keys(nodes)
  <2> HIDE DEF keys
  <2>1. Counted(FrontierRemoveAll(keys, r, all), Q) /\ Loses(r, FrontierRemoveAll(keys, r, all), all)
    BY <1>6, <1>8, RemoveAllCounted
  <2> QED BY <2>1 DEF keys
<1>11. /\ DOMAIN h = DOMAIN g /\ h.reached = g.reached \ all /\ h.frontier = k
  BY <1>1, <1>2, <1>9 DEF Without
<1> HIDE DEF k
<1>12. g.frontier.elements \subseteq g.reached => h.frontier.elements \subseteq h.reached
  BY <1>7, <1>8, <1>10, <1>11 DEF Loses
<1>13. \A z \in h.reached : nodes[z].preds \subseteq h.reached
  <2>1. Shrinks(nodes, g, h, xs)
    BY <1>2, RemovedKeeps DEF h
  <2> QED BY <1>2, <1>11, <2>1 DEF Shrinks
<1>14. Ordered(nodes, h)
  BY <1>2, <1>11 DEF Ordered
<1> QED BY <1>2, <1>10, <1>11, <1>12, <1>13, <1>14 DEF Bounded, h

LEMMA RemovedOrderly ==
  ASSUME NEW nodes, DOMAIN nodes = 1 .. Len(nodes), NEW g, Orderly(nodes, g),
         NEW xs, xs \subseteq 1 .. Len(nodes)
  PROVE  Orderly(nodes, Removed(nodes, g, xs))
<1> DEFINE Q == 1 .. Len(nodes)
<1>1. Bounded(nodes, g, Q) /\ g.frontier.elements \subseteq g.reached
  BY DEF Orderly, Ordered, Bounded
<1> HIDE DEF Q
<1>2. /\ Bounded(nodes, Removed(nodes, g, xs), Q)
      /\ Removed(nodes, g, xs).frontier.elements \subseteq Removed(nodes, g, xs).reached
  BY <1>1, RemovedCounted
<1> QED BY <1>2 DEF Orderly, Bounded, Q

(* The graph in which the new state waits in the place of its partners.       *)
LEMMA MergedCounted ==
  ASSUME NEW Q, Bounded(node, graph, Q), Len(node) \in Nat, Fresh \in Q,
         NEW nodes, Len(nodes) = Fresh, DOMAIN nodes = 1 .. Len(nodes),
         \A x \in 1 .. Len(node) : nodes[x] = node[x],
         nodes[Fresh].preds \subseteq graph.reached,
         NEW partners, partners \subseteq graph.reached
  PROVE  /\ Bounded(nodes, MergedGraph(nodes, partners), Q)
         /\ graph.frontier.elements \subseteq graph.reached =>
              MergedGraph(nodes, partners).frontier.elements \subseteq MergedGraph(nodes, partners).reached
<1> DEFINE P       == 1 .. Len(nodes)
           keys    == Keys(nodes)
           a       == FrontierAdd(keys, graph.frontier, Fresh)
           f       == FrontierRemoveAll(keys, a, partners)
           waiting == [graph EXCEPT !.frontier = f]
           base    == [waiting EXCEPT !.reached = waiting.reached \cup {Fresh}, !.addedLast = {Fresh}]
<1>1. MergedGraph(nodes, partners) = Removed(nodes, base, partners)
  BY Zenon DEF MergedGraph, ReachedAdd
<1>2. /\ DOMAIN graph = {"reached", "addedLast", "frontier"}
      /\ \A z \in graph.reached : z \in 1 .. Len(node) /\ node[z].preds \subseteq 1 .. z - 1
      /\ \A z \in graph.reached : node[z].preds \subseteq graph.reached
      /\ Counted(graph.frontier, Q) /\ graph.reached \subseteq Q
  BY DEF Bounded, Ordered
<1>3. Fresh = Len(node) + 1 /\ Fresh \in Nat /\ Fresh \in P /\ 1 .. Len(node) \subseteq P
  BY DEF Fresh
<1>5. partners \subseteq P /\ IsFiniteSet(partners)
  <2>1. partners \subseteq 1 .. Len(node) /\ IsFiniteSet(1 .. Len(node))
    BY <1>2, FS_Interval
  <2> QED BY <1>3, <2>1, FS_Subset
<1> HIDE DEF P, keys
<1>6. Counted(a, Q) /\ a.elements = graph.frontier.elements \cup {Fresh}
  <2> DEFINE b == graph.frontier
             x == Fresh
  <2>1. Counted(b, Q) /\ x \in Q
    BY <1>2
  <2> HIDE DEF b, x
  <2>2. Counted(FrontierAdd(keys, b, x), Q) /\ Gains(b, FrontierAdd(keys, b, x), {x})
    BY <2>1, AddCounted
  <2> QED BY <2>2 DEF b, x, a, Gains
<1> HIDE DEF a
<1>7. Counted(f, Q) /\ Loses(a, f, partners)
  BY <1>5, <1>6, RemoveAllCounted
<1> HIDE DEF f
<1>8. DOMAIN waiting = DOMAIN graph /\ waiting.reached = graph.reached /\ waiting.frontier = f
  BY <1>2
<1> HIDE DEF waiting
<1>9. /\ DOMAIN base = DOMAIN graph /\ base.frontier = f
      /\ base.reached = graph.reached \cup {Fresh}
  BY <1>2, <1>8
<1> HIDE DEF base
<1>10. graph.frontier.elements \subseteq graph.reached => base.frontier.elements \subseteq base.reached
  BY <1>6, <1>7, <1>9 DEF Loses
<1>11. \A z \in base.reached : z \in P /\ nodes[z].preds \subseteq 1 .. z - 1
                               /\ nodes[z].preds \subseteq base.reached
  <2> SUFFICES ASSUME NEW z \in base.reached
               PROVE  z \in P /\ nodes[z].preds \subseteq 1 .. z - 1
                      /\ nodes[z].preds \subseteq base.reached
    OBVIOUS
  <2>1. CASE z = Fresh
    <3>1. graph.reached \subseteq 1 .. Len(node) /\ Fresh - 1 = Len(node)
      BY <1>2, <1>3
    <3> QED BY <1>3, <1>9, <2>1, <3>1
  <2>2. CASE z # Fresh
    <3>1. z \in graph.reached /\ nodes[z] = node[z] /\ z \in P
      BY <1>2, <1>3, <1>9, <2>2
    <3> QED BY <1>2, <1>9, <3>1
  <2> QED BY <2>1, <2>2
<1>12. Bounded(nodes, base, Q)
  BY <1>2, <1>3, <1>7, <1>9, <1>11 DEF Bounded, Ordered, P
<1>13. /\ Bounded(nodes, Removed(nodes, base, partners), Q)
       /\ base.frontier.elements \subseteq base.reached =>
            Removed(nodes, base, partners).frontier.elements \subseteq Removed(nodes, base, partners).reached
  BY <1>5, <1>12, RemovedCounted DEF P
<1> QED BY <1>1, <1>10, <1>13

LEMMA MergedOrderly ==
  ASSUME Orderly(node, graph), Len(node) \in Nat,
         NEW nodes, Len(nodes) = Fresh, DOMAIN nodes = 1 .. Len(nodes),
         \A x \in 1 .. Len(node) : nodes[x] = node[x],
         nodes[Fresh].preds \subseteq graph.reached,
         NEW partners, partners \subseteq graph.reached
  PROVE  Orderly(nodes, MergedGraph(nodes, partners))
<1> DEFINE Q == 1 .. Len(nodes)
           g == MergedGraph(nodes, partners)
<1>1. Fresh \in Q /\ 1 .. Len(node) \subseteq Q
  BY DEF Fresh
<1>2. Bounded(node, graph, Q) /\ graph.frontier.elements \subseteq graph.reached
  BY <1>1 DEF Orderly, Ordered, Bounded, Counted
<1> HIDE DEF Q
<1>3. Bounded(nodes, g, Q) /\ g.frontier.elements \subseteq g.reached
  BY <1>1, <1>2, MergedCounted
<1> QED BY <1>3 DEF Orderly, Bounded, Q

-----------------------------------------------------------------------------
(* The frontier.                                                             *)

(* The frontier f holds the elements S, each once, and counts them right.     *)
Holds(f, S) ==
  /\ DOMAIN f = {"heap", "elements", "size", "parts", "turns"}
  /\ f.heap = [x \in S |-> 1]
  /\ f.elements = S
  /\ f.size = Cardinality(S)

(* Adding an element. *)
LEMMA FrontierAddHolds ==
  ASSUME NEW keys, NEW f, NEW S, IsFiniteSet(S), Holds(f, S), NEW x, x \notin S
  PROVE  Holds(FrontierAdd(keys, f, x), S \cup {x})
<1>1. Cardinality(S \cup {x}) = Cardinality(S) + 1
  BY FS_AddElement
<1>2. f.heap (+) SetToBag({x}) = [y \in S \cup {x} |-> 1]
  BY DEF Holds, (+), SetToBag
<1> QED BY <1>1, <1>2 DEF Holds, FrontierAdd

(* Turning to the next partition. *)
LEMMA ActivatedHolds ==
  ASSUME NEW keys, NEW f, NEW S, Holds(f, S)
  PROVE  Holds(Activated(keys, f), S) /\ Holds(Peeked(keys, f), S)
BY DEF Holds, Activated, Peeked

(* Removing an element, whether it is there or not. *)
LEMMA FrontierRemoveHolds ==
  ASSUME NEW keys, NEW f, NEW S, IsFiniteSet(S), Holds(f, S), NEW x
  PROVE  Holds(FrontierRemove(keys, f, x), S \ {x})
<1> DEFINE r == [f EXCEPT !.heap = @ (-) SetToBag({x}), !.elements = @ \ {x},
                          !.size = IF x \in f.elements THEN @ - 1 ELSE @,
                          !.parts = @ \cup {keys[x].part}]
<1>1. Cardinality(S \ {x}) = IF x \in S THEN Cardinality(S) - 1 ELSE Cardinality(S)
  BY FS_RemoveElement
<1>2. f.heap (-) SetToBag({x}) = [y \in S \ {x} |-> 1]
  BY DEF Holds, (-), SetToBag
<1>3. Holds(r, S \ {x})
  BY <1>1, <1>2 DEF Holds
<1>4. FrontierRemove(keys, f, x) = Activated(keys, r)
  BY DEF FrontierRemove
<1> HIDE DEF r
<1> QED BY <1>3, <1>4, ActivatedHolds

(* Removing the elements of a set. *)
LEMMA RemoveAllHolds ==
  ASSUME NEW keys, NEW f, NEW S, IsFiniteSet(S), Holds(f, S), NEW xs, IsFiniteSet(xs)
  PROVE  Holds(FrontierRemoveAll(keys, f, xs), S \ xs)
<1>1. PICK g : Folds("remove", keys, f, xs, g) /\ FrontierRemoveAll(keys, f, xs) = g[xs]
  BY RemovalFolds
<1>2. \A s : s \subseteq xs =>
        g[s] = IF s = {} THEN f ELSE FrontierRemove(keys, g[s \ {Pick(s)}], Pick(s))
  BY <1>1 DEF Folds, Folding
<1> DEFINE Good(s) == Holds(g[s], S \ s)
           Bad == {n \in Nat : \E s \in SUBSET xs : Cardinality(s) = n /\ ~Good(s)}
<1>3. Good({})
  <2>1. g[{}] = f /\ S \ {} = S
    BY <1>2
  <2> QED BY <2>1
<1>4. ASSUME NEW s, s \subseteq xs, s # {}, Good(s \ {Pick(s)}) PROVE Good(s)
  <2> DEFINE c == Pick(s)
             h == g[s \ {c}]
             R == S \ (s \ {c})
  <2>1. c \in s
    BY <1>4 DEF Pick
  <2>2. g[s] = FrontierRemove(keys, h, c) /\ Holds(h, R)
    BY <1>2, <1>4
  <2>3. IsFiniteSet(R)
    BY FS_Subset
  <2>4. R \ {c} = S \ s
    BY <2>1
  <2> HIDE DEF c, h, R
  <2>5. Holds(FrontierRemove(keys, h, c), R \ {c})
    BY <2>2, <2>3, FrontierRemoveHolds
  <2> QED BY <2>2, <2>4, <2>5
<1> HIDE DEF Good
<1>5. CASE Bad # {}
  <2>1. Bad \in SUBSET Nat
    OBVIOUS
  <2>2. PICK m \in Bad : \A k \in Bad : m <= k
    <3> HIDE DEF Bad
    <3> QED BY <1>5, <2>1, LeastElement
  <2>3. PICK s \in SUBSET xs : Cardinality(s) = m /\ ~Good(s)
    OBVIOUS
  <2> DEFINE c == Pick(s)
  <2>4. s # {}
    BY <1>3, <2>3
  <2>5. c \in s /\ IsFiniteSet(s)
    BY <2>4, FS_Subset DEF Pick
  <2> HIDE DEF c
  <2>6. /\ Cardinality(s \ {c}) = Cardinality(s) - 1 /\ Cardinality(s \ {c}) \in Nat
        /\ Cardinality(s) \in Nat
    BY <2>5, FS_RemoveElement, FS_CardinalityType
  <2>7. Cardinality(s \ {c}) \in Nat /\ ~(m <= Cardinality(s \ {c}))
    <3> HIDE DEF Bad
    <3> QED BY <2>3, <2>6
  <2>8. Cardinality(s \ {c}) \notin Bad
    <3> HIDE DEF Bad
    <3> QED BY <2>2, <2>7
  <2>9. Good(s \ {c})
    <3>1. s \ {c} \in SUBSET xs
      OBVIOUS
    <3> QED BY <2>7, <2>8, <3>1
  <2> QED BY <1>4, <2>3, <2>4, <2>9 DEF c
<1>6. CASE Bad = {}
  <2>1. Cardinality(xs) \in Nat
    BY FS_CardinalityType
  <2>2. Good(xs)
    BY <1>6, <2>1
  <2> QED BY <1>1, <2>2 DEF Good
<1> QED BY <1>5, <1>6

(* Adding no predecessor again. *)
LEMMA ReAddNone ==
  ASSUME NEW nodes, NEW f
  PROVE  ReAdded(nodes, f, {}) = f
<1> DEFINE Step(g) == [s \in SUBSET {} |-> IF s = {} THEN f
                        ELSE LET x == CHOOSE y \in s : TRUE
                             IN FrontierAdd(Keys(nodes), g[s \ {x}], x[2])]
<1>1. [s \in SUBSET {} |-> f] = Step([s \in SUBSET {} |-> f])
  OBVIOUS
<1>2. PICK g : g = Step(g) /\ g = CHOOSE h : h = Step(h)
  BY <1>1
<1>3. g[{}] = f
  BY <1>2
<1>4. ReAdded(nodes, f, {}) = (CHOOSE h : h = Step(h))[{}]
  BY DEF ReAdded, FoldSet, MapThenFoldSet
<1> QED BY <1>2, <1>3, <1>4

(* A frontier that is not empty has a next turn. *)
LEMMA NotEndless ==
  ASSUME NEW f, NEW S, IsFiniteSet(S), Holds(f, S)
  PROVE  /\ ~Endless(f)
         /\ IsEmpty(f) <=> S = {}
<1>1. Cardinality(S) = 0 <=> S = {}
  BY FS_EmptySet
<1>2. Cardinality(S) \in Nat
  BY FS_CardinalityType
<1>3. ASSUME S # {} PROVE f.heap # EmptyBag
  <2>1. DOMAIN f.heap = S /\ DOMAIN EmptyBag = {}
    BY DEF Holds, EmptyBag, SetToBag
  <2> QED BY <1>3, <2>1
<1>4. f.size = Cardinality(S)
  BY DEF Holds
<1> QED BY <1>1, <1>2, <1>3, <1>4 DEF Endless, IsEmpty

-----------------------------------------------------------------------------
(* Removing states whose followers leave with them.                          *)

(* Nothing is below it. *)
LEMMA NothingBelow ==
  ASSUME NEW nodes, Len(nodes) \in Nat, NEW g, NEW x \in 1 .. Len(nodes),
         \A z \in g.reached : x \notin nodes[z].preds
  PROVE  Below(nodes, g, x) = {}
<1> DEFINE n == Len(nodes)
           extend(S, i) == S \cup {z \in {i} \cap g.reached : nodes[z].preds \cap S # {}}
           Step(f) == [i \in x .. n |-> IF i = x THEN {x} ELSE extend(f[i - 1], i)]
           only == [i \in x .. n |-> {x}]
<1>1. \A i : extend({x}, i) = {x}
  OBVIOUS
<1> HIDE DEF extend
<1>2. only = Step(only)
  <2>1. \A i \in x .. n : i # x => i - 1 \in x .. n
    OBVIOUS
  <2> QED BY <1>1, <2>1
<1>3. PICK f : f = Step(f) /\ f = CHOOSE h : h = Step(h)
  BY <1>2
<1>4. ASSUME NEW j \in x .. n, f[j] # {x} PROVE FALSE
  <2> DEFINE Bad == {k \in x .. n : f[k] # {x}}
  <2>1. Bad \subseteq Nat /\ Bad # {}
    BY <1>4
  <2>2. PICK m \in Bad : \A k \in Bad : m <= k
    BY <2>1, LeastElement
  <2>3. m \in x .. n /\ f[m] # {x}
    OBVIOUS
  <2>4. f[m] = IF m = x THEN {x} ELSE extend(f[m - 1], m)
    BY <1>3, <2>3
  <2>5. m # x
    BY <2>3, <2>4
  <2>6. m - 1 \in x .. n /\ m - 1 < m
    BY <2>3, <2>5
  <2>7. f[m - 1] = {x}
    BY <2>2, <2>6
  <2> QED BY <1>1, <2>3, <2>4, <2>5, <2>7
<1>5. f[n] = {x}
  BY <1>4
<1>6. Below(nodes, g, x) = (CHOOSE h : h = Step(h))[n] \ {x}
  BY DEF Below, extend
<1> QED BY <1>3, <1>5, <1>6

(* What is below a state was created after it. *)
LEMMA BelowLarger ==
  ASSUME NEW nodes, NEW g, Ordered(nodes, g), NEW x \in 1 .. Len(nodes)
  PROVE  Below(nodes, g, x) \subseteq x + 1 .. Len(nodes)
<1> DEFINE n == Len(nodes)
<1>1. n \in Nat /\ x \in Nat /\ x <= n
  BY DEF Ordered
<1>2. PICK f : Layers(nodes, g, x, f)
  BY BelowLayers
<1>3. /\ Below(nodes, g, x) = f[n] \ {x}
      /\ \A i \in x .. n : f[i] = IF i = x THEN {x} ELSE Extended(nodes, g, f[i - 1], i)
  BY <1>2 DEF Layers
<1>4. \A i, S : \A y \in Extended(nodes, g, S, i) : y \in S \/ y = i
  BY DEF Extended
<1> HIDE DEF n
<1> DEFINE Bad == {i \in x .. n : ~(f[i] \subseteq x .. i)}
<1>5. CASE Bad # {}
  <2>1. Bad \in SUBSET Nat
    BY <1>1
  <2>2. PICK m \in Bad : \A k \in Bad : m <= k
    <3> HIDE DEF Bad
    <3> QED BY <1>5, <2>1, LeastElement
  <2>3. m \in x .. n /\ ~(f[m] \subseteq x .. m)
    OBVIOUS
  <2>4. m # x
    BY <1>1, <1>3, <2>3
  <2>5. m - 1 \in x .. n /\ ~(m <= m - 1)
    BY <1>1, <2>3, <2>4
  <2>6. f[m - 1] \subseteq x .. m - 1 /\ f[m] = Extended(nodes, g, f[m - 1], m)
    BY <1>3, <2>2, <2>3, <2>4, <2>5
  <2>7. \A y \in f[m] : y \in x .. m
    BY <1>1, <1>4, <2>3, <2>6
  <2> QED BY <2>3, <2>7
<1>6. CASE Bad = {}
  <2>1. n \in x .. n
    BY <1>1
  <2>2. f[n] \subseteq x .. n
    BY <1>6, <2>1
  <2> QED BY <1>1, <1>3, <2>2 DEF n
<1> QED BY <1>5, <1>6

(* Only xs and what is below leave the graph, and no state is expanded again,  *)
(* when those below have no other predecessors.                              *)
LEMMA RemovedWhole ==
  ASSUME NEW nodes, NEW g, DOMAIN g = {"reached", "addedLast", "frontier"},
         NEW xs, NEW gone, gone = WithBelow(nodes, g, xs), IsFiniteSet(gone),
         \A z \in gone \ xs : nodes[z].preds \subseteq gone,
         NEW S, IsFiniteSet(S), Holds(g.frontier, S)
  PROVE  LET h == Removed(nodes, g, xs)
         IN /\ DOMAIN h = DOMAIN g
            /\ h.reached = g.reached \ gone
            /\ h.addedLast = g.addedLast \ gone
            /\ Holds(h.frontier, S \ gone)
<1> DEFINE keys     == Keys(nodes)
           again    == IF (gone \ xs) \cap g.frontier.elements = {} THEN {}
                         ELSE Bereaved(nodes, gone \ xs, gone)
           siblings == {y \in g.reached : \E pair \in again : pair[2] \in nodes[y].preds}
           cut      == {z \in g.reached : nodes[z].preds \cap siblings # {}}
           readded  == [g EXCEPT !.frontier = ReAdded(nodes, @, again)]
           all      == gone \cup WithBelow(nodes, g, cut)
<1>1. Removed(nodes, g, xs) = Without(nodes, readded, all)
  BY Zenon DEF Removed
<1>2. again = {}
  <2>1. Bereaved(nodes, gone \ xs, gone) = {}
    BY DEF Bereaved
  <2> QED BY <2>1
<1> HIDE DEF again
<1>3. siblings = {}
  BY <1>2
<1> HIDE DEF siblings
<1>4. cut = {}
  BY <1>3
<1> HIDE DEF cut
<1>5. all = gone
  BY <1>4 DEF WithBelow
<1>6. /\ DOMAIN readded = DOMAIN g
      /\ readded.reached = g.reached /\ readded.addedLast = g.addedLast
      /\ readded.frontier = g.frontier
  BY <1>2, ReAddNone
<1> HIDE DEF readded, all, keys
<1>7. Holds(FrontierRemoveAll(keys, g.frontier, gone), S \ gone)
  BY RemoveAllHolds
<1> QED BY <1>1, <1>5, <1>6, <1>7 DEF Without, keys

(* Only the states xs themselves, when they are nobody's predecessors.       *)
LEMMA RemovedAlone ==
  ASSUME NEW nodes, Len(nodes) \in Nat, NEW g, NEW xs \in SUBSET (1 .. Len(nodes)),
         DOMAIN g = {"reached", "addedLast", "frontier"},
         \A z \in g.reached : nodes[z].preds \cap xs = {},
         NEW S, IsFiniteSet(S), Holds(g.frontier, S)
  PROVE  LET h == Removed(nodes, g, xs)
         IN /\ DOMAIN h = DOMAIN g
            /\ h.reached = g.reached \ xs
            /\ h.addedLast = g.addedLast \ xs
            /\ Holds(h.frontier, S \ xs)
<1>1. \A x \in xs : Below(nodes, g, x) = {}
  BY NothingBelow
<1>2. WithBelow(nodes, g, xs) = xs
  BY <1>1 DEF WithBelow
<1>3. IsFiniteSet(xs)
  <2>1. IsFiniteSet(1 .. Len(nodes))
    BY FS_Interval
  <2> QED BY <2>1, FS_Subset
<1>4. \A z \in xs \ xs : nodes[z].preds \subseteq xs
  OBVIOUS
<1> QED BY <1>2, <1>3, <1>4, RemovedWhole

(* mergeInto takes the partners out of the graph, and nothing else. *)
LEMMA MergedAlone ==
  ASSUME DOMAIN graph = {"reached", "addedLast", "frontier"},
         NEW nodes, Len(nodes) \in Nat, NEW partners \in SUBSET (1 .. Len(nodes)),
         \A z \in graph.reached \cup {Fresh} : nodes[z].preds \cap partners = {},
         NEW S, IsFiniteSet(S), Holds(graph.frontier, S), Fresh \notin S \cup partners
  PROVE  LET g == MergedGraph(nodes, partners)
         IN /\ DOMAIN g = {"reached", "addedLast", "frontier"}
            /\ g.reached = (graph.reached \cup {Fresh}) \ partners
            /\ g.addedLast = {Fresh}
            /\ Holds(g.frontier, (S \cup {Fresh}) \ partners)
<1> DEFINE keys    == Keys(nodes)
           T       == S \cup {Fresh}
           added   == FrontierAdd(keys, graph.frontier, Fresh)
           f       == FrontierRemoveAll(keys, added, partners)
           waiting == [graph EXCEPT !.frontier = f]
           base    == [waiting EXCEPT !.reached = waiting.reached \cup {Fresh}, !.addedLast = {Fresh}]
           g       == MergedGraph(nodes, partners)
<1>1. g = Removed(nodes, base, partners)
  BY Zenon DEF MergedGraph, ReachedAdd
<1> HIDE DEF g
<1>2. Holds(f, T \ partners) /\ IsFiniteSet(T \ partners)
  <2>1. Holds(added, T) /\ IsFiniteSet(T)
    BY FrontierAddHolds, FS_AddElement
  <2>2. IsFiniteSet(partners)
    <3>1. IsFiniteSet(1 .. Len(nodes))
      BY FS_Interval
    <3> QED BY <3>1, FS_Subset
  <2> HIDE DEF T, added
  <2> QED BY <2>1, <2>2, RemoveAllHolds, FS_Subset
<1> HIDE DEF f
<1>3. /\ DOMAIN waiting = {"reached", "addedLast", "frontier"}
      /\ waiting.reached = graph.reached /\ waiting.frontier = f
  OBVIOUS
<1> HIDE DEF waiting
<1>4. /\ DOMAIN base = {"reached", "addedLast", "frontier"}
      /\ base.reached = graph.reached \cup {Fresh}
      /\ base.addedLast = {Fresh}
      /\ base.frontier = f
  BY <1>3
<1> HIDE DEF base
<1> DEFINE V == T \ partners
<1>5. Holds(base.frontier, V) /\ IsFiniteSet(V)
  BY <1>2, <1>4
<1>6. V \ partners = (S \cup {Fresh}) \ partners
  OBVIOUS
<1> HIDE DEF V, T
<1>7. /\ DOMAIN g = DOMAIN base
      /\ g.reached = base.reached \ partners
      /\ g.addedLast = base.addedLast \ partners
      /\ Holds(g.frontier, V \ partners)
  <2>1. \A z \in base.reached : nodes[z].preds \cap partners = {}
    BY <1>4
  <2>2. LET h == Removed(nodes, base, partners)
        IN /\ DOMAIN h = DOMAIN base
           /\ h.reached = base.reached \ partners
           /\ h.addedLast = base.addedLast \ partners
           /\ Holds(h.frontier, V \ partners)
    BY <1>4, <1>5, <2>1, RemovedAlone
  <2> QED BY <1>1, <2>2
<1> QED BY <1>4, <1>6, <1>7 DEF g

-----------------------------------------------------------------------------
(* The verdicts.                                                             *)
VerdictShape == DOMAIN verdict = {"violated", "satisfied", "unknown"}

(* Every property has one verdict; nothing is satisfied before the end.       *)
Decided ==
  /\ VerdictShape
  /\ verdict.violated \cup verdict.satisfied \cup verdict.unknown = Properties
  /\ pc # "done" => verdict.satisfied = {}

(* The step of Report, in terms of what was found. *)
LEMMA ReportHolds ==
  ASSUME Report, VerdictShape,
         NEW found, found = UNION {Target(x) : x \in graph.addedLast}
  PROVE  /\ UNCHANGED task
         /\ VerdictShape'
         /\ verdict'.violated = verdict.violated \cup found
         /\ \/ /\ verdict'.satisfied = verdict.satisfied
               /\ verdict'.unknown = verdict.unknown \ (verdict.violated \cup found)
            \/ /\ verdict'.satisfied = verdict.unknown \ (verdict.violated \cup found)
               /\ verdict'.unknown = {}
               /\ pc' = "done"
<1> DEFINE violated == verdict.violated \cup found
           unknown  == verdict.unknown \ violated
<1>1. UNCHANGED task
  BY DEF Report
<1>2. \/ verdict' = [verdict EXCEPT !.violated = violated, !.unknown = unknown]
      \/ verdict' = [violated |-> violated, satisfied |-> unknown, unknown |-> {}] /\ pc' = "done"
  BY DEF Report
<1> HIDE DEF unknown, violated
<1>3. CASE verdict' = [verdict EXCEPT !.violated = violated, !.unknown = unknown]
  <2>1. /\ DOMAIN verdict' = {"violated", "satisfied", "unknown"}
        /\ verdict'.violated = violated
        /\ verdict'.satisfied = verdict.satisfied
        /\ verdict'.unknown = unknown
    BY <1>3 DEF VerdictShape
  <2> QED BY <1>1, <2>1 DEF VerdictShape, unknown, violated
<1>4. CASE verdict' = [violated |-> violated, satisfied |-> unknown, unknown |-> {}] /\ pc' = "done"
  <2>1. /\ DOMAIN verdict' = {"violated", "satisfied", "unknown"}
        /\ verdict'.violated = violated
        /\ verdict'.satisfied = unknown
        /\ verdict'.unknown = {}
    BY <1>4
  <2> QED BY <1>1, <1>4, <2>1 DEF VerdictShape, unknown, violated
<1> QED BY <1>2, <1>3, <1>4
=============================================================================
