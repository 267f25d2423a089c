------------------------- MODULE LoopStructureProofs -------------------------
(***************************************************************************)
(* The wait-at-meet order agrees with the transitions that are on no cycle,    *)
(* in every relation, and whatever the order in which the roots of the         *)
(* depth-first search and the transitions are visited.                        *)
(***************************************************************************)
EXTENDS LoopStructure, TransitionRelationsProofs, SequenceTheorems

-----------------------------------------------------------------------------
(* What a location reaches. *)

Edges(r) == {<<t.from, t.to>> : t \in r.trans}

LEMMA RelationFacts ==
  ASSUME rel \in Relations
  PROVE  /\ IsFiniteSet(Locs) /\ NoLoc \notin Locs /\ Locs \subseteq Nat
         /\ \A t \in rel.trans : t.from \in Locs /\ t.to \in Locs
BY RelationsAssumption DEF Locs

LEMMA ReachesClosure ==
  ASSUME rel \in Relations, NEW l \in Locs
  PROVE  IsClosure(ReachesWithout(l, NoLoc), Locs, Edges(rel), l)
<1> DEFINE L == Locs
           R == Edges(rel)
           base == [seen |-> {l}, new |-> {l}]
           step(r) == LET new == IF r.new = {} THEN {} ELSE ((UNION {Targets(k) : k \in r.new}) \ {NoLoc}) \ r.seen
                      IN [seen |-> r.seen \cup new, new |-> new]
           all(h) == [i \in Nat |-> IF i = 0 THEN base ELSE step(h[i - 1])]
           rounds == CHOOSE h : h = all(h)
<1>1. ReachesWithout(l, NoLoc) = rounds[Cardinality(L)].seen
  BY DEF ReachesWithout, Closure
<1>2. ASSUME NEW r, r.new \in SUBSET L PROVE step(r) = Round(L, R, r)
  <2>1. (UNION {Targets(k) : k \in r.new}) \ {NoLoc} = Beyond(L, R, r.new)
    BY <1>2, RelationFacts DEF Targets, From, Edges, Beyond, Locs
  <2>2. r.new = {} => Beyond(L, R, r.new) = {}
    BY DEF Beyond
  <2> QED BY <2>1, <2>2 DEF Round
<1> HIDE DEF step
<1>3. PICK g : AreRounds(L, R, l, g)
  BY RoundsExist
<1>4. g = all(g)
  <2>1. \A i \in Nat : i # 0 => i - 1 \in Nat /\ (i - 1) + 1 = i
    OBVIOUS
  <2>2. \A i \in Nat : g[i] = IF i = 0 THEN base ELSE step(g[i - 1])
    BY <1>2, <1>3, <2>1 DEF AreRounds
  <2>3. g = [i \in Nat |-> g[i]]
    BY <1>3 DEF AreRounds
  <2> QED BY <2>2, <2>3
<1>5. rounds = all(rounds)
  BY <1>4
<1> HIDE DEF rounds
<1>6. rounds[0] = base
  BY <1>5
<1>7. \A i \in Nat : rounds[i + 1] = step(rounds[i])
  <2>1. \A i \in Nat : i + 1 # 0 /\ i + 1 \in Nat /\ (i + 1) - 1 = i
    OBVIOUS
  <2> QED BY <1>5, <2>1
<1>8. \A i \in Nat : rounds[i].new \in SUBSET L => rounds[i + 1] = Round(L, R, rounds[i])
  BY <1>2, <1>7
<1>9. IsFiniteSet(L)
  BY RelationFacts
<1> HIDE DEF L, R
<1>10. l \in L
  BY DEF L
<1>11. IsClosure(rounds[Cardinality(L)].seen, L, R, l)
  BY <1>6, <1>8, <1>9, <1>10, RoundsAreClosure
<1> QED BY <1>1, <1>11 DEF L, R

(* No path leads from the end of a transition to its start: a set of locations *)
(* that no transition leaves separates them.                                 *)
OnNoCycle(r, t) ==
  \E M \in SUBSET r.locs : t.to \in M /\ IsClosed(r.locs, Edges(r), M) /\ t.from \notin M

LEMMA NoCycleMeans ==
  ASSUME rel \in Relations, NEW t \in rel.trans, t.from \notin ReachesWithout(t.to, NoLoc)
  PROVE  OnNoCycle(rel, t)
<1>1. t.to \in Locs
  BY RelationFacts
<1>2. IsClosure(ReachesWithout(t.to, NoLoc), Locs, Edges(rel), t.to)
  BY <1>1, ReachesClosure
<1> QED BY <1>2 DEF IsClosure, OnNoCycle, Locs

-----------------------------------------------------------------------------
(* The search. *)

(* path is a path against the transitions of locations without a number.     *)
PathOK(r, p, w) ==
  /\ p \in Seq([at : r.locs, rest : SUBSET r.locs])
  /\ \A i \in DOMAIN p : p[i].rest = {t.from : t \in Into(r, p[i].at)}
  /\ \A i \in DOMAIN p : w[p[i].at] = 0
  /\ \A i \in 1 .. Len(p) - 1 : p[i + 1].at \in p[i].rest
  /\ \A i, j \in DOMAIN p : p[i].at = p[j].at => i = j

NumbersOK(r, w, n) ==
  /\ n \in Nat
  /\ \A l \in r.locs : w[l] <= n
  /\ \A t \in r.trans : OnNoCycle(r, t) /\ w[t.to] # 0 => w[t.from] # 0 /\ w[t.from] < w[t.to]

LEMMA PathFacts ==
  ASSUME NEW r, NEW p, NEW w, PathOK(r, p, w)
  PROVE  /\ Len(p) \in Nat /\ DOMAIN p = 1 .. Len(p)
         /\ \A i \in 1 .. Len(p) : p[i] \in [at : r.locs, rest : SUBSET r.locs] /\ p[i].at \in r.locs
<1> DEFINE T == [at : r.locs, rest : SUBSET r.locs]
<1>1. \A x \in T : x.at \in r.locs
  OBVIOUS
<1>2. p \in Seq(T)
  BY DEF PathOK
<1> HIDE DEF T
<1>3. Len(p) \in Nat /\ DOMAIN p = 1 .. Len(p) /\ \A i \in 1 .. Len(p) : p[i] \in T
  BY <1>2
<1> QED BY <1>1, <1>3 DEF T

Pcs == {"dfs", "semi", "loops", "order", "walk"}

OInv ==
  /\ rel \in Relations
  /\ pc \in Pcs
  /\ pc # "walk" => wam \in [Locs -> Nat]
  /\ pc \in {"semi", "loops"} => path = <<>>
  /\ pc \in {"dfs", "semi", "loops"} => \A l \in Locs : wam[l] = 0
  /\ pc = "order" => PathOK(rel, path, wam) /\ NumbersOK(rel, wam, count)
  /\ pc = "walk" => \A t \in rel.trans : OnNoCycle(rel, t) /\ {t.from, t.to} \cap heads = {} =>
                                          wam[t.from] < wam[t.to]

LEMMA OInit == Init => OInv
<1> SUFFICES ASSUME Init PROVE OInv
  OBVIOUS
<1> QED BY DEF Init, OInv, Pcs, Locs

LEMMA EnterOK ==
  ASSUME OInv, pc = "order", NEW l \in Unseen, Enter(l), rel' = rel, wam' = wam, count' = count + 1,
         path # <<>> => l \in Last(path).rest
  PROVE  PathOK(rel', path', wam') /\ NumbersOK(rel', wam', count')
<1>1. /\ PathOK(rel, path, wam) /\ NumbersOK(rel, wam, count) /\ rel \in Relations
      /\ wam \in [rel.locs -> Nat]
  BY DEF OInv, Locs
<1> DEFINE T == [at : rel.locs, rest : SUBSET rel.locs]
           e == [at |-> l, rest |-> Sources(l)]
<1>2. path \in Seq(T) /\ path' = Append(path, e)
  BY <1>1 DEF PathOK, Enter
<1>3. l \in rel.locs /\ wam[l] = 0 /\ \A i \in DOMAIN path : path[i].at # l
  BY DEF Unseen, Locs
<1>4. Sources(l) = {t.from : t \in Into(rel, l)} /\ Sources(l) \subseteq rel.locs
  BY <1>1, RelationFacts DEF Sources, Into, Locs
<1>5. e \in T
  BY <1>3, <1>4
<1>6. /\ path' \in Seq(T) /\ Len(path') = Len(path) + 1 /\ path'[Len(path) + 1] = e
      /\ \A i \in 1 .. Len(path) : path'[i] = path[i]
  BY <1>2, <1>5, AppendProperties
<1>7. Len(path) \in Nat /\ DOMAIN path = 1 .. Len(path) /\ DOMAIN path' = 1 .. Len(path) + 1
  BY <1>1, <1>6, PathFacts
<1>8. path # <<>> => l \in path[Len(path)].rest
  BY DEF Last
<1>9. e.at = l /\ e.rest = {t.from : t \in Into(rel, l)}
  BY <1>4
<1> HIDE DEF e, T
<1>10. \A i \in DOMAIN path' : \/ i \in DOMAIN path /\ path'[i] = path[i]
                               \/ i = Len(path) + 1 /\ path'[i] = e
  <2>1. \A i \in 1 .. Len(path) + 1 : i \in 1 .. Len(path) \/ i = Len(path) + 1
    BY <1>7
  <2> QED BY <1>6, <1>7, <2>1
<1>11. \A i \in DOMAIN path' : path'[i].rest = {t.from : t \in Into(rel, path'[i].at)}
  BY <1>1, <1>9, <1>10 DEF PathOK
<1>12. \A i \in DOMAIN path' : wam[path'[i].at] = 0
  BY <1>1, <1>3, <1>9, <1>10 DEF PathOK
<1>13. ASSUME NEW i \in 1 .. Len(path') - 1 PROVE path'[i + 1].at \in path'[i].rest
  <2>1. CASE i = Len(path)
    BY <1>6, <1>7, <1>8, <1>9, <2>1
  <2>2. CASE i # Len(path)
    <3>1. i \in 1 .. Len(path) /\ i # Len(path)
      <4>1. Len(path') - 1 = Len(path)
        BY <1>6, <1>7
      <4> QED BY <2>2, <4>1
    <3>2. i \in 1 .. Len(path) - 1 /\ i + 1 \in 1 .. Len(path)
      <4>1. Len(path) \in Nat
        BY <1>7
      <4> QED BY <3>1, <4>1
    <3> QED BY <1>1, <1>6, <3>1, <3>2 DEF PathOK
  <2> QED BY <2>1, <2>2
<1>14. \A i, j \in DOMAIN path' : path'[i].at = path'[j].at => i = j
  BY <1>1, <1>3, <1>9, <1>10 DEF PathOK
<1>15. PathOK(rel', path', wam')
  BY <1>6, <1>11, <1>12, <1>13, <1>14 DEF PathOK, T
<1>16. NumbersOK(rel, wam, count + 1)
  <2>1. count \in Nat /\ \A k \in rel.locs : wam[k] <= count /\ wam[k] \in Nat
    BY <1>1 DEF NumbersOK
  <2>2. \A k \in rel.locs : wam[k] <= count + 1
    BY <2>1
  <2> QED BY <1>1, <2>1, <2>2 DEF NumbersOK
<1> QED BY <1>15, <1>16

(* What is below a location of the path reaches no other set that it does.   *)
LEMMA PathIsInside ==
  ASSUME NEW r \in Relations, NEW p, NEW w, PathOK(r, p, w), p # <<>>, NEW M \in SUBSET r.locs,
         IsClosed(r.locs, Edges(r), M), p[Len(p)].at \in M
  PROVE  \A i \in DOMAIN p : p[i].at \in M
<1>1. Len(p) \in Nat /\ DOMAIN p = 1 .. Len(p) /\ \A i \in 1 .. Len(p) : p[i].at \in r.locs
  BY PathFacts
<1> DEFINE Bad == {k \in Nat : k < Len(p) /\ p[Len(p) - k].at \notin M}
<1>2. CASE Bad = {}
  <2> SUFFICES ASSUME NEW i \in 1 .. Len(p) PROVE p[i].at \in M
    BY <1>1
  <2>1. Len(p) - i \in Nat /\ Len(p) - i < Len(p) /\ Len(p) - (Len(p) - i) = i
    BY <1>1
  <2> QED BY <1>2, <2>1
<1>3. CASE Bad # {}
  <2>1. Bad \in SUBSET Nat
    OBVIOUS
  <2>2. PICK k \in Bad : \A j \in Bad : k <= j
    <3> HIDE DEF Bad
    <3> QED BY <1>3, <2>1, LeastElement
  <2>3. k \in Nat /\ k < Len(p) /\ p[Len(p) - k].at \notin M
    OBVIOUS
  <2>4. k # 0
    BY <1>1, <2>3
  <2> DEFINE i == Len(p) - k
  <2>5. i \in 1 .. Len(p) - 1 /\ i + 1 \in 1 .. Len(p) /\ Len(p) - (k - 1) = i + 1
        /\ k - 1 \in Nat /\ k - 1 < Len(p) /\ ~(k <= k - 1)
    BY <1>1, <2>3, <2>4
  <2>6. p[i + 1].at \in M
    BY <2>2, <2>5
  <2>7. p[i + 1].at \in p[i].rest /\ p[i].rest = {t.from : t \in Into(r, p[i].at)}
    BY <1>1, <2>5 DEF PathOK
  <2>8. PICK t \in r.trans : t.to = p[i].at /\ t.from = p[i + 1].at
    BY <2>7 DEF Into
  <2>9. <<p[i + 1].at, p[i].at>> \in Edges(r)
    BY <2>8 DEF Edges
  <2>10. p[i].at \in r.locs
    BY <1>1, <2>5
  <2>11. p[i].at \in M
    BY <2>6, <2>9, <2>10 DEF IsClosed
  <2> QED BY <2>3, <2>11
<1> QED BY <1>2, <1>3

LEMMA LeaveOK ==
  ASSUME OInv, OrderLeave
  PROVE  /\ PathOK(rel', path', wam') /\ NumbersOK(rel', wam', count')
         /\ wam' \in [Locs -> Nat]
<1>1. /\ PathOK(rel, path, wam) /\ NumbersOK(rel, wam, count) /\ rel \in Relations
      /\ wam \in [rel.locs -> Nat] /\ path # <<>> /\ rel' = rel /\ count' = count + 1
  BY DEF OInv, OrderLeave, Locs
<1> DEFINE T == [at : rel.locs, rest : SUBSET rel.locs]
           n == Len(path)
           l == path[n].at
<1>2. path \in Seq(T) /\ n \in Nat /\ n # 0 /\ DOMAIN path = 1 .. n
  <2>1. path \in Seq(T)
    BY <1>1 DEF PathOK
  <2>2. n # 0
    BY <1>1, <2>1, EmptySeq
  <2> QED BY <1>1, <2>1, <2>2, PathFacts
<1>3. l \in rel.locs /\ \A i \in 1 .. n : path[i] \in T /\ path[i].at \in rel.locs
  <2>1. n \in 1 .. n
    BY <1>2
  <2> QED BY <1>1, <2>1, PathFacts
<1>4. wam' = [wam EXCEPT ![l] = count + 1] /\ path' = SubSeq(path, 1, n - 1)
      /\ path[n].rest \cap Unseen = {}
  BY DEF OrderLeave, Last, Front
<1>5. count \in Nat /\ \A k \in rel.locs : wam[k] <= count /\ wam[k] \in Nat
  BY <1>1 DEF NumbersOK
<1>6. /\ path' \in Seq(T) /\ Len(path') = n - 1 /\ DOMAIN path' = 1 .. n - 1
      /\ \A i \in 1 .. n - 1 : path'[i] = path[i]
  <2>1. 1 \in Int /\ n - 1 \in Int /\ \A i \in 1 .. n - 1 : path[i] \in T
    BY <1>2, <1>3
  <2> HIDE DEF n, T
  <2> DEFINE q == SubSeq(path, 1, n - 1)
  <2>2. /\ q \in Seq(T) /\ Len(q) = (IF 1 <= n - 1 THEN n - 1 - 1 + 1 ELSE 0)
        /\ \A i \in 1 .. n - 1 - 1 + 1 : q[i] = path[1 + i - 1]
    BY <2>1, SubSeqProperties
  <2> HIDE DEF q
  <2>3. Len(q) = n - 1
    BY <1>2, <2>2
  <2>4. \A i \in 1 .. n - 1 : i \in 1 .. n - 1 - 1 + 1 /\ 1 + i - 1 = i
    BY <1>2
  <2>5. path' = q
    BY <1>4 DEF q
  <2> QED BY <2>2, <2>3, <2>4, <2>5
<1>7. /\ wam' \in [rel.locs -> Nat] /\ wam'[l] = count + 1
      /\ \A k \in rel.locs : k # l => wam'[k] = wam[k]
  BY <1>1, <1>3, <1>4, <1>5
<1>8. \A i \in 1 .. n - 1 : i \in 1 .. n /\ i # n /\ path[i].at \in rel.locs /\ path[i].at # l
  <2> HIDE DEF T
  <2>1. \A i, j \in 1 .. n : path[i].at = path[j].at => i = j
    BY <1>1, <1>2 DEF PathOK
  <2> SUFFICES ASSUME NEW i \in 1 .. n - 1
               PROVE  i \in 1 .. n /\ i # n /\ path[i].at \in rel.locs /\ path[i].at # l
    OBVIOUS
  <2> HIDE DEF n
  <2>2. i \in 1 .. n /\ n \in 1 .. n /\ i # n
    BY <1>2
  <2> QED BY <1>3, <2>1, <2>2 DEF n
<1> HIDE DEF T
<1>9. \A i \in DOMAIN path' : /\ path'[i].rest = {t.from : t \in Into(rel, path'[i].at)}
                              /\ wam'[path'[i].at] = 0
  <2> SUFFICES ASSUME NEW i \in 1 .. n - 1
               PROVE  /\ path[i].rest = {t.from : t \in Into(rel, path[i].at)}
                      /\ wam'[path[i].at] = 0
    BY <1>6
  <2>1. i \in DOMAIN path /\ path[i].at \in rel.locs /\ path[i].at # l
    BY <1>2, <1>8
  <2>2. wam[path[i].at] = 0 /\ path[i].rest = {t.from : t \in Into(rel, path[i].at)}
    BY <1>1, <2>1 DEF PathOK
  <2> QED BY <1>7, <2>1, <2>2
<1>10. ASSUME NEW i \in 1 .. Len(path') - 1 PROVE path'[i + 1].at \in path'[i].rest
  <2>1. i \in 1 .. n - 1 /\ i + 1 \in 1 .. n - 1
    BY <1>2, <1>6
  <2> QED BY <1>1, <1>6, <2>1 DEF PathOK
<1>11. \A i, j \in DOMAIN path' : path'[i].at = path'[j].at => i = j
  BY <1>1, <1>2, <1>6, <1>8 DEF PathOK
<1>12. PathOK(rel, path', wam')
  BY <1>6, <1>9, <1>10, <1>11 DEF PathOK, T
<1>13. \A k \in rel.locs : wam'[k] <= count + 1
  BY <1>5, <1>7
<1>14. ASSUME NEW t \in rel.trans, OnNoCycle(rel, t), wam'[t.to] # 0
       PROVE  wam'[t.from] # 0 /\ wam'[t.from] < wam'[t.to]
  <2>1. t.from \in rel.locs /\ t.to \in rel.locs
    BY <1>1, RelationFacts DEF Locs
  <2>2. t.from # t.to
    BY <1>14 DEF OnNoCycle
  <2>3. CASE t.to # l
    <3>1. wam[t.from] # 0 /\ wam[t.from] < wam[t.to]
      BY <1>1, <1>7, <1>14, <2>1, <2>3 DEF NumbersOK
    <3>2. t.from # l
      BY <1>1, <1>2, <3>1 DEF PathOK
    <3> QED BY <1>7, <2>1, <2>3, <3>1, <3>2
  <2>4. CASE t.to = l
    <3>1. t.from \in path[n].rest
      <4>1. path[n].rest = {s.from : s \in Into(rel, l)}
        BY <1>1, <1>2 DEF PathOK
      <4> QED BY <2>4, <4>1 DEF Into
    <3>2. t.from \notin Unseen
      BY <1>4, <3>1
    <3>3. wam[t.from] # 0
      <4> SUFFICES ASSUME NEW i \in DOMAIN path, path[i].at = t.from PROVE FALSE
        BY <2>1, <3>2 DEF Unseen, Locs
      <4>1. PICK M \in SUBSET rel.locs :
              t.to \in M /\ IsClosed(rel.locs, Edges(rel), M) /\ t.from \notin M
        BY <1>14 DEF OnNoCycle
      <4>2. \A j \in DOMAIN path : path[j].at \in M
        BY <1>1, <2>4, <4>1, PathIsInside
      <4> QED BY <4>1, <4>2
    <3>4. wam[t.from] <= count /\ wam[t.from] \in Nat
      BY <1>5, <2>1
    <3>5. wam'[t.from] = wam[t.from]
      BY <1>7, <2>1, <2>2, <2>4
    <3> QED BY <1>5, <1>7, <2>4, <3>3, <3>4, <3>5
  <2> QED BY <2>3, <2>4
<1>15. NumbersOK(rel, wam', count + 1)
  BY <1>5, <1>13, <1>14 DEF NumbersOK
<1> QED BY <1>1, <1>7, <1>12, <1>15 DEF Locs

LEMMA ONext ==
  ASSUME OInv, [Next]_vars
  PROVE  OInv'
<1>1. CASE UNCHANGED vars
  BY <1>1 DEF OInv, vars, Locs, domVars, loopVars
<1>2. CASE Dominators
  <2>1. DfsStep => OInv'
    BY DEF DfsStep, OInv, loopVars, Locs, Pcs
  <2>2. DfsReturn => OInv'
    BY DEF DfsReturn, OInv, loopVars, Locs, Pcs
  <2>3. DfsEnd => OInv'
    BY DEF DfsEnd, StartVertex, OInv, loopVars, Locs, Pcs
  <2>4. SemiDominator => OInv'
    BY DEF SemiDominator, OInv, loopVars, Locs, Pcs
  <2>5. Bucket => OInv'
    BY DEF Bucket, StartVertex, OInv, loopVars, Locs, Pcs
  <2>6. ExplicitDominators => OInv'
    BY DEF ExplicitDominators, OInv, loopVars, Locs, Pcs
  <2> QED BY <1>2, <2>1, <2>2, <2>3, <2>4, <2>5, <2>6 DEF Dominators
<1>3. CASE FindLoops
  <2>1. /\ rel' = rel /\ path' = path /\ wam' = wam /\ pc = "loops" /\ pc' = "order" /\ count' = 0
    BY <1>3 DEF FindLoops
  <2>2. /\ rel \in Relations /\ wam \in [Locs -> Nat] /\ path = <<>>
        /\ \A l \in Locs : wam[l] = 0
    BY <2>1 DEF OInv
  <2>3. PathOK(rel, path, wam)
    BY <2>2 DEF PathOK
  <2>4. NumbersOK(rel, wam, 0)
    BY <2>2, RelationFacts DEF NumbersOK, Locs
  <2> QED BY <2>1, <2>2, <2>3, <2>4 DEF OInv, Pcs, Locs
<1>4. CASE OrderRoot
  <2>1. PICK l \in {Min(Unseen), Max(Unseen)} : Enter(l)
    BY <1>4 DEF OrderRoot
  <2>2. /\ rel' = rel /\ wam' = wam /\ count' = count + 1 /\ pc = "order" /\ pc' = "order"
        /\ path = <<>> /\ Unseen # {}
    BY <1>4 DEF OrderRoot
  <2>3. l \in Unseen
    <3>1. Unseen \subseteq Nat /\ IsFiniteSet(Unseen)
      BY RelationFacts, FS_Subset DEF OInv, Unseen
    <3>2. \E m \in Unseen : \A k \in Unseen : m <= k
      BY <2>2, <3>1, LeastElement
    <3>3. Min(Unseen) \in Unseen
      BY <3>2, Zenon DEF Min
    <3>4. \E m \in Unseen : \A k \in Unseen : k <= m
      BY <2>2, <3>1, GreatestElement
    <3>5. \E m \in Unseen : \A k \in Unseen : m >= k
      BY <3>1, <3>4
    <3>6. Max(Unseen) \in Unseen
      BY <3>5, Zenon DEF Max
    <3> QED BY <2>1, <3>3, <3>6
  <2>4. PathOK(rel', path', wam') /\ NumbersOK(rel', wam', count')
    BY <2>1, <2>2, <2>3, EnterOK
  <2> QED BY <2>2, <2>4 DEF OInv, Pcs, Locs
<1>5. CASE OrderStep
  <2>1. PICK l \in Last(path).rest \cap Unseen : Enter(l)
    BY <1>5 DEF OrderStep
  <2>2. /\ rel' = rel /\ wam' = wam /\ count' = count + 1 /\ pc = "order" /\ pc' = "order"
    BY <1>5 DEF OrderStep
  <2>3. PathOK(rel', path', wam') /\ NumbersOK(rel', wam', count')
    BY <2>1, <2>2, EnterOK
  <2> QED BY <2>2, <2>3 DEF OInv, Pcs, Locs
<1>6. CASE OrderLeave
  <2>1. rel' = rel /\ pc = "order" /\ pc' = "order"
    BY <1>6 DEF OrderLeave
  <2> QED BY <1>6, <2>1, LeaveOK DEF OInv, Pcs, Locs
<1>7. CASE OrderHeads
  <2>1. rel' = rel /\ heads' = heads /\ pc = "order" /\ pc' = "walk" /\ path = <<>> /\ Unseen = {}
    BY <1>7 DEF OrderHeads, loopVars
  <2>2. /\ NumbersOK(rel, wam, count) /\ rel \in Relations /\ wam \in [Locs -> Nat]
    BY <2>1 DEF OInv
  <2>3. \A l \in Locs : wam[l] # 0
    BY <2>1 DEF Unseen
  <2>4. \A l \in Locs : l \notin heads => wam'[l] = wam[l]
    BY <1>7 DEF OrderHeads
  <2>5. ASSUME NEW t \in rel.trans, OnNoCycle(rel, t), {t.from, t.to} \cap heads = {}
        PROVE  wam'[t.from] < wam'[t.to]
    <3>1. t.from \in Locs /\ t.to \in Locs
      BY <2>2, RelationFacts
    <3>2. wam[t.from] < wam[t.to]
      BY <2>2, <2>3, <2>5, <3>1 DEF NumbersOK
    <3> QED BY <2>4, <2>5, <3>1, <3>2
  <2> QED BY <2>1, <2>2, <2>5 DEF OInv, Pcs
<1>8. CASE Walk
  BY <1>8 DEF Walk, OInv, domVars, loopVars, Locs, Pcs
<1> QED BY <1>1, <1>2, <1>3, <1>4, <1>5, <1>6, <1>7, <1>8 DEF Next, Order

-----------------------------------------------------------------------------
(* At a meet the analysis waits: of two locations that a transition connects, *)
(* and that are not on a cycle, the first one has the smaller number          *)
(* (getWaitAtMeetOrderOf), in every relation.                                 *)
THEOREM MeetsAreWaitedFor == Spec => []MeetsWait
<1>1. OInv => MeetsWait
  <2> SUFFICES ASSUME OInv, pc = "walk", NEW t \in rel.trans, {t.from, t.to} \cap heads = {},
                      t.from \notin ReachesWithout(t.to, NoLoc)
               PROVE  wam[t.from] < wam[t.to]
    BY DEF MeetsWait
  <2>1. OnNoCycle(rel, t)
    BY NoCycleMeans DEF OInv
  <2> QED BY <2>1 DEF OInv
<1> QED BY <1>1, OInit, ONext, PTL DEF Spec
=============================================================================
