-------------------------- MODULE ControlFlowProofs --------------------------
(***************************************************************************)
(* The relations that RelationBuildingVisitor builds, of any program, and     *)
(* what establishAnalysisInvariants makes of them: the equivalence classes    *)
(* of the locations are complete, and the result has the shape that the       *)
(* analyses rely on.                                                         *)
(***************************************************************************)
EXTENDS ControlFlow, TransitionRelationsProofs, SequenceTheorems

-----------------------------------------------------------------------------
(* New locations. *)

LEMMA NumberingIsFresh ==
  ASSUME NEW S, IsFiniteSet(S), NEW n \in Nat
  PROVE  /\ Cardinality(S) \in Nat
         /\ \A x \in S : Numbering(S, n)[x] \in n + 1 .. n + Cardinality(S)
         /\ \A x, y \in S : Numbering(S, n)[x] = Numbering(S, n)[y] => x = y
<1> DEFINE m == Cardinality(S)
           f == SetToSeq(S)
           place(x) == CHOOSE i \in DOMAIN f : f[i] = x
<1>1. m \in Nat /\ ExistsBijection(1 .. m, S)
  BY FS_CardinalityType
<1>2. \E g \in [1 .. m -> S] : IsInjective(g)
  BY <1>1 DEF ExistsBijection, Bijection, Injection
<1>3. f \in [1 .. m -> S] /\ IsInjective(f)
  BY <1>2 DEF SetToSeq
<1> HIDE DEF f
<1>4. f \in Surjection(1 .. m, S)
  <2>1. f \in Injection(1 .. m, S)
    BY <1>3 DEF Injection
  <2>2. IsFiniteSet(1 .. m) /\ Cardinality(1 .. m) = m
    BY <1>1, FS_Interval
  <2> QED BY <2>1, <2>2, FS_Injection
<1>5. \A x \in S : place(x) \in 1 .. m /\ f[place(x)] = x
  <2> SUFFICES ASSUME NEW x \in S PROVE place(x) \in DOMAIN f /\ f[place(x)] = x
    BY <1>3
  <2>1. \E i \in DOMAIN f : f[i] = x
    BY <1>3, <1>4 DEF Surjection
  <2> QED BY <2>1, Zenon
<1>6. \A x \in S : Numbering(S, n)[x] = n + place(x)
  BY DEF Numbering, f
<1> HIDE DEF place
<1>7. \A x \in S : n + place(x) \in n + 1 .. n + m
  BY <1>1, <1>5
<1>8. ASSUME NEW x \in S, NEW y \in S, n + place(x) = n + place(y) PROVE x = y
  <2>1. place(x) = place(y)
    BY <1>1, <1>5, <1>8
  <2> QED BY <1>5, <2>1
<1> QED BY <1>1, <1>6, <1>7, <1>8

LEMMA FiniteImage ==
  ASSUME NEW S, IsFiniteSet(S), NEW f, DOMAIN f = S, NEW T, T = {f[x] : x \in S}
  PROVE  IsFiniteSet(T)
<1> DEFINE g == [x \in S |-> f[x]]
<1>1. g \in Surjection(S, T)
  BY DEF Surjection
<1> QED BY <1>1, FS_Surjection

LEMMA FiniteUnions ==
  ASSUME NEW A, NEW B, NEW C, IsFiniteSet(A), IsFiniteSet(B), IsFiniteSet(C)
  PROVE  IsFiniteSet(A \cup B \cup C)
BY FS_Union

LEMMA FiniteConnections ==
  ASSUME NEW S, NEW T, IsFiniteSet(S), IsFiniteSet(T), NEW op
  PROVE  IsFiniteSet(Connections(S, T, op))
<1> DEFINE f == [p \in S \X T |-> Trans(p[1], op, p[2])]
<1>1. IsFiniteSet(S \X T)
  BY FS_Product
<1>2. Connections(S, T, op) = {f[p] : p \in S \X T}
  <2>1. ASSUME NEW l \in S, NEW k \in T PROVE \E p \in S \X T : f[p] = Trans(l, op, k)
    <3>1. <<l, k>> \in S \X T /\ f[<<l, k>>] = Trans(l, op, k)
      OBVIOUS
    <3> QED BY <3>1
  <2>2. \A p \in S \X T : f[p] = Trans(p[1], op, p[2]) /\ p[1] \in S /\ p[2] \in T
    OBVIOUS
  <2> HIDE DEF f
  <2>3. \A p \in S \X T : f[p] \in Connections(S, T, op)
    BY <2>2 DEF Connections
  <2>4. ASSUME NEW t \in Connections(S, T, op) PROVE t \in {f[p] : p \in S \X T}
    <3>1. PICK l \in S, k \in T : t = Trans(l, op, k)
      BY DEF Connections
    <3> QED BY <2>1, <3>1
  <2> QED BY <2>3, <2>4
<1>3. DOMAIN f = S \X T
  OBVIOUS
<1> HIDE DEF f
<1> QED BY <1>1, <1>2, <1>3, FiniteImage

-----------------------------------------------------------------------------
(* What holds of every relation that is built. *)

OpKinds == {"epsilon", "dummy", "statement", "assume_cond", "signal", "return", "declare", "assign",
            "check", "assume"}
Ops     == [kind : OpKinds, arg : Nat]

Ranged(r, n) ==
  /\ Typed(r, Ops)
  /\ IsFiniteSet(r.trans)
  /\ r.locs \subseteq 1 .. n
  /\ r.entry \subseteq r.locs
  /\ r.exit \subseteq r.locs

(* An epsilon transition leads from one location to another one.             *)
Joins(r, l, k) == l # k /\ Trans(l, Epsilon, k) \in r.trans

(* Of the two ends of an epsilon transition, it is the only one that leaves   *)
(* the first one, or the only one that enters the second one: none is in the  *)
(* middle of a zigzag, which the search for an equivalence class, forwards or *)
(* backwards, would not follow.                                              *)
NoZigzag(r) ==
  \A l, k : Joins(r, l, k) => \/ \A j : Joins(r, l, j) => j = k
                              \/ k \notin r.entry /\ \A j : Joins(r, j, k) => j = l

EntryFirst(r) == \A e \in r.entry : \A l : ~Joins(r, l, e)

Composable(r) ==
  /\ \E e : r.entry = {e}
  /\ r.exit = {} \/ \E x : r.exit = {x}
  /\ \A x \in r.exit : \A k : ~Joins(r, x, k)
  /\ NoZigzag(r)

Good(r, n) == Ranged(r, n) /\ Composable(r)

LEMMA OpsFacts ==
  /\ Epsilon \in Ops /\ IrreducibleEpsilon \in Ops
  /\ \A kind \in OpKinds, arg \in Nat : Op(kind, arg) \in Ops /\ Op(kind, arg).kind = kind
<1>1. 0 \in Nat
  OBVIOUS
<1>2. "epsilon" \in OpKinds /\ "dummy" \in OpKinds
  BY DEF OpKinds
<1>3. \A kind \in OpKinds, arg \in Nat : Op(kind, arg) \in Ops
  BY DEF Ops, Op
<1>4. \A kind, arg : Op(kind, arg).kind = kind
  BY DEF Op
<1>5. Epsilon \in Ops
  BY <1>1, <1>2, <1>3 DEF Epsilon
<1>6. IrreducibleEpsilon \in Ops
  BY <1>1, <1>2, <1>3 DEF IrreducibleEpsilon
<1> QED BY <1>3, <1>4, <1>5, <1>6

LEMMA TransEqual ==
  ASSUME NEW l, NEW op, NEW k, NEW l2, NEW op2, NEW k2
  PROVE  Trans(l, op, k) = Trans(l2, op2, k2) <=> l = l2 /\ op = op2 /\ k = k2
<1>1. ASSUME Trans(l, op, k) = Trans(l2, op2, k2) PROVE l = l2 /\ op = op2 /\ k = k2
  BY <1>1, TransFields
<1> QED BY <1>1

LEMMA TransTyped ==
  ASSUME NEW L, NEW l \in L, NEW k \in L, NEW op \in Ops
  PROVE  Trans(l, op, k) \in [from : L, op : Ops, to : L]
BY DEF Trans

LEMMA ConnectionsAre ==
  ASSUME NEW S, NEW T, NEW op, NEW t
  PROVE  t \in Connections(S, T, op) <=> \E l \in S, k \in T : t = Trans(l, op, k)
BY DEF Connections

LEMMA ConnectionsTyped ==
  ASSUME NEW L, NEW S \in SUBSET L, NEW T \in SUBSET L, NEW op \in Ops
  PROVE  Connections(S, T, op) \subseteq [from : L, op : Ops, to : L]
<1> SUFFICES ASSUME NEW t \in Connections(S, T, op) PROVE t \in [from : L, op : Ops, to : L]
  OBVIOUS
<1>1. PICK l \in S, k \in T : t = Trans(l, op, k)
  BY ConnectionsAre
<1>2. l \in L /\ k \in L
  OBVIOUS
<1> QED BY <1>1, <1>2, TransTyped

LEMMA ConnectionsEnds ==
  ASSUME NEW S, NEW T, NEW op, NEW t \in Connections(S, T, op)
  PROVE  t.from \in S /\ t.to \in T /\ t.op = op
BY ConnectionsAre, TransFields

(* Transitions, where they start and end, and those between other locations.  *)
LEMMA BuiltRanged ==
  ASSUME NEW n \in Nat, NEW trans, NEW entry, NEW exit, IsFiniteSet(trans),
         trans \subseteq [from : 1 .. n, op : Ops, to : 1 .. n],
         entry \subseteq 1 .. n, exit \subseteq 1 .. n
  PROVE  Ranged(Built(trans, entry, exit), n)
<1> DEFINE L == {t.from : t \in trans} \cup {t.to : t \in trans} \cup entry \cup exit
<1>1. Built(trans, entry, exit) = [trans |-> trans, locs |-> L, entry |-> entry, exit |-> exit]
  BY DEF Built
<1>2. ASSUME NEW t \in trans PROVE t \in [from : L, op : Ops, to : L] /\ t.from \in 1 .. n /\ t.to \in 1 .. n
  <2>1. t \in [from : 1 .. n, op : Ops, to : 1 .. n]
    OBVIOUS
  <2>2. t.from \in L /\ t.to \in L /\ t.op \in Ops /\ t = [from |-> t.from, op |-> t.op, to |-> t.to]
    BY <2>1
  <2> HIDE DEF L
  <2> QED BY <2>1, <2>2
<1>3. L \subseteq 1 .. n /\ entry \subseteq L /\ exit \subseteq L
  BY <1>2
<1> HIDE DEF L
<1> QED BY <1>1, <1>2, <1>3, OpsFacts DEF Ranged, Typed

LEMMA SingletonGood ==
  ASSUME NEW n \in Nat, NEW l \in 1 .. n
  PROVE  /\ Good(Singleton(l), n) /\ EntryFirst(Singleton(l))
         /\ Singleton(l).locs = {l} /\ Singleton(l).entry = {l} /\ Singleton(l).exit = {l}
<1> DEFINE r == Singleton(l)
<1>1. r = Built({Trans(l, Epsilon, l)}, {l}, {l})
  BY DEF Singleton
<1>2. r.trans = {Trans(l, Epsilon, l)} /\ r.entry = {l} /\ r.exit = {l} /\ r.locs = {l}
  BY <1>1, TransFields DEF Built
<1>3. Ranged(r, n)
  <2>1. IsFiniteSet({Trans(l, Epsilon, l)})
    BY FS_Singleton
  <2>2. Trans(l, Epsilon, l) \in [from : 1 .. n, op : Ops, to : 1 .. n]
    BY OpsFacts, TransTyped
  <2> QED BY <1>1, <2>1, <2>2, BuiltRanged
<1> HIDE DEF r
<1>4. \A j, k : ~Joins(r, j, k)
  BY <1>2, TransEqual DEF Joins
<1> QED BY <1>2, <1>3, <1>4 DEF Good, Composable, NoZigzag, EntryFirst, r

LEMMA ForOpGood ==
  ASSUME NEW n \in Nat, NEW l \in 1 .. n, NEW k \in 1 .. n, NEW op \in Ops, op # Epsilon
  PROVE  /\ Good(ForOp(l, op, k), n) /\ EntryFirst(ForOp(l, op, k))
         /\ ForOp(l, op, k).locs = {l, k}
         /\ ForOp(l, op, k).entry = {l} /\ ForOp(l, op, k).exit = {k}
<1> DEFINE r == ForOp(l, op, k)
           ts == {Trans(l, Epsilon, l), Trans(l, op, k)}
<1>1. r = Built(ts, {l}, {k})
  BY DEF ForOp
<1>2. r.trans = ts /\ r.entry = {l} /\ r.exit = {k} /\ r.locs = {l, k}
  BY <1>1, TransFields DEF Built
<1>3. Ranged(r, n)
  <2>1. IsFiniteSet(ts)
    <3>1. IsFiniteSet({Trans(l, Epsilon, l)} \cup {Trans(l, op, k)})
      BY FS_Singleton, FS_Union
    <3>2. ts = {Trans(l, Epsilon, l)} \cup {Trans(l, op, k)}
      OBVIOUS
    <3> QED BY <3>1, <3>2
  <2>2. Trans(l, Epsilon, l) \in [from : 1 .. n, op : Ops, to : 1 .. n]
    BY OpsFacts, TransTyped
  <2>3. Trans(l, op, k) \in [from : 1 .. n, op : Ops, to : 1 .. n]
    BY TransTyped
  <2> QED BY <1>1, <2>1, <2>2, <2>3, BuiltRanged
<1>4. \A i, j : ~Joins(r, i, j)
  BY <1>2, TransEqual DEF Joins
<1> HIDE DEF r
<1> QED BY <1>2, <1>3, <1>4 DEF Good, Composable, NoZigzag, EntryFirst, r

LEMMA RangedFacts ==
  ASSUME NEW r, NEW n \in Nat, Ranged(r, n)
  PROVE  /\ r.trans \subseteq [from : 1 .. n, op : Ops, to : 1 .. n]
         /\ r.entry \subseteq 1 .. n /\ r.exit \subseteq 1 .. n
         /\ IsFiniteSet(r.locs) /\ IsFiniteSet(r.entry) /\ IsFiniteSet(r.exit)
         /\ \A t \in r.trans : t.from \in r.locs /\ t.to \in r.locs /\ t.op \in Ops
         /\ \A l, k : Joins(r, l, k) => l \in r.locs /\ k \in r.locs
<1>1. r.trans \subseteq [from : r.locs, op : Ops, to : r.locs] /\ r.locs \subseteq 1 .. n
  BY DEF Ranged, Typed
<1>2. \A t \in r.trans : t.from \in r.locs /\ t.to \in r.locs /\ t.op \in Ops
  BY <1>1
<1>3. IsFiniteSet(1 .. n)
  BY FS_Interval
<1>4. IsFiniteSet(r.locs)
  BY <1>1, <1>3, FS_Subset
<1>5. r.entry \subseteq r.locs /\ r.exit \subseteq r.locs
  BY DEF Ranged
<1>6. IsFiniteSet(r.entry) /\ IsFiniteSet(r.exit)
  BY <1>4, <1>5, FS_Subset
<1>7. [from : r.locs, op : Ops, to : r.locs] \subseteq [from : 1 .. n, op : Ops, to : 1 .. n]
  BY <1>1
<1>8. \A l, k : Joins(r, l, k) => l \in r.locs /\ k \in r.locs
  BY <1>2, TransFields DEF Joins
<1> QED BY <1>1, <1>2, <1>4, <1>5, <1>6, <1>7, <1>8

(* Of more locations, the relation is as it was.                             *)
LEMMA GoodLater ==
  ASSUME NEW n \in Nat, NEW m \in Nat, n <= m, NEW r, Good(r, n)
  PROVE  Good(r, m)
<1>1. 1 .. n \subseteq 1 .. m
  OBVIOUS
<1> QED BY <1>1 DEF Good, Ranged

LEMMA ConcatGood ==
  ASSUME NEW n \in Nat, NEW r1, NEW r2, Good(r1, n), Good(r2, n), r1.locs \cap r2.locs = {}
  PROVE  /\ Good(Concat(r1, r2), n)
         /\ Concat(r1, r2).locs \subseteq r1.locs \cup r2.locs
         /\ Concat(r1, r2).entry = r1.entry
         /\ EntryFirst(r1) => EntryFirst(Concat(r1, r2))
<1> DEFINE R == Concat(r1, r2)
<1>1. CASE r1.exit = {}
  BY <1>1 DEF Concat
<1>2. CASE r1.exit # {}
  <2>1. PICK x : r1.exit = {x}
    BY <1>2 DEF Good, Composable
  <2>2. PICK e : r2.entry = {e}
    BY DEF Good, Composable
  <2>3. x \in r1.locs /\ e \in r2.locs /\ x # e
    BY <2>1, <2>2 DEF Good, Ranged
  <2> DEFINE new == Trans(x, Epsilon, e)
  <2>4. Connections(r1.exit, r2.entry, Epsilon) = {new}
    BY <2>1, <2>2 DEF Connections
  <2>5. /\ DOMAIN R = {"trans", "locs", "entry", "exit"}
        /\ R.trans = r1.trans \cup r2.trans \cup {new} /\ R.locs = r1.locs \cup r2.locs
        /\ R.entry = r1.entry /\ R.exit = r2.exit
    BY <1>2, <2>4 DEF Concat
  <2> HIDE DEF R
  <2>6. Ranged(R, n)
    <3>1. IsFiniteSet(R.trans)
      <4>1. IsFiniteSet(r1.trans) /\ IsFiniteSet(r2.trans) /\ IsFiniteSet({new})
        BY FS_Singleton DEF Good, Ranged
      <4> HIDE DEF new
      <4> QED BY <2>5, <4>1, FiniteUnions
    <3>2. new \in [from : R.locs, op : Ops, to : R.locs]
      BY <2>3, <2>5, OpsFacts, TransTyped
    <3>3. r1.trans \subseteq [from : r1.locs, op : Ops, to : r1.locs]
          /\ r2.trans \subseteq [from : r2.locs, op : Ops, to : r2.locs]
      BY DEF Good, Ranged, Typed
    <3>4. r1.locs \subseteq 1 .. n /\ r2.locs \subseteq 1 .. n /\ r1.entry \subseteq r1.locs
          /\ r2.exit \subseteq r2.locs
      BY DEF Good, Ranged
    <3>5. R.trans \subseteq [from : R.locs, op : Ops, to : R.locs]
      <4> HIDE DEF new
      <4> QED BY <2>5, <3>2, <3>3
    <3> QED BY <2>5, <3>1, <3>4, <3>5, OpsFacts DEF Ranged, Typed
  <2>7. \A l, k : Joins(R, l, k) <=> Joins(r1, l, k) \/ Joins(r2, l, k) \/ (l = x /\ k = e)
    BY <2>3, <2>5, TransEqual DEF Joins
  <2>8. /\ \A l, k : Joins(r1, l, k) => l \in r1.locs /\ k \in r1.locs
        /\ \A l, k : Joins(r2, l, k) => l \in r2.locs /\ k \in r2.locs
    BY RangedFacts DEF Good
  <2>9. \A k : ~Joins(r1, x, k)
    BY <2>1 DEF Good, Composable
  <2>10. r1.entry \subseteq r1.locs /\ r2.exit \subseteq r2.locs
    BY DEF Good, Ranged
  <2>11. NoZigzag(R)
    <3> SUFFICES ASSUME NEW l, NEW k, Joins(R, l, k)
                 PROVE  \/ \A j : Joins(R, l, j) => j = k
                        \/ k \notin R.entry /\ \A j : Joins(R, j, k) => j = l
      BY DEF NoZigzag
    <3>1. CASE l = x /\ k = e
      BY <2>3, <2>7, <2>8, <2>9, <3>1
    <3>2. CASE Joins(r1, l, k)
      <4>1. \/ \A j : Joins(r1, l, j) => j = k
            \/ k \notin r1.entry /\ \A j : Joins(r1, j, k) => j = l
        BY <3>2 DEF Good, Composable, NoZigzag
      <4>2. l # x /\ k # e /\ l \notin r2.locs /\ k \notin r2.locs
        BY <2>3, <2>8, <2>9, <3>2
      <4>3. \A j : Joins(R, l, j) => Joins(r1, l, j)
        BY <2>7, <2>8, <4>2
      <4>4. \A j : Joins(R, j, k) => Joins(r1, j, k)
        BY <2>7, <2>8, <4>2
      <4> QED BY <2>5, <4>1, <4>3, <4>4
    <3>3. CASE Joins(r2, l, k)
      <4>1. \/ \A j : Joins(r2, l, j) => j = k
            \/ k # e /\ \A j : Joins(r2, j, k) => j = l
        BY <2>2, <3>3 DEF Good, Composable, NoZigzag
      <4>2. l # x /\ l \notin r1.locs /\ k \notin r1.locs
        BY <2>3, <2>8, <3>3
      <4>3. \A j : Joins(R, l, j) => Joins(r2, l, j)
        BY <2>7, <2>8, <4>2
      <4>4. k # e => \A j : Joins(R, j, k) => Joins(r2, j, k)
        BY <2>7, <2>8, <4>2
      <4> QED BY <2>5, <2>10, <4>1, <4>2, <4>3, <4>4
    <3> QED BY <2>7, <3>1, <3>2, <3>3
  <2>12. \A y \in r2.exit : \A k : ~Joins(R, y, k)
    <3> SUFFICES ASSUME NEW y \in r2.exit, NEW k, Joins(R, y, k) PROVE FALSE
      OBVIOUS
    <3>1. y \notin r1.locs
      BY <2>10
    <3>2. Joins(r2, y, k)
      BY <2>3, <2>7, <2>8, <3>1
    <3> QED BY <3>2 DEF Good, Composable
  <2>13. EntryFirst(r1) => EntryFirst(R)
    BY <2>3, <2>5, <2>7, <2>8, <2>10 DEF EntryFirst
  <2>14. Composable(R)
    BY <2>5, <2>11, <2>12 DEF Good, Composable
  <2> QED BY <2>5, <2>6, <2>13, <2>14 DEF Good, R
<1> QED BY <1>1, <1>2

LEMMA BranchingGood ==
  ASSUME NEW n \in Nat, NEW r1, NEW r2, Good(r1, n), Good(r2, n), r1.locs \cap r2.locs = {},
         EntryFirst(r1), EntryFirst(r2), NEW s \in 1 .. n, NEW d \in 1 .. n, s # d,
         s \notin r1.locs \cup r2.locs, d \notin r1.locs \cup r2.locs
  PROVE  /\ Good(Branching(r1, r2, s, d), n)
         /\ Branching(r1, r2, s, d).locs \subseteq r1.locs \cup r2.locs \cup {s, d}
<1> DEFINE R == Branching(r1, r2, s, d)
           into == Connections({s}, r1.entry \cup r2.entry, Epsilon)
           out  == Connections(r1.exit \cup r2.exit, {d}, Epsilon)
           ts   == r1.trans \cup r2.trans \cup into \cup out
<1>1. R = Built(ts, {s}, {d})
  BY DEF Branching
<1>2. R.trans = ts /\ R.entry = {s} /\ R.exit = {d}
      /\ R.locs = {t.from : t \in ts} \cup {t.to : t \in ts} \cup {s} \cup {d}
  BY <1>1 DEF Built
<1>3. /\ r1.entry \subseteq r1.locs /\ r1.exit \subseteq r1.locs
      /\ r2.entry \subseteq r2.locs /\ r2.exit \subseteq r2.locs
      /\ r1.locs \subseteq 1 .. n /\ r2.locs \subseteq 1 .. n
      /\ IsFiniteSet(r1.trans) /\ IsFiniteSet(r2.trans)
  BY DEF Good, Ranged
<1>5. Ranged(R, n)
  <2>1. /\ r1.trans \subseteq [from : 1 .. n, op : Ops, to : 1 .. n]
        /\ r2.trans \subseteq [from : 1 .. n, op : Ops, to : 1 .. n]
        /\ IsFiniteSet(r1.entry) /\ IsFiniteSet(r1.exit)
        /\ IsFiniteSet(r2.entry) /\ IsFiniteSet(r2.exit)
    BY RangedFacts DEF Good
  <2>2. IsFiniteSet(into) /\ IsFiniteSet(out)
    BY <2>1, FS_Singleton, FS_Union, FiniteConnections
  <2>3. \A t \in into \cup out : t \in [from : 1 .. n, op : Ops, to : 1 .. n]
    <3>1. Epsilon \in Ops
      BY OpsFacts
    <3>2. /\ {s} \in SUBSET (1 .. n) /\ {d} \in SUBSET (1 .. n)
          /\ r1.entry \cup r2.entry \in SUBSET (1 .. n)
          /\ r1.exit \cup r2.exit \in SUBSET (1 .. n)
      BY <1>3
    <3>3. into \subseteq [from : 1 .. n, op : Ops, to : 1 .. n]
      BY <3>1, <3>2, ConnectionsTyped, Zenon
    <3>4. out \subseteq [from : 1 .. n, op : Ops, to : 1 .. n]
      BY <3>1, <3>2, ConnectionsTyped, Zenon
    <3> QED BY <3>3, <3>4
  <2> HIDE DEF into, out
  <2>4. IsFiniteSet(ts)
    BY <1>3, <2>2, FS_Union
  <2>5. ts \subseteq [from : 1 .. n, op : Ops, to : 1 .. n]
    BY <2>1, <2>3
  <2> HIDE DEF ts
  <2> QED BY <1>1, <2>4, <2>5, BuiltRanged
<1>6. R.locs \subseteq r1.locs \cup r2.locs \cup {s, d}
  <2>1. \A t \in r1.trans : t.from \in r1.locs /\ t.to \in r1.locs
    BY RangedFacts DEF Good
  <2>2. \A t \in r2.trans : t.from \in r2.locs /\ t.to \in r2.locs
    BY RangedFacts DEF Good
  <2>3. \A t \in into \cup out : t.from \in r1.locs \cup r2.locs \cup {s, d}
                                 /\ t.to \in r1.locs \cup r2.locs \cup {s, d}
    <3>1. ASSUME NEW t \in into PROVE t.from \in {s} /\ t.to \in r1.entry \cup r2.entry
      BY ConnectionsEnds
    <3>2. ASSUME NEW t \in out PROVE t.from \in r1.exit \cup r2.exit /\ t.to \in {d}
      BY ConnectionsEnds
    <3> HIDE DEF into, out
    <3> QED BY <1>3, <3>1, <3>2
  <2> HIDE DEF into, out
  <2> QED BY <1>2, <2>1, <2>2, <2>3
<1>7. \A l, k : Joins(R, l, k) <=> \/ Joins(r1, l, k) \/ Joins(r2, l, k)
                                   \/ l = s /\ k \in r1.entry \cup r2.entry
                                   \/ l \in r1.exit \cup r2.exit /\ k = d
  <2>1. \A l, k : Trans(l, Epsilon, k) \in into <=> l = s /\ k \in r1.entry \cup r2.entry
    BY ConnectionsAre, TransEqual
  <2>2. \A l, k : Trans(l, Epsilon, k) \in out <=> l \in r1.exit \cup r2.exit /\ k = d
    BY ConnectionsAre, TransEqual
  <2> HIDE DEF into, out, R
  <2> QED BY <1>2, <1>3, <2>1, <2>2 DEF Joins
<1> HIDE DEF R, into, out, ts
<1>8. /\ \A l, k : Joins(r1, l, k) => l \in r1.locs /\ k \in r1.locs
      /\ \A l, k : Joins(r2, l, k) => l \in r2.locs /\ k \in r2.locs
  BY RangedFacts DEF Good
<1>9. /\ \A l \in r1.exit : \A k : ~Joins(r1, l, k)
      /\ \A l \in r2.exit : \A k : ~Joins(r2, l, k)
      /\ \A k \in r1.entry : \A l : ~Joins(r1, l, k)
      /\ \A k \in r2.entry : \A l : ~Joins(r2, l, k)
      /\ NoZigzag(r1) /\ NoZigzag(r2)
  BY DEF Good, Composable, EntryFirst
<1>10. NoZigzag(R)
  <2> SUFFICES ASSUME NEW l, NEW k, Joins(R, l, k)
               PROVE  \/ \A j : Joins(R, l, j) => j = k
                      \/ k \notin R.entry /\ \A j : Joins(R, j, k) => j = l
    BY DEF NoZigzag
  <2>1. CASE l = s /\ k \in r1.entry \cup r2.entry
    <3>1. k \notin R.entry
      BY <1>2, <1>3, <2>1
    <3>2. \A j : Joins(R, j, k) => j = l
      BY <1>3, <1>7, <1>8, <1>9, <2>1
    <3> QED BY <3>1, <3>2
  <2>2. CASE l \in r1.exit \cup r2.exit /\ k = d
    BY <1>3, <1>7, <1>8, <1>9, <2>2
  <2>3. CASE Joins(r1, l, k)
    <3>1. \A j : Joins(R, l, j) => Joins(r1, l, j)
      BY <1>3, <1>7, <1>8, <1>9, <2>3
    <3>2. \A j : Joins(R, j, k) => Joins(r1, j, k)
      BY <1>3, <1>7, <1>8, <1>9, <2>3
    <3> QED BY <1>2, <1>8, <1>9, <2>3, <3>1, <3>2 DEF NoZigzag
  <2>4. CASE Joins(r2, l, k)
    <3>1. \A j : Joins(R, l, j) => Joins(r2, l, j)
      BY <1>3, <1>7, <1>8, <1>9, <2>4
    <3>2. \A j : Joins(R, j, k) => Joins(r2, j, k)
      BY <1>3, <1>7, <1>8, <1>9, <2>4
    <3> QED BY <1>2, <1>8, <1>9, <2>4, <3>1, <3>2 DEF NoZigzag
  <2> QED BY <1>7, <2>1, <2>2, <2>3, <2>4
<1>11. \A k : ~Joins(R, d, k)
  BY <1>3, <1>7, <1>8
<1>12. Composable(R)
  BY <1>2, <1>10, <1>11 DEF Composable
<1> QED BY <1>5, <1>6, <1>12 DEF Good, R

LEMMA RepeatForeverGood ==
  ASSUME NEW n \in Nat, NEW r, Good(r, n)
  PROVE  /\ Good(RepeatForever(r), n)
         /\ RepeatForever(r).locs \subseteq r.locs
<1> DEFINE R == RepeatForever(r)
           back == Connections(r.exit, r.entry, Epsilon)
           ts   == r.trans \cup back
<1>1. R = Built(ts, r.entry, {})
  BY DEF RepeatForever
<1>2. R.trans = ts /\ R.entry = r.entry /\ R.exit = {}
      /\ R.locs = {t.from : t \in ts} \cup {t.to : t \in ts} \cup r.entry \cup {}
  BY <1>1 DEF Built
<1>3. r.entry \subseteq r.locs /\ r.exit \subseteq r.locs /\ IsFiniteSet(r.trans)
  BY DEF Good, Ranged
<1>4. /\ r.trans \subseteq [from : 1 .. n, op : Ops, to : 1 .. n]
      /\ r.entry \subseteq 1 .. n /\ r.exit \subseteq 1 .. n
      /\ IsFiniteSet(r.entry) /\ IsFiniteSet(r.exit)
      /\ \A t \in r.trans : t.from \in r.locs /\ t.to \in r.locs
      /\ \A l, k : Joins(r, l, k) => l \in r.locs /\ k \in r.locs
  BY RangedFacts DEF Good
<1>5. Ranged(R, n)
  <2>1. IsFiniteSet(back)
    BY <1>4, FiniteConnections
  <2>2. back \subseteq [from : 1 .. n, op : Ops, to : 1 .. n]
    <3>1. r.entry \in SUBSET (1 .. n) /\ r.exit \in SUBSET (1 .. n) /\ Epsilon \in Ops
      BY <1>4, OpsFacts
    <3> QED BY <3>1, ConnectionsTyped, Zenon
  <2> HIDE DEF back
  <2>3. IsFiniteSet(ts) /\ ts \subseteq [from : 1 .. n, op : Ops, to : 1 .. n]
    BY <1>3, <1>4, <2>1, <2>2, FS_Union
  <2> HIDE DEF ts
  <2>4. {} \subseteq 1 .. n
    OBVIOUS
  <2> QED BY <1>1, <1>4, <2>3, <2>4, BuiltRanged
<1>6. R.locs \subseteq r.locs
  <2>1. ASSUME NEW t \in back PROVE t.from \in r.exit /\ t.to \in r.entry
    BY ConnectionsEnds
  <2> HIDE DEF back
  <2> QED BY <1>2, <1>3, <1>4, <2>1
<1>7. \A l, k : Joins(R, l, k) <=> Joins(r, l, k) \/ (l # k /\ l \in r.exit /\ k \in r.entry)
  <2>1. \A l, k : Trans(l, Epsilon, k) \in back <=> l \in r.exit /\ k \in r.entry
    BY ConnectionsAre, TransEqual
  <2> HIDE DEF back, R
  <2> QED BY <1>2, <2>1 DEF Joins
<1> HIDE DEF R, back, ts
<1>8. PICK e : r.entry = {e}
  BY DEF Good, Composable
<1>9. NoZigzag(r) /\ \A x \in r.exit : \A k : ~Joins(r, x, k)
  BY DEF Good, Composable
<1>10. NoZigzag(R)
  <2> SUFFICES ASSUME NEW l, NEW k, Joins(R, l, k)
               PROVE  \/ \A j : Joins(R, l, j) => j = k
                      \/ k \notin R.entry /\ \A j : Joins(R, j, k) => j = l
    BY DEF NoZigzag
  <2>1. CASE l \in r.exit /\ k \in r.entry
    BY <1>7, <1>8, <1>9, <2>1
  <2>2. CASE Joins(r, l, k)
    <3>1. \A j : Joins(R, l, j) => Joins(r, l, j)
      BY <1>7, <1>9, <2>2
    <3>2. k \notin r.entry => \A j : Joins(R, j, k) => Joins(r, j, k)
      BY <1>7
    <3> QED BY <1>2, <1>9, <2>2, <3>1, <3>2 DEF NoZigzag
  <2> QED BY <1>7, <2>1, <2>2
<1>11. Composable(R)
  BY <1>2, <1>8, <1>10 DEF Composable
<1> QED BY <1>5, <1>6, <1>11 DEF Good, R

LEMMA UntilGood ==
  ASSUME NEW n \in Nat, NEW q, NEW g, NEW v, Good(q, n), Good(g, n), Good(v, n),
         EntryFirst(g), EntryFirst(v), v.exit # {},
         q.locs \cap g.locs = {}, q.locs \cap v.locs = {}, g.locs \cap v.locs = {},
         NEW h \in 1 .. n, NEW d \in 1 .. n, h # d,
         h \notin q.locs \cup g.locs \cup v.locs, d \notin q.locs \cup g.locs \cup v.locs
  PROVE  /\ Good(Until(q, g, v, h, d), n)
         /\ Until(q, g, v, h, d).locs \subseteq q.locs \cup g.locs \cup v.locs \cup {h, d}
<1> DEFINE R == Until(q, g, v, h, d)
           L == q.locs \cup g.locs \cup v.locs \cup {h, d}
           a1 == Connections({h}, q.entry, Epsilon)
           a2 == Connections(g.exit, {h}, Epsilon)
           a3 == Connections(v.exit, {d}, Epsilon)
           a4 == Connections(q.exit, g.entry \cup v.entry, Epsilon)
           b  == IF g.exit = {} THEN {} ELSE {h}
           a5 == Connections(b, {h}, Epsilon)
           ts == q.trans \cup a1 \cup g.trans \cup a2 \cup v.trans \cup a3 \cup a4 \cup a5
<1>1. R = Built(ts, {h}, {d})
  <2> DEFINE start == ConcatOpTr(h, Epsilon, q)
             body  == ConcatTrOpGoto(g, Epsilon, h)
             last  == ConcatTrOpGoto(v, Epsilon, d)
  <2>1. DOMAIN q = {"trans", "locs", "entry", "exit"} /\ DOMAIN g = {"trans", "locs", "entry", "exit"}
        /\ DOMAIN v = {"trans", "locs", "entry", "exit"}
    BY DEF Good, Ranged, Typed
  <2>2. start.trans = q.trans \cup a1 /\ start.entry = {h} /\ start.exit = q.exit
    BY <2>1 DEF ConcatOpTr
  <2>3. body.trans = g.trans \cup a2 /\ body.entry = g.entry /\ body.exit = b
    <3>1. CASE g.exit = {}
      <4>1. a2 = {}
        BY <3>1 DEF Connections
      <4> HIDE DEF a2
      <4> QED BY <3>1, <4>1 DEF ConcatTrOpGoto
    <3>2. CASE g.exit # {}
      BY <2>1, <3>2 DEF ConcatTrOpGoto
    <3> QED BY <3>1, <3>2
  <2>4. last.trans = v.trans \cup a3 /\ last.entry = v.entry /\ last.exit = {d}
    BY <2>1 DEF ConcatTrOpGoto
  <2>5. R = Built(start.trans \cup body.trans \cup last.trans
                    \cup Connections(start.exit, body.entry \cup last.entry, Epsilon)
                    \cup Connections(body.exit, start.entry, Epsilon),
                  start.entry, last.exit)
    BY DEF Until
  <2> HIDE DEF start, body, last
  <2>6. Connections(start.exit, body.entry \cup last.entry, Epsilon) = a4
        /\ Connections(body.exit, start.entry, Epsilon) = a5
    BY <2>2, <2>3, <2>4
  <2> HIDE DEF a1, a2, a3, a4, a5, R
  <2>7. start.trans \cup body.trans \cup last.trans \cup a4 \cup a5 = ts
    BY <2>2, <2>3, <2>4
  <2> QED BY <2>2, <2>4, <2>5, <2>6, <2>7
<1>2. R.trans = ts /\ R.entry = {h} /\ R.exit = {d}
      /\ R.locs = {t.from : t \in ts} \cup {t.to : t \in ts} \cup {h} \cup {d}
  BY <1>1 DEF Built
<1>3. /\ q.entry \subseteq q.locs /\ q.exit \subseteq q.locs /\ IsFiniteSet(q.trans)
      /\ g.entry \subseteq g.locs /\ g.exit \subseteq g.locs /\ IsFiniteSet(g.trans)
      /\ v.entry \subseteq v.locs /\ v.exit \subseteq v.locs /\ IsFiniteSet(v.trans)
      /\ q.locs \subseteq 1 .. n /\ g.locs \subseteq 1 .. n /\ v.locs \subseteq 1 .. n
  BY DEF Good, Ranged
<1>4. /\ q.trans \subseteq [from : 1 .. n, op : Ops, to : 1 .. n]
      /\ g.trans \subseteq [from : 1 .. n, op : Ops, to : 1 .. n]
      /\ v.trans \subseteq [from : 1 .. n, op : Ops, to : 1 .. n]
      /\ IsFiniteSet(q.entry) /\ IsFiniteSet(q.exit)
      /\ IsFiniteSet(g.entry) /\ IsFiniteSet(g.exit)
      /\ IsFiniteSet(v.entry) /\ IsFiniteSet(v.exit)
      /\ \A t \in q.trans : t.from \in q.locs /\ t.to \in q.locs
      /\ \A t \in g.trans : t.from \in g.locs /\ t.to \in g.locs
      /\ \A t \in v.trans : t.from \in v.locs /\ t.to \in v.locs
      /\ \A l, k : Joins(q, l, k) => l \in q.locs /\ k \in q.locs
      /\ \A l, k : Joins(g, l, k) => l \in g.locs /\ k \in g.locs
      /\ \A l, k : Joins(v, l, k) => l \in v.locs /\ k \in v.locs
  BY RangedFacts DEF Good
<1>5. b \subseteq {h}
  OBVIOUS
<1> HIDE DEF b
<1>6. Ranged(R, n)
  <2> DEFINE T == [from : 1 .. n, op : Ops, to : 1 .. n]
  <2>1. IsFiniteSet({h}) /\ IsFiniteSet({d}) /\ IsFiniteSet(b) /\ IsFiniteSet(g.entry \cup v.entry)
    BY <1>4, <1>5, FS_Singleton, FS_Subset, FS_Union
  <2>2. IsFiniteSet(a1) /\ IsFiniteSet(a2) /\ IsFiniteSet(a3) /\ IsFiniteSet(a4) /\ IsFiniteSet(a5)
    BY <1>4, <2>1, FiniteConnections
  <2>3. /\ {h} \in SUBSET (1 .. n) /\ {d} \in SUBSET (1 .. n) /\ b \in SUBSET (1 .. n)
        /\ q.entry \in SUBSET (1 .. n) /\ g.exit \in SUBSET (1 .. n) /\ v.exit \in SUBSET (1 .. n)
        /\ q.exit \in SUBSET (1 .. n) /\ g.entry \cup v.entry \in SUBSET (1 .. n)
        /\ Epsilon \in Ops
    BY <1>3, <1>5, OpsFacts
  <2>4. a1 \subseteq T
    BY <2>3, ConnectionsTyped, Zenon
  <2>5. a2 \subseteq T
    BY <2>3, ConnectionsTyped, Zenon
  <2>6. a3 \subseteq T
    BY <2>3, ConnectionsTyped, Zenon
  <2>7. a4 \subseteq T
    BY <2>3, ConnectionsTyped, Zenon
  <2>8. a5 \subseteq T
    BY <2>3, ConnectionsTyped, Zenon
  <2> HIDE DEF a1, a2, a3, a4, a5
  <2>9. IsFiniteSet(q.trans \cup a1 \cup g.trans) /\ IsFiniteSet(a2 \cup v.trans \cup a3)
        /\ IsFiniteSet(a4 \cup a5)
    BY <1>3, <2>2, FS_Union, FiniteUnions
  <2>10. IsFiniteSet((q.trans \cup a1 \cup g.trans) \cup (a2 \cup v.trans \cup a3) \cup (a4 \cup a5))
    BY <2>9, FiniteUnions
  <2>11. ts = (q.trans \cup a1 \cup g.trans) \cup (a2 \cup v.trans \cup a3) \cup (a4 \cup a5)
    OBVIOUS
  <2>12. ts \subseteq T
    <3> HIDE DEF T
    <3>1. q.trans \subseteq T /\ g.trans \subseteq T /\ v.trans \subseteq T
      BY <1>4 DEF T
    <3> QED BY <2>4, <2>5, <2>6, <2>7, <2>8, <3>1
  <2> HIDE DEF ts, T
  <2>13. {h} \subseteq 1 .. n /\ {d} \subseteq 1 .. n /\ IsFiniteSet(ts)
    BY <2>10, <2>11
  <2> QED BY <1>1, <2>12, <2>13, BuiltRanged DEF T
<1>7. R.locs \subseteq L
  <2>1. ASSUME NEW t \in a1 PROVE t.from \in {h} /\ t.to \in q.entry
    BY ConnectionsEnds
  <2>2. ASSUME NEW t \in a2 PROVE t.from \in g.exit /\ t.to \in {h}
    BY ConnectionsEnds
  <2>3. ASSUME NEW t \in a3 PROVE t.from \in v.exit /\ t.to \in {d}
    BY ConnectionsEnds
  <2>4. ASSUME NEW t \in a4 PROVE t.from \in q.exit /\ t.to \in g.entry \cup v.entry
    BY ConnectionsEnds
  <2>5. ASSUME NEW t \in a5 PROVE t.from \in b /\ t.to \in {h}
    BY ConnectionsEnds
  <2> HIDE DEF a1, a2, a3, a4, a5
  <2>6. \A t \in ts : t.from \in L /\ t.to \in L
    BY <1>3, <1>4, <1>5, <2>1, <2>2, <2>3, <2>4, <2>5
  <2> HIDE DEF ts, L
  <2>7. {h} \subseteq L /\ {d} \subseteq L
    BY DEF L
  <2> QED BY <1>2, <2>6, <2>7
<1>8. \A l, k : Joins(R, l, k) <=> \/ Joins(q, l, k) \/ Joins(g, l, k) \/ Joins(v, l, k)
                                   \/ l = h /\ k \in q.entry
                                   \/ l \in g.exit /\ k = h
                                   \/ l \in v.exit /\ k = d
                                   \/ l \in q.exit /\ k \in g.entry \cup v.entry
  <2>1. \A l, k : Trans(l, Epsilon, k) \in a1 <=> l = h /\ k \in q.entry
    BY ConnectionsAre, TransEqual
  <2>2. \A l, k : Trans(l, Epsilon, k) \in a2 <=> l \in g.exit /\ k = h
    BY ConnectionsAre, TransEqual
  <2>3. \A l, k : Trans(l, Epsilon, k) \in a3 <=> l \in v.exit /\ k = d
    BY ConnectionsAre, TransEqual
  <2>4. \A l, k : Trans(l, Epsilon, k) \in a4 <=> l \in q.exit /\ k \in g.entry \cup v.entry
    BY ConnectionsAre, TransEqual
  <2>5. \A l, k : Trans(l, Epsilon, k) \in a5 => l = k
    <3>1. \A l, k : Trans(l, Epsilon, k) \in a5 <=> l \in b /\ k \in {h}
      BY ConnectionsAre, TransEqual
    <3> HIDE DEF a5
    <3>2. \A l, k : Trans(l, Epsilon, k) \in a5 => l \in {h} /\ k \in {h}
      BY <1>5, <3>1, Zenon
    <3>3. \A l, k : l \in {h} /\ k \in {h} => l = k
      OBVIOUS
    <3> QED BY <3>2, <3>3, Zenon
  <2> HIDE DEF a1, a2, a3, a4, a5, R
  <2> QED BY <1>2, <1>3, <2>1, <2>2, <2>3, <2>4, <2>5 DEF Joins
<1> HIDE DEF R, ts, a1, a2, a3, a4, a5, L
<1>9. /\ \A l \in q.exit : \A k : ~Joins(q, l, k)
      /\ \A l \in g.exit : \A k : ~Joins(g, l, k)
      /\ \A l \in v.exit : \A k : ~Joins(v, l, k)
      /\ \A k \in g.entry : \A l : ~Joins(g, l, k)
      /\ \A k \in v.entry : \A l : ~Joins(v, l, k)
      /\ NoZigzag(q) /\ NoZigzag(g) /\ NoZigzag(v)
  BY DEF Good, Composable, EntryFirst
<1>10. PICK e : q.entry = {e}
  BY DEF Good, Composable
<1>11. NoZigzag(R)
  <2> SUFFICES ASSUME NEW l, NEW k, Joins(R, l, k)
               PROVE  \/ \A j : Joins(R, l, j) => j = k
                      \/ k \notin R.entry /\ \A j : Joins(R, j, k) => j = l
    BY DEF NoZigzag
  <2>1. CASE l = h /\ k \in q.entry
    BY <1>3, <1>4, <1>8, <1>10, <2>1
  <2>2. CASE l \in g.exit /\ k = h
    BY <1>3, <1>4, <1>8, <1>9, <2>2
  <2>3. CASE l \in v.exit /\ k = d
    BY <1>3, <1>4, <1>8, <1>9, <2>3
  <2>4. CASE l \in q.exit /\ k \in g.entry \cup v.entry
    <3>1. PICK x : q.exit = {x}
      BY <2>4 DEF Good, Composable
    <3>2. k \notin R.entry
      BY <1>2, <1>3, <2>4
    <3>3. \A j : Joins(R, j, k) => j = l
      BY <1>3, <1>4, <1>8, <1>9, <2>4, <3>1
    <3> QED BY <3>2, <3>3
  <2>5. CASE Joins(q, l, k)
    <3>1. \A j : Joins(R, l, j) => Joins(q, l, j)
      BY <1>3, <1>4, <1>8, <1>9, <2>5
    <3>2. k \notin q.entry => \A j : Joins(R, j, k) => Joins(q, j, k)
      BY <1>3, <1>4, <1>8, <1>9, <2>5
    <3>3. k \notin R.entry
      BY <1>2, <1>4, <2>5
    <3> QED BY <1>9, <2>5, <3>1, <3>2, <3>3 DEF NoZigzag
  <2>6. CASE Joins(g, l, k)
    <3>1. \A j : Joins(R, l, j) => Joins(g, l, j)
      BY <1>3, <1>4, <1>8, <1>9, <2>6
    <3>2. \A j : Joins(R, j, k) => Joins(g, j, k)
      BY <1>3, <1>4, <1>8, <1>9, <2>6
    <3>3. k \notin R.entry
      BY <1>2, <1>4, <2>6
    <3> QED BY <1>9, <2>6, <3>1, <3>2, <3>3 DEF NoZigzag
  <2>7. CASE Joins(v, l, k)
    <3>1. \A j : Joins(R, l, j) => Joins(v, l, j)
      BY <1>3, <1>4, <1>8, <1>9, <2>7
    <3>2. \A j : Joins(R, j, k) => Joins(v, j, k)
      BY <1>3, <1>4, <1>8, <1>9, <2>7
    <3>3. k \notin R.entry
      BY <1>2, <1>4, <2>7
    <3> QED BY <1>9, <2>7, <3>1, <3>2, <3>3 DEF NoZigzag
  <2> QED BY <1>8, <2>1, <2>2, <2>3, <2>4, <2>5, <2>6, <2>7
<1>12. \A k : ~Joins(R, d, k)
  BY <1>3, <1>4, <1>8
<1>13. Composable(R)
  BY <1>2, <1>11, <1>12 DEF Composable
<1> QED BY <1>6, <1>7, <1>13 DEF Good, R, L

-----------------------------------------------------------------------------
(* While the statements are visited, their relations wait on the stack.      *)

StackOK(st, n) ==
  /\ \E S : st \in Seq(S)
  /\ Len(st) >= 1
  /\ \A i \in 1 .. Len(st) : Good(st[i].rel, n)
  /\ \A i, j \in 1 .. Len(st) : i # j => st[i].rel.locs \cap st[j].rel.locs = {}

(* The topmost k items make room for one of their locations and of new ones.  *)
LEMMA PushKeeps ==
  ASSUME NEW n \in Nat, NEW m \in Nat, n <= m, NEW st, StackOK(st, n),
         NEW k \in 0 .. Len(st), NEW item, Good(item.rel, m),
         \A l \in item.rel.locs : \/ l > n
                                  \/ \E i \in Len(st) - k + 1 .. Len(st) : l \in st[i].rel.locs
  PROVE  StackOK(Append(SubSeq(st, 1, Len(st) - k), item), m)
<1> DEFINE kept == SubSeq(st, 1, Len(st) - k)
           new  == Append(kept, item)
           h    == Len(st) - k
<1>1. PICK S : st \in Seq(S)
  BY DEF StackOK
<1>2. Len(st) \in Nat /\ h \in 0 .. Len(st)
  BY <1>1
<1>3. \A i \in 1 .. Len(st) : st[i] \in S
  BY <1>1
<1>4. kept \in Seq(S) /\ Len(kept) = h /\ \A i \in 1 .. h : kept[i] = st[i]
  <2>1. \A i \in 1 .. h : i \in 1 .. Len(st)
    BY <1>2
  <2> QED BY <1>1, <1>2, <1>3, <2>1
<1> HIDE DEF kept
<1>5. new \in Seq(S \cup {item}) /\ Len(new) = h + 1 /\ new[h + 1] = item
      /\ \A i \in 1 .. h : new[i] = st[i]
  <2>1. kept \in Seq(S \cup {item})
    BY <1>4
  <2> QED BY <1>2, <1>4, <2>1, AppendProperties
<1> HIDE DEF new
<1>6. \A i \in 1 .. h + 1 : i \in 1 .. h \/ i = h + 1
  BY <1>2
<1>7. \A i \in 1 .. h : i \in 1 .. Len(st) /\ Good(st[i].rel, n) /\ Good(st[i].rel, m)
  <2>1. \A i \in 1 .. h : i \in 1 .. Len(st) /\ Good(st[i].rel, n)
    BY <1>2 DEF StackOK
  <2> QED BY <2>1, GoodLater
<1>8. \A i \in 1 .. h : st[i].rel.locs \cap item.rel.locs = {}
  <2> SUFFICES ASSUME NEW i \in 1 .. h, NEW l \in st[i].rel.locs, l \in item.rel.locs PROVE FALSE
    OBVIOUS
  <2>1. l \in 1 .. n
    BY <1>7 DEF Good, Ranged
  <2>2. PICK j \in h + 1 .. Len(st) : l \in st[j].rel.locs
    BY <2>1
  <2>3. i # j /\ i \in 1 .. Len(st) /\ j \in 1 .. Len(st)
    BY <1>2
  <2> QED BY <2>2, <2>3 DEF StackOK
<1>9. \A i, j \in 1 .. h : i # j => st[i].rel.locs \cap st[j].rel.locs = {}
  BY <1>7 DEF StackOK
<1>10. \A i \in 1 .. h + 1 : Good(new[i].rel, m)
  BY <1>5, <1>6, <1>7
<1>11. ASSUME NEW i \in 1 .. h + 1, NEW j \in 1 .. h + 1, i # j
       PROVE  new[i].rel.locs \cap new[j].rel.locs = {}
  <2>1. CASE i \in 1 .. h /\ j \in 1 .. h
    BY <1>5, <1>9, <1>11, <2>1
  <2>2. CASE i = h + 1 /\ j \in 1 .. h
    BY <1>5, <1>8, <2>2
  <2>3. CASE i \in 1 .. h /\ j = h + 1
    BY <1>5, <1>8, <2>3
  <2> QED BY <1>6, <1>11, <2>1, <2>2, <2>3
<1>12. Len(new) >= 1
  BY <1>2, <1>5
<1> HIDE DEF h
<1> QED BY <1>5, <1>10, <1>11, <1>12 DEF StackOK, new, kept, h

LEMMA OnStack ==
  ASSUME NEW n \in Nat, NEW m \in Nat, n <= m, NEW st, StackOK(st, n), NEW i \in 1 .. Len(st)
  PROVE  Good(st[i].rel, m) /\ st[i].rel.locs \subseteq 1 .. n
<1>1. Good(st[i].rel, n)
  BY DEF StackOK
<1> QED BY <1>1, GoodLater DEF Good, Ranged

LEMMA StatementOps ==
  /\ \A s \in Statements : Op("statement", s) \in Ops /\ Op("statement", s) # Epsilon
  /\ Signal \in Ops /\ Signal # Epsilon
  /\ Return \in Ops /\ Return # Epsilon
  /\ Yes \in Ops /\ Yes # Epsilon
  /\ No \in Ops /\ No # Epsilon
<1>1. Statements \subseteq Nat /\ 0 \in Nat /\ 1 \in Nat
  BY ControlFlowAssumption
<1>2. "statement" \in OpKinds /\ "signal" \in OpKinds /\ "return" \in OpKinds /\ "assume_cond" \in OpKinds
  BY DEF OpKinds
<1>3. Epsilon.kind = "epsilon" /\ \A kind, arg : Op(kind, arg).kind = kind
  BY DEF Epsilon, Op
<1>4. \A kind \in OpKinds, arg \in Nat : Op(kind, arg) \in Ops
  BY OpsFacts
<1>5. \A arg : /\ Op("statement", arg) # Epsilon /\ Op("signal", arg) # Epsilon
               /\ Op("return", arg) # Epsilon /\ Op("assume_cond", arg) # Epsilon
  BY <1>3
<1> QED BY <1>1, <1>2, <1>4, <1>5 DEF Signal, Return, Yes, No

(* A statement is appended to the list below its parts, the k - 1 topmost.    *)
LEMMA ExtendKeeps ==
  ASSUME NEW n \in Nat, NEW m \in Nat, n <= m, NEW st, StackOK(st, n), NEW k \in 1 .. Len(st),
         NEW rel, Good(rel, m), NEW mm,
         \A l \in rel.locs : \/ l > n
                             \/ \E i \in Len(st) + 2 - k .. Len(st) : l \in st[i].rel.locs
  PROVE  StackOK(Append(SubSeq(st, 1, Len(st) - k), Extended(st[Len(st) + 1 - k], rel, mm)), m)
<1> DEFINE h == Len(st) + 1 - k
           below == st[h].rel
           R == Concat(below, rel)
           item == Extended(st[h], rel, mm)
<1>1. Len(st) \in Nat
  BY DEF StackOK
<1>2. h \in 1 .. Len(st)
  BY <1>1
<1>3. Good(below, m) /\ below.locs \subseteq 1 .. n
  BY <1>2, OnStack
<1>4. below.locs \cap rel.locs = {}
  <2> SUFFICES ASSUME NEW l \in below.locs, l \in rel.locs PROVE FALSE
    OBVIOUS
  <2>1. l \in 1 .. n
    BY <1>3
  <2>2. PICK i \in Len(st) + 2 - k .. Len(st) : l \in st[i].rel.locs
    BY <2>1
  <2>3. i # h /\ i \in 1 .. Len(st)
    BY <1>1
  <2> QED BY <1>2, <2>2, <2>3 DEF StackOK
<1>5. item.rel = R
  BY DEF Extended, Item
<1> HIDE DEF below
<1>6. Good(R, m) /\ R.locs \subseteq below.locs \cup rel.locs
  BY <1>3, <1>4, ConcatGood
<1>7. ASSUME NEW l \in R.locs
      PROVE  l > n \/ \E i \in Len(st) - k + 1 .. Len(st) : l \in st[i].rel.locs
  <2>1. CASE l \in below.locs
    <3>1. h \in Len(st) - k + 1 .. Len(st)
      BY <1>1
    <3> HIDE DEF h
    <3> QED BY <2>1, <3>1 DEF below
  <2>2. CASE l \in rel.locs /\ ~(l > n)
    <3>1. PICK i \in Len(st) + 2 - k .. Len(st) : l \in st[i].rel.locs
      BY <2>2
    <3>2. i \in Len(st) - k + 1 .. Len(st)
      BY <1>1
    <3> QED BY <3>1, <3>2
  <2> QED BY <1>6, <1>7, <2>1, <2>2
<1> HIDE DEF R, item, h
<1>8. k \in 0 .. Len(st)
  BY <1>1
<1>9. Good(item.rel, m)
  BY <1>5, <1>6
<1> QED BY <1>5, <1>7, <1>8, <1>9, PushKeeps DEF h, item

LEMMA OpenListKeeps ==
  ASSUME next \in Nat, StackOK(stack, next), OpenList
  PROVE  next' \in Nat /\ StackOK(stack', next')
<1> DEFINE item == Item(Singleton(next + 1), MeansNothing)
<1>1. next + 1 \in 1 .. next + 1 /\ next + 1 \in Nat /\ next <= next + 1 /\ next + 1 > next
  OBVIOUS
<1>2. Good(Singleton(next + 1), next + 1) /\ Singleton(next + 1).locs = {next + 1}
  BY <1>1, SingletonGood
<1>3. item.rel = Singleton(next + 1)
  BY DEF Item
<1>4. stack' = Append(stack, item) /\ next' = next + 1
  BY DEF OpenList
<1> HIDE DEF item
<1>5. PICK S : stack \in Seq(S)
  BY DEF StackOK
<1>6. 0 \in 0 .. Len(stack) /\ Len(stack) - 0 = Len(stack)
  BY <1>5
<1>7. SubSeq(stack, 1, Len(stack)) = stack
  BY <1>5, SubSeqFull
<1>8. Good(item.rel, next + 1) /\ \A l \in item.rel.locs : l > next
  BY <1>1, <1>2, <1>3
<1>9. StackOK(Append(SubSeq(stack, 1, Len(stack) - 0), item), next + 1)
  BY <1>1, <1>6, <1>8, PushKeeps
<1> QED BY <1>1, <1>4, <1>6, <1>7, <1>9

LEMMA PlainKeeps ==
  ASSUME NEW n \in Nat, NEW st, StackOK(st, n), NEW op \in Ops, op # Epsilon, NEW mm
  PROVE  StackOK(Append(SubSeq(st, 1, Len(st) - 1),
                        Extended(st[Len(st) + 1 - 1], ForOp(n + 1, op, n + 2), mm)), n + 2)
<1>1. n + 1 \in 1 .. n + 2 /\ n + 2 \in 1 .. n + 2 /\ n + 2 \in Nat /\ n <= n + 2 /\ n + 1 > n /\ n + 2 > n
  OBVIOUS
<1> DEFINE r == ForOp(n + 1, op, n + 2)
<1>2. Good(r, n + 2) /\ r.locs = {n + 1, n + 2}
  BY <1>1, ForOpGood
<1> HIDE DEF r
<1>3. \A l \in r.locs : l > n
  BY <1>1, <1>2
<1>4. 1 \in 1 .. Len(st)
  BY DEF StackOK
<1>5. StackOK(Append(SubSeq(st, 1, Len(st) - 1), Extended(st[Len(st) + 1 - 1], r, mm)), n + 2)
  BY <1>1, <1>2, <1>3, <1>4, ExtendKeeps
<1> QED BY <1>5 DEF r

LEMMA StatementKeeps ==
  ASSUME next \in Nat, StackOK(stack, next), VisitStatement \/ VisitSignal
  PROVE  next' \in Nat /\ StackOK(stack', next')
<1>1. PICK op, mm : op \in Ops /\ op # Epsilon /\ Reduce(1, Extended(Top(1), ForOp(next + 1, op, next + 2), mm), 2)
  BY StatementOps DEF VisitStatement, VisitSignal
<1>2. stack' = Append(SubSeq(stack, 1, Len(stack) - 1),
                      Extended(stack[Len(stack) + 1 - 1], ForOp(next + 1, op, next + 2), mm))
      /\ next' = next + 2
  BY <1>1 DEF Reduce, Top
<1>3. StackOK(Append(SubSeq(stack, 1, Len(stack) - 1),
                     Extended(stack[Len(stack) + 1 - 1], ForOp(next + 1, op, next + 2), mm)), next + 2)
  BY <1>1, PlainKeeps, Zenon
<1>4. StackOK(stack', next')
  BY <1>2, <1>3, Zenon
<1> QED BY <1>2, <1>4

LEMMA GuardedGood ==
  ASSUME NEW n \in Nat, NEW m \in Nat, n <= m, NEW a \in n + 1 .. m, NEW b \in n + 1 .. m,
         NEW op \in Ops, op # Epsilon, NEW body, Good(body, m), body.locs \subseteq 1 .. n
  PROVE  /\ Good(Concat(ForOp(a, op, b), body), m)
         /\ EntryFirst(Concat(ForOp(a, op, b), body))
         /\ Concat(ForOp(a, op, b), body).locs \subseteq {a, b} \cup body.locs
<1>1. a \in 1 .. m /\ b \in 1 .. m /\ a \notin 1 .. n /\ b \notin 1 .. n
  OBVIOUS
<1> DEFINE r == ForOp(a, op, b)
<1>2. Good(r, m) /\ EntryFirst(r) /\ r.locs = {a, b}
  <2>1. a \in 1 .. m
    BY <1>1
  <2>2. b \in 1 .. m
    BY <1>1
  <2>3. op \in Ops
    OBVIOUS
  <2>4. op # Epsilon
    OBVIOUS
  <2> HIDE <1>1
  <2>5. /\ Good(ForOp(a, op, b), m) /\ EntryFirst(ForOp(a, op, b))
        /\ ForOp(a, op, b).locs = {a, b}
        /\ ForOp(a, op, b).entry = {a} /\ ForOp(a, op, b).exit = {b}
    BY <2>1, <2>2, <2>3, <2>4, ForOpGood
  <2> QED BY <2>5
<1> HIDE DEF r
<1>3. r.locs \cap body.locs = {}
  BY <1>1, <1>2
<1> QED BY <1>2, <1>3, ConcatGood DEF r

(* Two of the items on the stack. *)
LEMMA TwoOnStack ==
  ASSUME NEW n \in Nat, NEW m \in Nat, n <= m, NEW st, StackOK(st, n), Len(st) >= 3
  PROVE  /\ Len(st) \in Nat /\ 3 \in 1 .. Len(st)
         /\ Good(st[Len(st) + 1 - 2].rel, m) /\ st[Len(st) + 1 - 2].rel.locs \subseteq 1 .. n
         /\ Good(st[Len(st) + 1 - 1].rel, m) /\ st[Len(st) + 1 - 1].rel.locs \subseteq 1 .. n
         /\ st[Len(st) + 1 - 2].rel.locs \cap st[Len(st) + 1 - 1].rel.locs = {}
         /\ Len(st) + 1 - 2 \in Len(st) + 2 - 3 .. Len(st)
         /\ Len(st) + 1 - 1 \in Len(st) + 2 - 3 .. Len(st)
<1> DEFINE i == Len(st) + 1 - 2
           j == Len(st) + 1 - 1
<1>1. Len(st) \in Nat
  BY DEF StackOK
<1>2. i \in 1 .. Len(st) /\ j \in 1 .. Len(st) /\ i # j
      /\ i \in Len(st) + 2 - 3 .. Len(st) /\ j \in Len(st) + 2 - 3 .. Len(st) /\ 3 \in 1 .. Len(st)
  BY <1>1
<1> HIDE DEF i, j
<1>3. Good(st[i].rel, m) /\ st[i].rel.locs \subseteq 1 .. n
  BY <1>2, OnStack
<1>4. Good(st[j].rel, m) /\ st[j].rel.locs \subseteq 1 .. n
  BY <1>2, OnStack
<1>5. st[i].rel.locs \cap st[j].rel.locs = {}
  BY <1>2 DEF StackOK
<1> QED BY <1>1, <1>2, <1>3, <1>4, <1>5, Zenon DEF i, j

LEMMA IfKeeps ==
  ASSUME next \in Nat, StackOK(stack, next), VisitIf
  PROVE  next' \in Nat /\ StackOK(stack', next')
<1> DEFINE m    == next + 6
           i    == Len(stack) + 1 - 2
           j    == Len(stack) + 1 - 1
           yes  == Concat(ForOp(next + 1, Yes, next + 2), stack[i].rel)
           no   == Concat(ForOp(next + 3, No, next + 4), stack[j].rel)
           rel  == Branching(yes, no, next + 5, next + 6)
           mm   == Or(Then(MeansOp(Yes), Top(2).means), Then(MeansOp(No), Top(1).means))
<1>1. /\ m \in Nat /\ next <= m
      /\ next + 1 \in next + 1 .. m /\ next + 2 \in next + 1 .. m /\ next + 3 \in next + 1 .. m
      /\ next + 4 \in next + 1 .. m /\ next + 5 \in 1 .. m /\ next + 6 \in 1 .. m
      /\ next + 5 # next + 6 /\ next + 5 > next /\ next + 6 > next
  OBVIOUS
<1>2. Len(stack) >= 3
  BY DEF VisitIf
<1>3. /\ stack' = Append(SubSeq(stack, 1, Len(stack) - 3), Extended(stack[Len(stack) + 1 - 3], rel, mm))
      /\ next' = m
  BY DEF VisitIf, Reduce, Top
<1>4. /\ Len(stack) \in Nat /\ 3 \in 1 .. Len(stack)
      /\ Good(stack[i].rel, m) /\ stack[i].rel.locs \subseteq 1 .. next
      /\ Good(stack[j].rel, m) /\ stack[j].rel.locs \subseteq 1 .. next
      /\ stack[i].rel.locs \cap stack[j].rel.locs = {}
      /\ i \in Len(stack) + 2 - 3 .. Len(stack) /\ j \in Len(stack) + 2 - 3 .. Len(stack)
  <2> HIDE DEF m
  <2> QED BY <1>1, <1>2, TwoOnStack, Zenon
<1> HIDE DEF i, j, mm
<1>5. Good(yes, m) /\ EntryFirst(yes) /\ yes.locs \subseteq {next + 1, next + 2} \cup stack[i].rel.locs
  <2> HIDE DEF m
  <2> QED BY <1>1, <1>4, StatementOps, GuardedGood
<1>6. Good(no, m) /\ EntryFirst(no) /\ no.locs \subseteq {next + 3, next + 4} \cup stack[j].rel.locs
  <2> HIDE DEF m
  <2> QED BY <1>1, <1>4, StatementOps, GuardedGood
<1> HIDE DEF yes, no
<1>7. yes.locs \cap no.locs = {} /\ next + 5 \notin yes.locs \cup no.locs
      /\ next + 6 \notin yes.locs \cup no.locs
  <2>1. \A l \in yes.locs : l = next + 1 \/ l = next + 2 \/ (l \in stack[i].rel.locs /\ l \in 1 .. next)
    BY <1>4, <1>5
  <2>2. \A l \in no.locs : l = next + 3 \/ l = next + 4 \/ (l \in stack[j].rel.locs /\ l \in 1 .. next)
    BY <1>4, <1>6
  <2>3. ASSUME NEW l \in yes.locs, l \in no.locs PROVE FALSE
    <3>1. l \notin {next + 3, next + 4} => l \in stack[j].rel.locs /\ l \in 1 .. next
      BY <2>2, <2>3
    <3>2. l \notin {next + 1, next + 2} => l \in stack[i].rel.locs /\ l \in 1 .. next
      BY <2>1
    <3>3. l \in stack[i].rel.locs => l \notin stack[j].rel.locs
      BY <1>4
    <3> QED BY <3>1, <3>2, <3>3
  <2>4. \A l \in yes.locs : l # next + 5 /\ l # next + 6
    BY <2>1
  <2>5. \A l \in no.locs : l # next + 5 /\ l # next + 6
    BY <2>2
  <2> QED BY <2>3, <2>4, <2>5, Zenon
<1>8. Good(rel, m) /\ rel.locs \subseteq yes.locs \cup no.locs \cup {next + 5, next + 6}
  <2> HIDE DEF m
  <2> QED BY <1>1, <1>5, <1>6, <1>7, BranchingGood
<1> HIDE DEF rel
<1>9. \A l \in rel.locs : l > next \/ \E h \in Len(stack) + 2 - 3 .. Len(stack) : l \in stack[h].rel.locs
  <2>1. \A l \in rel.locs : l > next \/ l \in stack[i].rel.locs \/ l \in stack[j].rel.locs
    BY <1>1, <1>5, <1>6, <1>8
  <2> QED BY <1>4, <2>1
<1> HIDE DEF m
<1>10. StackOK(Append(SubSeq(stack, 1, Len(stack) - 3), Extended(stack[Len(stack) + 1 - 3], rel, mm)), m)
  BY <1>1, <1>4, <1>8, <1>9, ExtendKeeps, Zenon
<1> QED BY <1>1, <1>3, <1>10, Zenon

LEMMA ForeverKeeps ==
  ASSUME next \in Nat, StackOK(stack, next), VisitForever
  PROVE  next' \in Nat /\ StackOK(stack', next')
<1> DEFINE j    == Len(stack) + 1 - 1
           rel  == RepeatForever(stack[j].rel)
           mm   == [Then(Repeated(Top(1).means), Top(1).means) EXCEPT !.ends = {}]
<1>1. Len(stack) >= 2 /\ Len(stack) \in Nat
  BY DEF VisitForever, StackOK
<1>2. /\ stack' = Append(SubSeq(stack, 1, Len(stack) - 2), Extended(stack[Len(stack) + 1 - 2], rel, mm))
      /\ next' = next + 0
  BY DEF VisitForever, Reduce, Top
<1>3. j \in 1 .. Len(stack) /\ j \in Len(stack) + 2 - 2 .. Len(stack) /\ 2 \in 1 .. Len(stack)
      /\ next <= next /\ next + 0 = next
  BY <1>1
<1> HIDE DEF j, mm
<1>4. Good(stack[j].rel, next)
  BY <1>3, OnStack
<1>5. Good(rel, next) /\ rel.locs \subseteq stack[j].rel.locs
  BY <1>4, RepeatForeverGood
<1> HIDE DEF rel
<1>6. \A l \in rel.locs : l > next \/ \E h \in Len(stack) + 2 - 2 .. Len(stack) : l \in stack[h].rel.locs
  BY <1>3, <1>5
<1>7. StackOK(Append(SubSeq(stack, 1, Len(stack) - 2), Extended(stack[Len(stack) + 1 - 2], rel, mm)), next)
  BY <1>3, <1>5, <1>6, ExtendKeeps, Zenon
<1> QED BY <1>2, <1>3, <1>7, Zenon

LEMMA UntilKeeps ==
  ASSUME next \in Nat, StackOK(stack, next), VisitUntil
  PROVE  next' \in Nat /\ StackOK(stack', next')
<1> DEFINE m       == next + 6
           i       == Len(stack) + 1 - 2
           j       == Len(stack) + 1 - 1
           query   == stack[i].rel
           guarded == Concat(ForOp(next + 1, No, next + 2), stack[j].rel)
           leave   == ForOp(next + 3, Yes, next + 4)
           rel     == Until(query, guarded, leave, next + 5, next + 6)
           round   == Then(Top(2).means, Then(MeansOp(No), Top(1).means))
           last    == Then(Top(2).means, MeansOp(Yes))
           mm      == Then(Repeated(round), [Or(round, last) EXCEPT !.ends = last.ends])
<1>1. /\ m \in Nat /\ next <= m
      /\ next + 1 \in next + 1 .. m /\ next + 2 \in next + 1 .. m /\ next + 3 \in 1 .. m
      /\ next + 4 \in 1 .. m /\ next + 5 \in 1 .. m /\ next + 6 \in 1 .. m
      /\ next + 5 # next + 6 /\ next + 5 > next /\ next + 6 > next
  OBVIOUS
<1>2. Len(stack) >= 3
  BY DEF VisitUntil
<1>3. /\ stack' = Append(SubSeq(stack, 1, Len(stack) - 3), Extended(stack[Len(stack) + 1 - 3], rel, mm))
      /\ next' = m
  BY DEF VisitUntil, Reduce, Top
<1>4. /\ Len(stack) \in Nat /\ 3 \in 1 .. Len(stack)
      /\ Good(stack[i].rel, m) /\ stack[i].rel.locs \subseteq 1 .. next
      /\ Good(stack[j].rel, m) /\ stack[j].rel.locs \subseteq 1 .. next
      /\ stack[i].rel.locs \cap stack[j].rel.locs = {}
      /\ i \in Len(stack) + 2 - 3 .. Len(stack) /\ j \in Len(stack) + 2 - 3 .. Len(stack)
  <2> HIDE DEF m
  <2> QED BY <1>1, <1>2, TwoOnStack, Zenon
<1> HIDE DEF i, j, mm
<1>5. Good(guarded, m) /\ EntryFirst(guarded)
      /\ guarded.locs \subseteq {next + 1, next + 2} \cup stack[j].rel.locs
  <2> HIDE DEF m
  <2> QED BY <1>1, <1>4, StatementOps, GuardedGood
<1>6. Good(leave, m) /\ EntryFirst(leave) /\ leave.locs = {next + 3, next + 4} /\ leave.exit # {}
  <2>1. next + 3 \in 1 .. m /\ next + 4 \in 1 .. m /\ m \in Nat
    BY <1>1
  <2>2. Yes \in Ops /\ Yes # Epsilon
    BY StatementOps
  <2> HIDE DEF m
  <2>3. /\ Good(ForOp(next + 3, Yes, next + 4), m) /\ EntryFirst(ForOp(next + 3, Yes, next + 4))
        /\ ForOp(next + 3, Yes, next + 4).locs = {next + 3, next + 4}
        /\ ForOp(next + 3, Yes, next + 4).entry = {next + 3}
        /\ ForOp(next + 3, Yes, next + 4).exit = {next + 4}
    BY <2>1, <2>2, ForOpGood
  <2> QED BY <2>3
<1> HIDE DEF guarded, leave
<1>7. /\ query.locs \cap guarded.locs = {} /\ query.locs \cap leave.locs = {}
      /\ guarded.locs \cap leave.locs = {}
      /\ next + 5 \notin query.locs \cup guarded.locs \cup leave.locs
      /\ next + 6 \notin query.locs \cup guarded.locs \cup leave.locs
  <2>1. \A l \in query.locs : l \in stack[i].rel.locs /\ l \in 1 .. next
    BY <1>4
  <2>2. \A l \in guarded.locs : l = next + 1 \/ l = next + 2 \/ (l \in stack[j].rel.locs /\ l \in 1 .. next)
    BY <1>4, <1>5
  <2>3. stack[i].rel.locs \cap stack[j].rel.locs = {}
    BY <1>4
  <2> HIDE DEF query
  <2>4. ASSUME NEW l \in query.locs, l \in guarded.locs PROVE FALSE
    <3>1. l \in stack[i].rel.locs /\ l \in 1 .. next
      BY <2>1
    <3>2. l \notin stack[j].rel.locs
      BY <2>3, <3>1
    <3> QED BY <2>2, <2>4, <3>1, <3>2
  <2>5. \A l \in query.locs : l \notin {next + 3, next + 4, next + 5, next + 6}
    BY <2>1
  <2>6. \A l \in guarded.locs : l \notin {next + 3, next + 4, next + 5, next + 6}
    BY <2>2
  <2>7. next + 5 \notin leave.locs /\ next + 6 \notin leave.locs
    BY <1>6
  <2>8. \A l \in leave.locs : l \in {next + 3, next + 4, next + 5, next + 6}
    BY <1>6
  <2>9. next + 5 \in {next + 3, next + 4, next + 5, next + 6} /\ next + 6 \in {next + 3, next + 4, next + 5, next + 6}
    OBVIOUS
  <2> QED BY <2>4, <2>5, <2>6, <2>7, <2>8, <2>9, Zenon
<1>8. Good(rel, m) /\ rel.locs \subseteq query.locs \cup guarded.locs \cup leave.locs \cup {next + 5, next + 6}
  <2>1. Good(query, m)
    BY <1>4
  <2> HIDE DEF m, query
  <2> QED BY <1>1, <1>5, <1>6, <1>7, <2>1, UntilGood
<1> HIDE DEF rel
<1>9. \A l \in rel.locs : l > next \/ \E h \in Len(stack) + 2 - 3 .. Len(stack) : l \in stack[h].rel.locs
  <2>1. \A l \in rel.locs : l > next \/ l \in stack[i].rel.locs \/ l \in stack[j].rel.locs
    BY <1>1, <1>5, <1>6, <1>8
  <2> QED BY <1>4, <2>1
<1> HIDE DEF m
<1>10. StackOK(Append(SubSeq(stack, 1, Len(stack) - 3), Extended(stack[Len(stack) + 1 - 3], rel, mm)), m)
  BY <1>1, <1>4, <1>8, <1>9, ExtendKeeps, Zenon
<1> QED BY <1>1, <1>3, <1>10, Zenon

-----------------------------------------------------------------------------
(* The steps of establishAnalysisInvariants. *)

LEMMA TargetPrefixGood ==
  ASSUME NEW m \in Nat, NEW p, p[1] \in 1 .. m, p[2] \in 1 .. m, p[3] \in 1 .. m
  PROVE  /\ Good(TargetPrefix(p), m)
         /\ TargetPrefix(p).locs = {p[1], p[2], p[3]}
<1> DEFINE r  == TargetPrefix(p)
           t1 == Trans(p[1], Epsilon, p[1])
           t2 == Trans(p[1], Op("declare", 0), p[2])
           t3 == Trans(p[2], Op("assign", 0), p[3])
           ts == {t1, t2, t3}
<1>1. r = Built(ts, {p[1]}, {p[3]})
  BY DEF TargetPrefix
<1>2. r.trans = ts /\ r.entry = {p[1]} /\ r.exit = {p[3]}
      /\ r.locs = {t.from : t \in ts} \cup {t.to : t \in ts} \cup {p[1]} \cup {p[3]}
  BY <1>1 DEF Built
<1>3. t1.from = p[1] /\ t1.to = p[1] /\ t2.from = p[1] /\ t2.to = p[2] /\ t3.from = p[2] /\ t3.to = p[3]
  BY TransFields
<1>4. Op("declare", 0) \in Ops /\ Op("assign", 0) \in Ops
  <2>1. "declare" \in OpKinds /\ "assign" \in OpKinds /\ 0 \in Nat
    BY DEF OpKinds
  <2> QED BY <2>1, OpsFacts
<1>5. Op("declare", 0) # Epsilon /\ Op("assign", 0) # Epsilon
  BY DEF Op, Epsilon
<1>6. IsFiniteSet(ts)
  <2>1. IsFiniteSet({t1}) /\ IsFiniteSet({t2}) /\ IsFiniteSet({t3})
    BY FS_Singleton
  <2> HIDE DEF t1, t2, t3
  <2>2. IsFiniteSet({t1} \cup {t2} \cup {t3})
    BY <2>1, FiniteUnions
  <2>3. ts = {t1} \cup {t2} \cup {t3}
    OBVIOUS
  <2> HIDE DEF ts
  <2> QED BY <2>2, <2>3
<1>7. ts \subseteq [from : 1 .. m, op : Ops, to : 1 .. m]
  <2>1. t1 \in [from : 1 .. m, op : Ops, to : 1 .. m]
    BY OpsFacts, TransTyped
  <2>2. t2 \in [from : 1 .. m, op : Ops, to : 1 .. m]
    BY <1>4, TransTyped
  <2>3. t3 \in [from : 1 .. m, op : Ops, to : 1 .. m]
    BY <1>4, TransTyped
  <2> HIDE DEF t1, t2, t3
  <2> QED BY <2>1, <2>2, <2>3
<1>8. \A l, k : ~Joins(r, l, k)
  <2>1. \A l, k : /\ Trans(l, Epsilon, k) = t1 => l = k
                  /\ Trans(l, Epsilon, k) # t2
                  /\ Trans(l, Epsilon, k) # t3
    BY <1>5, TransEqual
  <2> HIDE DEF t1, t2, t3, r
  <2> QED BY <1>2, <2>1 DEF Joins
<1>9. r.locs = {p[1], p[2], p[3]}
  <2> HIDE DEF t1, t2, t3, r
  <2> QED BY <1>2, <1>3
<1>10. Ranged(r, m)
  <2> HIDE DEF ts, r
  <2>1. {p[1]} \subseteq 1 .. m /\ {p[3]} \subseteq 1 .. m
    OBVIOUS
  <2> QED BY <1>1, <1>6, <1>7, <2>1, BuiltRanged
<1> HIDE DEF r, ts
<1> QED BY <1>2, <1>8, <1>9, <1>10 DEF Good, Composable, NoZigzag, r

LEMMA CommonTargetRanged ==
  ASSUME NEW n \in Nat, NEW m \in Nat, n <= m, NEW r, Good(r, n), NEW p, NEW c, NEW at, NEW end,
         p[1] \in n + 1 .. m, p[2] \in n + 1 .. m, p[3] \in n + 1 .. m,
         c[1] \in 1 .. m, c[2] \in 1 .. m,
         \A t \in Signals(r) : at[t] \in 1 .. m /\ end[t] \in 1 .. m
  PROVE  Ranged(CommonTarget(r, p, c, at, end), m) /\ NoZigzag(CommonTarget(r, p, c, at, end))
<1> DEFINE R == CommonTarget(r, p, c, at, end)
           W == Concat(TargetPrefix(p), r)
           S == Signals(r)
           T == [from : 1 .. m, op : Ops, to : 1 .. m]
           s1 == {Trans(c[1], Op("check", 0), c[2])}
           s2 == {Trans(t.from, Op("assign", t.from), c[1]) : t \in S}
           s3 == {Trans(c[2], Op("assume", t.from), at[t]) : t \in S}
           s4 == {Trans(at[t], t.op, end[t]) : t \in S}
           ls == {c[1], c[2]} \cup {at[t] : t \in S} \cup {end[t] : t \in S}
<1>1. Good(W, m)
  <2>1. p[1] \in 1 .. m /\ p[2] \in 1 .. m /\ p[3] \in 1 .. m
        /\ p[1] \notin 1 .. n /\ p[2] \notin 1 .. n /\ p[3] \notin 1 .. n
    OBVIOUS
  <2> DEFINE prefix == TargetPrefix(p)
  <2>2. Good(prefix, m) /\ prefix.locs = {p[1], p[2], p[3]}
    BY <2>1, TargetPrefixGood
  <2> HIDE DEF prefix
  <2>3. Good(r, m) /\ r.locs \subseteq 1 .. n
    BY GoodLater DEF Good, Ranged
  <2>4. prefix.locs \cap r.locs = {}
    BY <2>1, <2>2, <2>3
  <2>5. Good(Concat(prefix, r), m)
    BY <2>2, <2>3, <2>4, ConcatGood
  <2> QED BY <2>5 DEF prefix
<1>2. /\ DOMAIN W = {"trans", "locs", "entry", "exit"}
      /\ W.locs \subseteq 1 .. m /\ W.entry \subseteq W.locs /\ W.exit \subseteq W.locs
      /\ W.trans \subseteq [from : W.locs, op : Ops, to : W.locs] /\ IsFiniteSet(W.trans)
  BY <1>1 DEF Good, Ranged, Typed
<1> HIDE DEF W, s1, s2, s3, s4, ls
<1>3. /\ DOMAIN R = {"trans", "locs", "entry", "exit"}
      /\ R.trans = (W.trans \ S) \cup s1 \cup s2 \cup s3 \cup s4
      /\ R.locs = W.locs \cup ls /\ R.entry = W.entry /\ R.exit = W.exit
  <2>1. R = [W EXCEPT !.trans = (@ \ S) \cup s1 \cup s2 \cup s3 \cup s4,
                      !.locs  = @ \cup {c[1], c[2]} \cup {at[t] : t \in S} \cup {end[t] : t \in S}]
    BY Zenon DEF CommonTarget, W, s1, s2, s3, s4
  <2>2. R.locs = W.locs \cup {c[1], c[2]} \cup {at[t] : t \in S} \cup {end[t] : t \in S}
    BY <1>2, <2>1
  <2>3. DOMAIN R = {"trans", "locs", "entry", "exit"} /\ R.entry = W.entry /\ R.exit = W.exit
        /\ R.trans = (W.trans \ S) \cup s1 \cup s2 \cup s3 \cup s4
    BY <1>2, <2>1
  <2> HIDE DEF R, S
  <2>4. R.locs = W.locs \cup ls
    BY <2>2 DEF ls
  <2> QED BY <2>3, <2>4
<1>4. S \subseteq r.trans /\ IsFiniteSet(S)
      /\ \A t \in S : /\ t.op.kind = "signal" /\ t.from \in 1 .. n /\ t.op \in Ops
                      /\ at[t] \in 1 .. m /\ end[t] \in 1 .. m
  <2>1. S \subseteq r.trans /\ \A t \in S : t.op.kind = "signal"
    BY DEF Signals
  <2>2. IsFiniteSet(r.trans) /\ r.locs \subseteq 1 .. n
    BY DEF Good, Ranged
  <2>3. \A t \in r.trans : t.from \in r.locs /\ t.op \in Ops
    BY RangedFacts DEF Good
  <2> HIDE DEF S
  <2>4. IsFiniteSet(S)
    BY <2>1, <2>2, FS_Subset
  <2> QED BY <2>1, <2>2, <2>3, <2>4 DEF S
<1>5. \A arg \in Nat : /\ Op("check", arg) \in Ops /\ Op("check", arg) # Epsilon
                       /\ Op("assign", arg) \in Ops /\ Op("assign", arg) # Epsilon
                       /\ Op("assume", arg) \in Ops /\ Op("assume", arg) # Epsilon
  <2>1. "check" \in OpKinds /\ "assign" \in OpKinds /\ "assume" \in OpKinds
    BY DEF OpKinds
  <2>2. \A arg : /\ Op("check", arg) # Epsilon /\ Op("assign", arg) # Epsilon
                 /\ Op("assume", arg) # Epsilon
    BY DEF Op, Epsilon
  <2> QED BY <2>1, <2>2, OpsFacts
<1>6. \A op : op.kind = "signal" => op # Epsilon
  BY DEF Op, Epsilon
<1>7. 0 \in Nat /\ \A l \in 1 .. n : l \in Nat /\ l \in 1 .. m
  OBVIOUS
<1> HIDE DEF S
(* What is new is no epsilon transition. *)
<1>8. ASSUME NEW t \in s1 PROVE t.from \in ls /\ t.to \in ls /\ t.op \in Ops /\ t.op # Epsilon
                              /\ t = [from |-> t.from, op |-> t.op, to |-> t.to]
  BY <1>5, <1>7, TransFields DEF s1, ls, Trans
<1>9. ASSUME NEW t \in s2 PROVE t.from \in W.locs \cup ls /\ t.to \in ls /\ t.op \in Ops /\ t.op # Epsilon
                              /\ t = [from |-> t.from, op |-> t.op, to |-> t.to]
  <2>1. PICK u \in S : t = Trans(u.from, Op("assign", u.from), c[1])
    BY DEF s2
  <2>2. u \in r.trans /\ u.from \in Nat
    BY <1>4, <1>7
  <2>3. u.from \in W.locs
    <3>1. u.from \in r.locs
      BY <2>2, RangedFacts DEF Good
    <3>2. r.locs \subseteq W.locs
      <4>1. TargetPrefix(p).exit # {}
        BY DEF TargetPrefix, Built
      <4>2. W.locs = TargetPrefix(p).locs \cup r.locs
        BY <4>1 DEF Concat, W
      <4> QED BY <4>2
    <3> QED BY <3>1, <3>2
  <2> QED BY <1>5, <2>1, <2>2, <2>3, TransFields DEF ls, Trans
<1>10. ASSUME NEW t \in s3 PROVE t.from \in ls /\ t.to \in ls /\ t.op \in Ops /\ t.op # Epsilon
                               /\ t = [from |-> t.from, op |-> t.op, to |-> t.to]
  <2>1. PICK u \in S : t = Trans(c[2], Op("assume", u.from), at[u])
    BY DEF s3
  <2>2. u.from \in Nat
    BY <1>4, <1>7
  <2> QED BY <1>5, <2>1, <2>2, TransFields DEF ls, Trans
<1>11. ASSUME NEW t \in s4 PROVE t.from \in ls /\ t.to \in ls /\ t.op \in Ops /\ t.op # Epsilon
                               /\ t = [from |-> t.from, op |-> t.op, to |-> t.to]
  <2>1. PICK u \in S : t = Trans(at[u], u.op, end[u])
    BY DEF s4
  <2>2. u.op \in Ops /\ u.op # Epsilon
    BY <1>4, <1>6
  <2> QED BY <2>1, <2>2, TransFields DEF ls, Trans
<1>12. ls \subseteq 1 .. m
  BY <1>4 DEF ls
<1>13. IsFiniteSet(R.trans)
  <2>1. IsFiniteSet(s1)
    BY FS_Singleton DEF s1
  <2>2. IsFiniteSet(s2)
    <3> DEFINE f == [t \in S |-> Trans(t.from, Op("assign", t.from), c[1])]
    <3>1. DOMAIN f = S /\ s2 = {f[t] : t \in S}
      BY DEF s2
    <3> HIDE DEF f
    <3> QED BY <1>4, <3>1, FiniteImage
  <2>3. IsFiniteSet(s3)
    <3> DEFINE f == [t \in S |-> Trans(c[2], Op("assume", t.from), at[t])]
    <3>1. DOMAIN f = S /\ s3 = {f[t] : t \in S}
      BY DEF s3
    <3> HIDE DEF f
    <3> QED BY <1>4, <3>1, FiniteImage
  <2>4. IsFiniteSet(s4)
    <3> DEFINE f == [t \in S |-> Trans(at[t], t.op, end[t])]
    <3>1. DOMAIN f = S /\ s4 = {f[t] : t \in S}
      BY DEF s4
    <3> HIDE DEF f
    <3> QED BY <1>4, <3>1, FiniteImage
  <2>5. IsFiniteSet(W.trans \ S)
    BY <1>2, FS_Subset
  <2>6. IsFiniteSet((W.trans \ S) \cup s1 \cup s2)
    BY <2>1, <2>2, <2>5, FiniteUnions
  <2>7. IsFiniteSet(((W.trans \ S) \cup s1 \cup s2) \cup s3 \cup s4)
    BY <2>3, <2>4, <2>6, FiniteUnions
  <2> HIDE DEF R
  <2> QED BY <1>3, <2>7
<1> HIDE DEF R
<1>14. R.trans \subseteq [from : R.locs, op : Ops, to : R.locs]
  <2> SUFFICES ASSUME NEW t \in R.trans PROVE t \in [from : R.locs, op : Ops, to : R.locs]
    OBVIOUS
  <2>1. CASE t \in W.trans
    BY <1>2, <1>3, <2>1
  <2>2. CASE t \in s1 \cup s2 \cup s3 \cup s4
    <3>1. t.from \in R.locs /\ t.to \in R.locs /\ t.op \in Ops /\ t = [from |-> t.from, op |-> t.op, to |-> t.to]
      BY <1>3, <1>8, <1>9, <1>10, <1>11, <2>2
    <3> QED BY <3>1
  <2> QED BY <1>3, <2>1, <2>2
<1>15. Ranged(R, m)
  <2>1. R.locs \subseteq 1 .. m /\ R.entry \subseteq R.locs /\ R.exit \subseteq R.locs
    BY <1>2, <1>3, <1>12
  <2> QED BY <1>3, <1>13, <1>14, <2>1, OpsFacts DEF Ranged, Typed
<1>16. \A l, k : Joins(R, l, k) <=> Joins(W, l, k)
  <2>1. \A l, k : Trans(l, Epsilon, k).op = Epsilon
    BY TransFields
  <2>2. \A t \in s1 \cup s2 \cup s3 \cup s4 \cup S : t.op # Epsilon
    BY <1>4, <1>6, <1>8, <1>9, <1>10, <1>11
  <2> QED BY <1>3, <2>1, <2>2 DEF Joins
<1>17. NoZigzag(R)
  BY <1>1, <1>3, <1>16 DEF Good, Composable, NoZigzag
<1> QED BY <1>15, <1>17 DEF R

LEMMA RebuiltRanged ==
  ASSUME NEW n \in Nat, NEW r, Ranged(r, n), NEW id, \A l \in r.locs : id[l] \in r.locs
  PROVE  Ranged(Rebuilt(r, id), n) /\ NoZigzag(Rebuilt(r, id))
<1> DEFINE R  == Rebuilt(r, id)
           U  == {u \in r.trans : u.op # Epsilon}
           ts == {Trans(id[t.from], t.op, id[t.to]) : t \in U}
           en == {id[l] : l \in r.entry}
           ex == {id[l] : l \in r.exit}
<1>1. R = Built(ts, en, ex) /\ R.trans = ts
  BY DEF Rebuilt, Built
<1>2. /\ r.locs \subseteq 1 .. n /\ r.entry \subseteq r.locs /\ r.exit \subseteq r.locs
      /\ IsFiniteSet(r.trans)
      /\ \A t \in r.trans : t.from \in r.locs /\ t.to \in r.locs /\ t.op \in Ops
  BY RangedFacts DEF Ranged
<1>3. IsFiniteSet(U) /\ \A t \in U : t \in r.trans /\ t.op # Epsilon
  BY <1>2, FS_Subset
<1> HIDE DEF U
<1>4. IsFiniteSet(ts)
  <2> DEFINE f == [t \in U |-> Trans(id[t.from], t.op, id[t.to])]
  <2>1. DOMAIN f = U /\ ts = {f[t] : t \in U}
    OBVIOUS
  <2> HIDE DEF f, ts
  <2> QED BY <1>3, <2>1, FiniteImage
<1>5. ASSUME NEW t \in ts PROVE t \in [from : 1 .. n, op : Ops, to : 1 .. n] /\ t.op # Epsilon
  <2>1. PICK u \in U : t = Trans(id[u.from], u.op, id[u.to])
    OBVIOUS
  <2>2. id[u.from] \in 1 .. n /\ id[u.to] \in 1 .. n /\ u.op \in Ops /\ u.op # Epsilon
    BY <1>2, <1>3
  <2> QED BY <2>1, <2>2, TransTyped, TransFields
<1>6. en \subseteq 1 .. n /\ ex \subseteq 1 .. n
  BY <1>2
<1> HIDE DEF ts, en, ex, R
<1>7. ts \subseteq [from : 1 .. n, op : Ops, to : 1 .. n]
  BY <1>5
<1>8. Ranged(R, n)
  BY <1>1, <1>4, <1>6, <1>7, BuiltRanged
<1>9. \A l, k : ~Joins(R, l, k)
  <2>1. \A l, k : Trans(l, Epsilon, k).op = Epsilon
    BY TransFields
  <2> QED BY <1>1, <1>5, <2>1 DEF Joins
<1> QED BY <1>8, <1>9 DEF NoZigzag, R

(* There is one entry, and no transition leads to it. *)
EntryOnly(r) == \A l, k \in r.entry : Into(r, l) = {} /\ l = k

LEMMA EntryExitRanged ==
  ASSUME NEW n \in Nat, NEW m \in Nat, n < m, NEW r, Ranged(r, n), NEW new,
         \A l \in ReplacedExits(r) : new[l] \in n + 2 .. m
  PROVE  /\ Ranged(IntroduceEntryExit(r, n + 1, new), m)
         /\ EntryOnly(IntroduceEntryExit(r, n + 1, new))
<1> DEFINE R  == IntroduceEntryExit(r, n + 1, new)
           S  == ReplacedExits(r)
           c1 == Connections({n + 1}, r.entry, IrreducibleEpsilon)
           c2 == {Trans(l, IrreducibleEpsilon, new[l]) : l \in S}
           ls == {new[l] : l \in S}
<1>1. /\ R.trans = r.trans \cup c1 \cup c2 /\ R.locs = r.locs \cup {n + 1} \cup ls
      /\ R.entry = {n + 1} /\ R.exit = (r.exit \ S) \cup ls
      /\ DOMAIN R = {"trans", "locs", "entry", "exit"}
  BY DEF IntroduceEntryExit
<1>2. /\ r.locs \subseteq 1 .. n /\ r.entry \subseteq r.locs /\ r.exit \subseteq r.locs
      /\ IsFiniteSet(r.trans) /\ IsFiniteSet(r.entry) /\ IsFiniteSet(r.exit)
      /\ r.trans \subseteq [from : r.locs, op : Ops, to : r.locs]
  BY RangedFacts DEF Ranged, Typed
<1>3. S \subseteq r.exit /\ IsFiniteSet(S)
  <2>1. S \subseteq r.exit
    BY DEF ReplacedExits
  <2> HIDE DEF S
  <2> QED BY <1>2, <2>1, FS_Subset
<1> HIDE DEF R, S
<1>4. ls \subseteq n + 2 .. m
  BY DEF S
<1>5. IsFiniteSet(c1)
  BY <1>2, FS_Singleton, FiniteConnections
<1>6. IsFiniteSet(c2)
  <2> DEFINE f == [l \in S |-> Trans(l, IrreducibleEpsilon, new[l])]
  <2>1. DOMAIN f = S /\ c2 = {f[t] : t \in S}
    OBVIOUS
  <2> HIDE DEF f, c2
  <2> QED BY <1>3, <2>1, FiniteImage
<1>7. ASSUME NEW t \in c1 PROVE t.to \in r.entry /\ t \in [from : R.locs, op : Ops, to : R.locs]
  <2>1. n + 1 \in R.locs /\ r.entry \subseteq R.locs
    BY <1>1, <1>2
  <2>2. {n + 1} \in SUBSET R.locs /\ r.entry \in SUBSET R.locs /\ IrreducibleEpsilon \in Ops
    BY <2>1, OpsFacts
  <2>3. c1 \subseteq [from : R.locs, op : Ops, to : R.locs]
    BY <2>2, ConnectionsTyped, Zenon
  <2>4. t.to \in r.entry
    BY ConnectionsEnds
  <2> QED BY <2>3, <2>4
<1>8. ASSUME NEW t \in c2 PROVE t.to \in ls /\ t \in [from : R.locs, op : Ops, to : R.locs]
  <2>1. PICK l \in S : t = Trans(l, IrreducibleEpsilon, new[l])
    OBVIOUS
  <2>2. l \in R.locs /\ new[l] \in R.locs /\ IrreducibleEpsilon \in Ops
    BY <1>1, <1>2, <1>3, OpsFacts
  <2>3. t.to = new[l]
    BY <2>1, TransFields
  <2> HIDE DEF c2
  <2> QED BY <2>1, <2>2, <2>3, TransTyped
<1> HIDE DEF c1, c2, ls
<1>9. R.trans \subseteq [from : R.locs, op : Ops, to : R.locs]
  <2> SUFFICES ASSUME NEW t \in R.trans PROVE t \in [from : R.locs, op : Ops, to : R.locs]
    OBVIOUS
  <2>1. CASE t \in r.trans
    BY <1>1, <1>2, <2>1
  <2> QED BY <1>1, <1>7, <1>8, <2>1
<1>10. Ranged(R, m)
  <2>1. IsFiniteSet(R.trans)
    BY <1>1, <1>2, <1>5, <1>6, FiniteUnions
  <2>2. R.locs \subseteq 1 .. m
    <3>1. 1 .. n \subseteq 1 .. m /\ n + 2 .. m \subseteq 1 .. m /\ n + 1 \in 1 .. m
      OBVIOUS
    <3>2. r.locs \subseteq 1 .. m /\ ls \subseteq 1 .. m
      BY <1>2, <1>4, <3>1
    <3> QED BY <1>1, <3>1, <3>2
  <2>3. R.entry \subseteq R.locs /\ R.exit \subseteq R.locs
    BY <1>1, <1>2
  <2> QED BY <1>1, <1>9, <2>1, <2>2, <2>3, OpsFacts DEF Ranged, Typed
<1>11. EntryOnly(R)
  <2> SUFFICES ASSUME NEW t \in R.trans, t.to = n + 1 PROVE FALSE
    BY <1>1 DEF EntryOnly, Into
  <2>1. n + 1 \notin r.locs /\ n + 1 \notin ls
    BY <1>2, <1>4
  <2>2. CASE t \in r.trans
    BY <1>2, <2>1, <2>2
  <2>3. CASE t \in c1
    BY <1>2, <1>7, <2>1, <2>3
  <2>4. CASE t \in c2
    BY <1>8, <2>1, <2>4
  <2> QED BY <1>1, <2>2, <2>3, <2>4
<1> QED BY <1>10, <1>11 DEF R

LEMMA ToMergeRanged ==
  ASSUME NEW n \in Nat, NEW m \in Nat, n <= m, NEW r, Ranged(r, n), EntryOnly(r), NEW mid,
         \A t \in Direct(r) : mid[t] \in n + 1 .. m
  PROVE  Ranged(IntroduceToMerge(r, mid), m) /\ EntryOnly(IntroduceToMerge(r, mid))
<1> DEFINE R  == IntroduceToMerge(r, mid)
           S  == Direct(r)
           s1 == {Trans(t.from, t.op, mid[t]) : t \in S}
           s2 == {Trans(mid[t], IrreducibleEpsilon, t.to) : t \in S}
           ls == {mid[t] : t \in S}
<1>1. /\ DOMAIN r = {"trans", "locs", "entry", "exit"}
      /\ r.locs \subseteq 1 .. n /\ r.entry \subseteq r.locs /\ r.exit \subseteq r.locs
      /\ IsFiniteSet(r.trans)
  BY DEF Ranged, Typed
<1>2. /\ R.trans = (r.trans \ S) \cup s1 \cup s2 /\ R.locs = r.locs \cup ls
      /\ R.entry = r.entry /\ R.exit = r.exit
  BY <1>1 DEF IntroduceToMerge
<1>3. Typed(R, Ops)
  BY ToMergeTyped DEF Ranged
<1>4. S \subseteq r.trans /\ IsFiniteSet(S)
  <2>1. S \subseteq r.trans
    BY DEF Direct
  <2> HIDE DEF S
  <2> QED BY <1>1, <2>1, FS_Subset
<1> HIDE DEF R, S
<1>5. ls \subseteq n + 1 .. m
  BY DEF S
<1>6. IsFiniteSet(s1)
  <2> DEFINE f == [t \in S |-> Trans(t.from, t.op, mid[t])]
  <2>1. DOMAIN f = S /\ s1 = {f[t] : t \in S}
    OBVIOUS
  <2> HIDE DEF f, s1
  <2> QED BY <1>4, <2>1, FiniteImage
<1>7. IsFiniteSet(s2)
  <2> DEFINE f == [t \in S |-> Trans(mid[t], IrreducibleEpsilon, t.to)]
  <2>1. DOMAIN f = S /\ s2 = {f[t] : t \in S}
    OBVIOUS
  <2> HIDE DEF f, s2
  <2> QED BY <1>4, <2>1, FiniteImage
<1>8. \A t \in s1 : t.to \in ls
  BY TransFields
<1>9. \A t \in s2 : \E u \in S : t.to = u.to
  BY TransFields
<1> HIDE DEF s1, s2, ls
<1>10. Ranged(R, m)
  <2>1. IsFiniteSet(r.trans \ S)
    BY <1>1, FS_Subset
  <2>2. IsFiniteSet(R.trans)
    BY <1>2, <1>6, <1>7, <2>1, FiniteUnions
  <2>3. R.locs \subseteq 1 .. m
    <3>1. 1 .. n \subseteq 1 .. m /\ n + 1 .. m \subseteq 1 .. m
      OBVIOUS
    <3>2. r.locs \subseteq 1 .. m /\ ls \subseteq 1 .. m
      BY <1>1, <1>5, <3>1
    <3> QED BY <1>2, <3>2
  <2>4. R.entry \subseteq R.locs /\ R.exit \subseteq R.locs
    BY <1>1, <1>2
  <2> QED BY <1>3, <2>2, <2>3, <2>4 DEF Ranged
<1>11. EntryOnly(R)
  <2>1. \A l \in r.entry, t \in r.trans : t.to # l
    BY DEF EntryOnly, Into
  <2>2. \A l \in r.entry : l \notin ls
    BY <1>1, <1>5
  <2>3. \A l \in R.entry, t \in R.trans : t.to # l
    BY <1>2, <1>4, <1>8, <1>9, <2>1, <2>2
  <2>4. \A l \in R.entry : Into(R, l) = {}
    BY <2>3 DEF Into
  <2>5. \A l, k \in R.entry : l = k
    BY <1>2 DEF EntryOnly
  <2> QED BY <2>4, <2>5 DEF EntryOnly
<1> QED BY <1>10, <1>11 DEF R

LEMMA BetweenRanged ==
  ASSUME NEW n \in Nat, NEW m \in Nat, n <= m, NEW r, Ranged(r, n), EntryOnly(r), NEW mid,
         \A l \in Both(r) : mid[l] \in n + 1 .. m
  PROVE  Ranged(IntroduceBetween(r, mid), m) /\ EntryOnly(IntroduceBetween(r, mid))
<1> DEFINE R  == IntroduceBetween(r, mid)
           S  == Both(r)
           T  == {t \in r.trans : t.from \in S}
           s1 == {Trans(l, IrreducibleEpsilon, mid[l]) : l \in S}
           s2 == {Trans(mid[t.from], t.op, t.to) : t \in T}
           ls == {mid[l] : l \in S}
<1>1. /\ DOMAIN r = {"trans", "locs", "entry", "exit"}
      /\ r.locs \subseteq 1 .. n /\ r.entry \subseteq r.locs /\ r.exit \subseteq r.locs
      /\ IsFiniteSet(r.trans) /\ IsFiniteSet(r.locs)
      /\ r.trans \subseteq [from : r.locs, op : Ops, to : r.locs]
  BY RangedFacts DEF Ranged, Typed
<1>2. /\ DOMAIN R = {"trans", "locs", "entry", "exit"}
      /\ R.trans = (r.trans \ T) \cup s1 \cup s2 /\ R.locs = r.locs \cup ls
      /\ R.entry = r.entry /\ R.exit = r.exit
  BY <1>1 DEF IntroduceBetween
<1>3. S \subseteq r.locs /\ IsFiniteSet(S)
  <2>1. S \subseteq r.locs
    BY DEF Both
  <2> HIDE DEF S
  <2> QED BY <1>1, <2>1, FS_Subset
<1> HIDE DEF R, S
<1>4. T \subseteq r.trans /\ IsFiniteSet(T) /\ \A t \in T : t.from \in S
  BY <1>1, FS_Subset
<1> HIDE DEF T
<1>5. ls \subseteq n + 1 .. m
  BY DEF S
<1>6. IsFiniteSet(s1)
  <2> DEFINE f == [l \in S |-> Trans(l, IrreducibleEpsilon, mid[l])]
  <2>1. DOMAIN f = S /\ s1 = {f[t] : t \in S}
    OBVIOUS
  <2> HIDE DEF f, s1
  <2> QED BY <1>3, <2>1, FiniteImage
<1>7. IsFiniteSet(s2)
  <2> DEFINE f == [t \in T |-> Trans(mid[t.from], t.op, t.to)]
  <2>1. DOMAIN f = T /\ s2 = {f[t] : t \in T}
    OBVIOUS
  <2> HIDE DEF f, s2
  <2> QED BY <1>4, <2>1, FiniteImage
<1>8. ASSUME NEW t \in s1 PROVE t.to \in ls /\ t \in [from : R.locs, op : Ops, to : R.locs]
  <2>1. PICK l \in S : t = Trans(l, IrreducibleEpsilon, mid[l])
    OBVIOUS
  <2>2. l \in R.locs /\ mid[l] \in R.locs /\ IrreducibleEpsilon \in Ops
    BY <1>2, <1>3, OpsFacts
  <2>3. t.to = mid[l]
    BY <2>1, TransFields
  <2> HIDE DEF s1
  <2> QED BY <2>1, <2>2, <2>3, TransTyped
<1>9. ASSUME NEW t \in s2 PROVE /\ \E u \in r.trans : t.to = u.to
                              /\ t \in [from : R.locs, op : Ops, to : R.locs]
  <2>1. PICK u \in T : t = Trans(mid[u.from], u.op, u.to)
    OBVIOUS
  <2>2. u \in r.trans /\ u.from \in S
    BY <1>4
  <2>3. mid[u.from] \in R.locs /\ u.to \in R.locs /\ u.op \in Ops
    BY <1>1, <1>2, <2>2
  <2>4. t.to = u.to
    BY <2>1, TransFields
  <2> HIDE DEF s2
  <2> QED BY <2>1, <2>2, <2>3, <2>4, TransTyped
<1> HIDE DEF s1, s2, ls
<1>10. R.trans \subseteq [from : R.locs, op : Ops, to : R.locs]
  <2> SUFFICES ASSUME NEW t \in R.trans PROVE t \in [from : R.locs, op : Ops, to : R.locs]
    OBVIOUS
  <2>1. CASE t \in r.trans
    BY <1>1, <1>2, <2>1
  <2> QED BY <1>2, <1>8, <1>9, <2>1
<1>11. Ranged(R, m)
  <2>1. IsFiniteSet(r.trans \ T)
    BY <1>1, FS_Subset
  <2>2. IsFiniteSet(R.trans)
    BY <1>2, <1>6, <1>7, <2>1, FiniteUnions
  <2>3. R.locs \subseteq 1 .. m
    <3>1. 1 .. n \subseteq 1 .. m /\ n + 1 .. m \subseteq 1 .. m
      OBVIOUS
    <3>2. r.locs \subseteq 1 .. m /\ ls \subseteq 1 .. m
      BY <1>1, <1>5, <3>1
    <3> QED BY <1>2, <3>2
  <2>4. R.entry \subseteq R.locs /\ R.exit \subseteq R.locs
    BY <1>1, <1>2
  <2> QED BY <1>2, <1>10, <2>2, <2>3, <2>4, OpsFacts DEF Ranged, Typed
<1>12. EntryOnly(R)
  <2>1. \A l \in r.entry, t \in r.trans : t.to # l
    BY DEF EntryOnly, Into
  <2>2. \A l \in r.entry : l \notin ls
    BY <1>1, <1>5
  <2>3. \A l \in R.entry, t \in R.trans : t.to # l
    BY <1>2, <1>8, <1>9, <2>1, <2>2
  <2>4. \A l \in R.entry : Into(R, l) = {}
    BY <2>3 DEF Into
  <2>5. \A l, k \in R.entry : l = k
    BY <1>2 DEF EntryOnly
  <2> QED BY <2>4, <2>5 DEF EntryOnly
<1> QED BY <1>11, <1>12 DEF R

(* New locations are fresh for what is to get one. *)
LEMMA NumberingFreshFor ==
  ASSUME NEW S, IsFiniteSet(S), NEW n \in Nat, NEW L \in SUBSET (1 .. n)
  PROVE  /\ FreshFor(Numbering(S, n), S, L)
         /\ Cardinality(S) \in Nat
         /\ \A x \in S : Numbering(S, n)[x] \in n + 1 .. n + Cardinality(S)
<1>1. /\ Cardinality(S) \in Nat
      /\ \A x \in S : Numbering(S, n)[x] \in n + 1 .. n + Cardinality(S)
      /\ \A x, y \in S : Numbering(S, n)[x] = Numbering(S, n)[y] => x = y
  BY NumberingIsFresh
<1>2. \A i \in n + 1 .. n + Cardinality(S) : i \notin L
  BY <1>1
<1> QED BY <1>1, <1>2 DEF FreshFor

-----------------------------------------------------------------------------
(* The equivalence classes. *)

Links(w) == Arrows(w) \cup Backs(w)

LEMMA ComponentClosure ==
  ASSUME NEW w, Within(w), NEW l \in w.locs
  PROVE  IsClosure(Component(w, l), w.locs, Links(w), l)
<1> DEFINE L == w.locs
           R == Links(w)
           base == [seen |-> {l}, new |-> {l}]
           step(r) == LET new == IF r.new = {} THEN {} ELSE (EpsilonTargets(w, r.new) \cup EpsilonSources(w, r.new)) \ r.seen
                      IN [seen |-> r.seen \cup new, new |-> new]
           all(h) == [i \in Nat |-> IF i = 0 THEN base ELSE step(h[i - 1])]
           rounds == CHOOSE h : h = all(h)
<1>1. Component(w, l) = rounds[Cardinality(L)].seen
  BY DEF Component, Closure
<1>2. ASSUME NEW r, r.new \in SUBSET L PROVE step(r) = Round(L, R, r)
  <2>1. (EpsilonTargets(w, r.new) \cup EpsilonSources(w, r.new)) = Beyond(L, R, r.new)
    BY <1>2 DEF Within, Links, Arrows, Backs, EpsilonTargets, EpsilonSources, Beyond
  <2>2. r.new = {} => Beyond(L, R, r.new) = {}
    BY DEF Beyond
  <2> QED BY <2>1, <2>2 DEF Round
<1> HIDE DEF step
<1>3. PICK g : AreRounds(L, R, l, g)
  BY RoundsExist
<1>4. g = all(g)
  <2>1. \A i \in Nat : i # 0 => i - 1 \in Nat /\ (i - 1) + 1 = i
    OBVIOUS
  <2>2. \A i \in Nat : g[i] = IF i = 0 THEN base ELSE step(g[i - 1])
    BY <1>2, <1>3, <2>1 DEF AreRounds
  <2>3. g = [i \in Nat |-> g[i]]
    BY <1>3 DEF AreRounds
  <2> QED BY <2>2, <2>3
<1>5. rounds = all(rounds)
  BY <1>4
<1> HIDE DEF rounds
<1>6. rounds[0] = base
  BY <1>5
<1>7. \A i \in Nat : rounds[i + 1] = step(rounds[i])
  <2>1. \A i \in Nat : i + 1 # 0 /\ i + 1 \in Nat /\ (i + 1) - 1 = i
    OBVIOUS
  <2> QED BY <1>5, <2>1
<1> QED BY <1>1, <1>2, <1>6, <1>7, RoundsAreClosure DEF Within

LEMMA JoinsAre ==
  ASSUME NEW n \in Nat, NEW r, Ranged(r, n)
  PROVE  /\ Within(r)
         /\ \A l, k : <<l, k>> \in Arrows(r) <=> <<k, l>> \in Backs(r)
         /\ \A l, k : <<l, k>> \in Links(r) <=> <<l, k>> \in Arrows(r) \/ <<k, l>> \in Arrows(r)
         /\ \A l, k : Joins(r, l, k) <=> l # k /\ <<l, k>> \in Arrows(r)
<1>1. /\ IsFiniteSet(r.locs) /\ \A t \in r.trans : t.from \in r.locs /\ t.to \in r.locs
      /\ r.trans \subseteq [from : r.locs, op : Ops, to : r.locs]
  BY RangedFacts DEF Ranged, Typed
<1>2. \A l, k : <<l, k>> \in Arrows(r) <=> <<k, l>> \in Backs(r)
  BY DEF Arrows, Backs
<1>3. \A l, k : <<l, k>> \in Arrows(r) <=> \E t \in r.trans : t.op = Epsilon /\ t.from = l /\ t.to = k
  BY DEF Arrows
<1>4. \A t \in r.trans : t = Trans(t.from, t.op, t.to)
  BY <1>1 DEF Trans
<1>5. \A l, k : Trans(l, Epsilon, k) \in r.trans <=> <<l, k>> \in Arrows(r)
  <2>1. ASSUME NEW l, NEW k, Trans(l, Epsilon, k) \in r.trans PROVE <<l, k>> \in Arrows(r)
    <3>1. /\ Trans(l, Epsilon, k).op = Epsilon /\ Trans(l, Epsilon, k).from = l
          /\ Trans(l, Epsilon, k).to = k
      BY TransFields
    <3> QED BY <1>3, <2>1, <3>1
  <2>2. ASSUME NEW l, NEW k, <<l, k>> \in Arrows(r) PROVE Trans(l, Epsilon, k) \in r.trans
    <3>1. PICK t \in r.trans : t.op = Epsilon /\ t.from = l /\ t.to = k
      BY <1>3, <2>2
    <3>2. t = Trans(l, Epsilon, k)
      BY <1>4, <3>1
    <3> QED BY <3>2
  <2> QED BY <2>1, <2>2
<1> QED BY <1>1, <1>2, <1>5 DEF Within, Links, Joins

(* Of a location, all that its epsilon transitions lead to are in the class,  *)
(* and one of those that lead to it, or the other way round.                  *)
Settled(r, l, C) ==
  \/ /\ \A j : Joins(r, l, j) => j \in C
     /\ (\E j : Joins(r, j, l)) => \E j \in C : Joins(r, j, l)
  \/ /\ \A j : Joins(r, j, l) => j \in C
     /\ (\E j : Joins(r, l, j)) => \E j \in C : Joins(r, l, j)

LEMMA SearchSettles ==
  ASSUME NEW n \in Nat, NEW r, Ranged(r, n), NEW l \in r.locs
  PROVE  /\ l \in BiDirClosure(r, l)
         /\ BiDirClosure(r, l) \in SUBSET r.locs
         /\ \A k \in BiDirClosure(r, l) : Settled(r, k, BiDirClosure(r, l))
         /\ \A M \in SUBSET r.locs : l \in M /\ IsClosed(r.locs, Links(r), M)
                                       => BiDirClosure(r, l) \subseteq M
<1> DEFINE L == r.locs
           F == Forwards(r, l)
           B == Backwards(r, l)
           C == BiDirClosure(r, l)
<1>1. /\ Within(r)
      /\ \A i, k : <<i, k>> \in Arrows(r) <=> <<k, i>> \in Backs(r)
      /\ \A i, k : <<i, k>> \in Links(r) <=> <<i, k>> \in Arrows(r) \/ <<k, i>> \in Arrows(r)
      /\ \A i, k : Joins(r, i, k) <=> i # k /\ <<i, k>> \in Arrows(r)
      /\ \A i, k : Joins(r, i, k) => i \in L /\ k \in L
  BY JoinsAre, RangedFacts
<1>2. IsClosure(F, L, Arrows(r), l) /\ IsClosure(B, L, Backs(r), l)
  BY <1>1, ForwardsClosure, BackwardsClosure
<1>3. C = F \cup B
  BY DEF BiDirClosure
<1> HIDE DEF F, B, C
<1>4. l \in F /\ l \in B /\ l \in C /\ F \in SUBSET L /\ B \in SUBSET L /\ C \in SUBSET L
  BY <1>2, <1>3 DEF IsClosure
<1>5. /\ \A j \in F, k \in L : <<j, k>> \in Arrows(r) => k \in F
      /\ \A j \in B, k \in L : <<j, k>> \in Backs(r) => k \in B
      /\ \A M \in SUBSET L : l \in M /\ IsClosed(L, Arrows(r), M) => F \subseteq M
      /\ \A M \in SUBSET L : l \in M /\ IsClosed(L, Backs(r), M) => B \subseteq M
  BY <1>2 DEF IsClosure, IsClosed
<1>6. ASSUME NEW k \in F PROVE Settled(r, k, C)
  <2>1. \A j : Joins(r, k, j) => j \in C
    BY <1>1, <1>3, <1>5
  <2>2. ASSUME NEW j, Joins(r, j, k) PROVE \E i \in C : Joins(r, i, k)
    <3>1. CASE k = l
      BY <1>1, <1>3, <1>4, <1>5, <2>2, <3>1
    <3>2. CASE k # l /\ ~\E i \in C : Joins(r, i, k)
      <4> DEFINE M == F \ {k}
      <4>1. M \in SUBSET L /\ l \in M
        BY <1>4, <3>2
      <4>2. IsClosed(L, Arrows(r), M)
        BY <1>1, <1>3, <1>5, <3>2 DEF IsClosed
      <4> HIDE DEF M
      <4>3. F \subseteq M
        BY <1>5, <4>1, <4>2
      <4> QED BY <4>3 DEF M
    <3> QED BY <3>1, <3>2
  <2> QED BY <2>1, <2>2 DEF Settled
<1>7. ASSUME NEW k \in B PROVE Settled(r, k, C)
  <2>1. \A j : Joins(r, j, k) => j \in C
    BY <1>1, <1>3, <1>5
  <2>2. ASSUME NEW j, Joins(r, k, j) PROVE \E i \in C : Joins(r, k, i)
    <3>1. CASE k = l
      BY <1>1, <1>3, <1>4, <1>5, <2>2, <3>1
    <3>2. CASE k # l /\ ~\E i \in C : Joins(r, k, i)
      <4> DEFINE M == B \ {k}
      <4>1. M \in SUBSET L /\ l \in M
        BY <1>4, <3>2
      <4>2. IsClosed(L, Backs(r), M)
        BY <1>1, <1>3, <1>5, <3>2 DEF IsClosed
      <4> HIDE DEF M
      <4>3. B \subseteq M
        BY <1>5, <4>1, <4>2
      <4> QED BY <4>3 DEF M
    <3> QED BY <3>1, <3>2
  <2> QED BY <2>1, <2>2 DEF Settled
<1>8. ASSUME NEW M \in SUBSET L, l \in M, IsClosed(L, Links(r), M) PROVE C \subseteq M
  <2>1. IsClosed(L, Arrows(r), M) /\ IsClosed(L, Backs(r), M)
    BY <1>1, <1>8 DEF IsClosed
  <2> QED BY <1>3, <1>5, <1>8, <2>1
<1> QED BY <1>3, <1>4, <1>6, <1>7, <1>8 DEF C

(* The classes, while some locations still wait for theirs.                   *)
ClassesOK(r, eq, left) ==
  LET L == r.locs
  IN /\ eq \in [L -> [id : L, members : SUBSET L]]
     /\ \A l \in L : l \in eq[l].members
     /\ \A l, k \in L : k \in eq[l].members => eq[k] = eq[l]
     /\ \A l \in L : l \in left => eq[l].members = {l}
     /\ \A l \in L, M \in SUBSET L : l \in M /\ IsClosed(L, Links(r), M) => eq[l].members \subseteq M
     /\ \A l \in L : l \notin left => Settled(r, l, eq[l].members)

LEMMA ClassesBegin ==
  ASSUME NEW r, NEW eq, eq = [l \in r.locs |-> [id |-> l, members |-> {l}]]
  PROVE  ClassesOK(r, eq, r.locs)
BY DEF ClassesOK

LEMMA ClassesEnd ==
  ASSUME NEW n \in Nat, NEW r, Ranged(r, n), NoZigzag(r), NEW eq, ClassesOK(r, eq, {}), NEW l \in r.locs
  PROVE  eq[l].members = Component(r, l)
<1> DEFINE L == r.locs
           C == Component(r, l)
<1>1. /\ Within(r)
      /\ \A i, k : <<i, k>> \in Links(r) <=> <<i, k>> \in Arrows(r) \/ <<k, i>> \in Arrows(r)
      /\ \A i, k : Joins(r, i, k) <=> i # k /\ <<i, k>> \in Arrows(r)
      /\ \A i, k : Joins(r, i, k) => i \in L /\ k \in L
  BY JoinsAre, RangedFacts
<1>2. IsClosure(C, L, Links(r), l)
  BY <1>1, ComponentClosure
<1> HIDE DEF C
<1>3. /\ \A k \in L : eq[k].members \in SUBSET L /\ k \in eq[k].members
      /\ \A i, k \in L : k \in eq[i].members => eq[k] = eq[i]
      /\ \A i \in L, M \in SUBSET L : i \in M /\ IsClosed(L, Links(r), M) => eq[i].members \subseteq M
      /\ \A k \in L : Settled(r, k, eq[k].members)
  BY DEF ClassesOK
<1>4. ASSUME NEW k \in L, NEW j \in L, Joins(r, k, j) PROVE eq[k] = eq[j]
  <2>1. CASE j \in eq[k].members
    BY <1>3, <2>1
  <2>2. CASE j \notin eq[k].members
    <3>1. PICK i \in eq[k].members : Joins(r, k, i)
      BY <1>3, <1>4, <2>2 DEF Settled
    <3>2. \A h : Joins(r, h, j) => h = k
      BY <1>4, <2>2, <3>1 DEF NoZigzag
    <3>3. k \in eq[j].members
      BY <1>3, <1>4, <3>2 DEF Settled
    <3> QED BY <1>3, <3>3
  <2> QED BY <2>1, <2>2
<1>5. IsClosed(L, Links(r), eq[l].members)
  <2> SUFFICES ASSUME NEW k \in eq[l].members, NEW j \in L, <<k, j>> \in Links(r)
               PROVE  j \in eq[l].members
    BY DEF IsClosed
  <2>1. k \in L /\ eq[k] = eq[l]
    BY <1>3
  <2>2. k = j \/ Joins(r, k, j) \/ Joins(r, j, k)
    BY <1>1
  <2>3. eq[j] = eq[k]
    BY <1>4, <2>1, <2>2
  <2> QED BY <1>3, <2>1, <2>3
<1>6. C \subseteq eq[l].members
  BY <1>2, <1>3, <1>5 DEF IsClosure
<1>7. eq[l].members \subseteq C
  BY <1>2, <1>3 DEF IsClosure
<1> QED BY <1>6, <1>7 DEF C

LEMMA SettledMore ==
  ASSUME NEW r, NEW l, NEW C, NEW D, C \subseteq D, Settled(r, l, C)
  PROVE  Settled(r, l, D)
BY DEF Settled

(* What the search from l finds, with the classes that it meets. *)
Met(r, eq, l) == BiDirClosure(r, l) \cup UNION {eq[k].members : k \in BiDirClosure(r, l)}

Reclassed(r, eq, D, name) ==
  [k \in r.locs |-> IF k \in D THEN [id |-> name, members |-> D] ELSE eq[k]]

LEMMA ClassesStep ==
  ASSUME NEW n \in Nat, NEW r, Ranged(r, n), NEW eq, NEW left, ClassesOK(r, eq, left),
         NEW l \in r.locs, NEW id \in Met(r, eq, l)
  PROVE  ClassesOK(r, Reclassed(r, eq, Met(r, eq, l), id), left \ Met(r, eq, l))
<1> DEFINE L == r.locs
           C == BiDirClosure(r, l)
           D == Met(r, eq, l)
           eq2 == Reclassed(r, eq, D, id)
           class == [id |-> id, members |-> D]
<1>1. /\ l \in C
      /\ C \in SUBSET L
      /\ \A k \in C : Settled(r, k, C)
      /\ \A M \in SUBSET L : l \in M /\ IsClosed(L, Links(r), M) => C \subseteq M
  BY SearchSettles
<1>2. /\ eq \in [L -> [id : L, members : SUBSET L]]
      /\ \A k \in L : k \in eq[k].members
      /\ \A k \in L : eq[k].members \in SUBSET L
      /\ \A i, k \in L : k \in eq[i].members => eq[k] = eq[i]
      /\ \A i \in L : i \in left => eq[i].members = {i}
      /\ \A i \in L, M \in SUBSET L : i \in M /\ IsClosed(L, Links(r), M) => eq[i].members \subseteq M
      /\ \A i \in L : i \notin left => Settled(r, i, eq[i].members)
  BY DEF ClassesOK
<1>3. \A i, k : <<i, k>> \in Links(r) => <<k, i>> \in Links(r)
  BY JoinsAre
<1>4. \A x : x \in D <=> x \in C \/ \E k \in C : x \in eq[k].members
  BY DEF Met
<1>17. id \in D
  OBVIOUS
<1> HIDE DEF C, D
<1>5. C \subseteq D /\ D \in SUBSET L /\ id \in L /\ \A k \in C : eq[k].members \subseteq D
  BY <1>1, <1>2, <1>4, <1>17
<1>6. \A x \in D : \E k \in C : x \in eq[k].members
  BY <1>1, <1>2, <1>4
<1>7. ASSUME NEW i \in L, NEW k \in D, k \in eq[i].members PROVE i \in D
  <2>1. PICK j \in C : k \in eq[j].members
    BY <1>6
  <2>2. k \in L /\ j \in L
    BY <1>1, <1>5, <2>1
  <2>3. eq[k] = eq[j] /\ eq[k] = eq[i]
    BY <1>2, <1>7, <2>1, <2>2
  <2>4. i \in eq[j].members
    BY <1>2, <2>3
  <2> QED BY <1>5, <2>4
<1>8. /\ \A k \in L : k \in D => eq2[k] = class
      /\ \A k \in L : k \notin D => eq2[k] = eq[k]
  BY DEF Reclassed
<1>9. eq2 \in [L -> [id : L, members : SUBSET L]]
  <2>1. class \in [id : L, members : SUBSET L]
    BY <1>5
  <2> HIDE DEF class
  <2>2. \A k \in L : eq2[k] \in [id : L, members : SUBSET L]
    BY <1>2, <1>8, <2>1
  <2>3. eq2 = [k \in L |-> eq2[k]]
    BY DEF Reclassed
  <2> QED BY <2>2, <2>3
<1>10. class.members = D
  OBVIOUS
<1> HIDE DEF class, eq2
<1>11. \A k \in L : k \in eq2[k].members
  BY <1>2, <1>8, <1>10
<1>12. ASSUME NEW i \in L, NEW k \in L, k \in eq2[i].members PROVE eq2[k] = eq2[i]
  <2>1. CASE i \in D
    BY <1>8, <1>10, <1>12, <2>1
  <2>2. CASE i \notin D
    <3>1. k \in eq[i].members
      BY <1>8, <1>12, <2>2
    <3>2. k \notin D
      BY <1>7, <2>2, <3>1
    <3> QED BY <1>2, <1>8, <2>2, <3>1, <3>2
  <2> QED BY <2>1, <2>2
<1>13. \A i \in L : i \in left \ D => eq2[i].members = {i}
  BY <1>2, <1>8
<1>14. ASSUME NEW i \in L, NEW M \in SUBSET L, i \in M, IsClosed(L, Links(r), M)
       PROVE  eq2[i].members \subseteq M
  <2>1. CASE i \notin D
    BY <1>2, <1>8, <1>14, <2>1
  <2>2. ASSUME NEW N \in SUBSET L, l \in N, IsClosed(L, Links(r), N) PROVE D \subseteq N
    <3>1. C \subseteq N
      BY <1>1, <2>2
    <3>2. \A k \in C : eq[k].members \subseteq N
      BY <1>1, <1>2, <2>2, <3>1
    <3> QED BY <1>6, <3>2
  <2>3. CASE i \in D
    <3>1. l \in M
      <4> SUFFICES ASSUME l \notin M PROVE FALSE
        OBVIOUS
      <4> DEFINE N == L \ M
      <4>1. N \in SUBSET L /\ l \in N /\ i \notin N
        BY <1>14
      <4>2. IsClosed(L, Links(r), N)
        BY <1>3, <1>14 DEF IsClosed
      <4> HIDE DEF N
      <4> QED BY <2>2, <2>3, <4>1, <4>2
    <3>2. D \subseteq M
      BY <1>14, <2>2, <3>1
    <3> QED BY <1>8, <1>10, <2>3, <3>2
  <2> QED BY <2>1, <2>3
<1>15. ASSUME NEW i \in L, i \notin left \ D PROVE Settled(r, i, eq2[i].members)
  <2>1. CASE i \notin D
    BY <1>2, <1>8, <1>15, <2>1
  <2>2. CASE i \in C
    <3>1. Settled(r, i, D)
      BY <1>1, <1>5, <2>2, SettledMore
    <3> QED BY <1>5, <1>8, <1>10, <2>2, <3>1
  <2>3. CASE i \in D /\ i \notin C
    <3>1. PICK k \in C : i \in eq[k].members
      BY <1>6, <2>3
    <3>2. k \in L /\ eq[i] = eq[k]
      BY <1>1, <1>2, <3>1
    <3>3. i \notin left
      <4> SUFFICES ASSUME i \in left PROVE FALSE
        OBVIOUS
      <4>1. eq[k].members = {i}
        BY <1>2, <3>2
      <4> QED BY <1>2, <2>3, <3>2, <4>1
    <3>4. Settled(r, i, eq[i].members)
      BY <1>2, <3>3
    <3>5. eq[i].members \subseteq D
      BY <1>5, <3>2
    <3>6. Settled(r, i, D)
      BY <3>4, <3>5, SettledMore
    <3> QED BY <1>8, <1>10, <2>3, <3>6
  <2> QED BY <2>1, <2>2, <2>3
<1> HIDE DEF L, D
<1>16. /\ eq2 \in [L -> [id : L, members : SUBSET L]]
       /\ \A i \in L : i \in eq2[i].members
       /\ \A i, k \in L : k \in eq2[i].members => eq2[k] = eq2[i]
       /\ \A i \in L : i \in left \ D => eq2[i].members = {i}
       /\ \A i \in L, M \in SUBSET L : i \in M /\ IsClosed(L, Links(r), M) => eq2[i].members \subseteq M
       /\ \A i \in L : i \notin left \ D => Settled(r, i, eq2[i].members)
  BY <1>9, <1>11, <1>12, <1>13, <1>14, <1>15, Zenon
<1> QED BY <1>16 DEF ClassesOK, L, D, eq2

(* The least and the greatest of some locations are among them. *)
LEMMA MinMaxOf ==
  ASSUME NEW S \in SUBSET Nat, S # {}, IsFiniteSet(S)
  PROVE  Min(S) \in S /\ Max(S) \in S
<1>1. PICK m \in S : \A k \in S : m <= k
  BY LeastElement
<1>2. PICK g \in S : \A k \in S : k <= g
  BY GreatestElement
<1>3. \A k \in S : g >= k
  BY <1>2
<1>4. Min(S) \in S
  BY <1>1, Zenon DEF Min
<1>5. Max(S) \in S
  BY <1>3, Zenon DEF Max
<1> QED BY <1>4, <1>5

-----------------------------------------------------------------------------
(* The inductive invariant.  What is brought in shape is a relation that was  *)
(* built; once its epsilon transitions are eliminated it has one entry, then   *)
(* merges that straight lines enter, then no merge that branches.            *)

Classing == phase \in {"classes", "classes_of_common"}

IInv ==
  /\ TypeOK
  /\ Ranged(tr, next)
  /\ phase = "build" => StackOK(stack, next)
  /\ phase = "common" => Good(tr, next)
  /\ Classing => NoZigzag(tr) /\ ClassesOK(tr, equiv, todo)
  /\ phase \in {"merge", "between"} => EntryOnly(tr)
  /\ phase = "between" => MergesEnteredStraight(tr)
  /\ InShape

LEMMA TypeFollows ==
  ASSUME next \in Nat, Ranged(tr, next)
  PROVE  /\ {t.from : t \in tr.trans} \cup {t.to : t \in tr.trans} \cup tr.entry \cup tr.exit \subseteq tr.locs
         /\ tr.locs \subseteq 1 .. next
BY RangedFacts DEF Ranged

LEMMA IInit == Init => IInv
<1> SUFFICES ASSUME Init PROVE IInv
  OBVIOUS
<1>1. /\ stack = <<Item(Singleton(1), MeansNothing)>> /\ size = 0 /\ next = 1 /\ phase = "build"
      /\ way = "script" /\ tr = Singleton(1) /\ todo = {}
  BY DEF Init
<1>2. Good(Singleton(1), 1)
  BY SingletonGood
<1>3. 0 \in 0 .. MaxSize
  BY ControlFlowAssumption
<1>4. Ranged(tr, next) /\ next \in Nat
  BY <1>1, <1>2 DEF Good
<1>5. TypeOK
  BY <1>1, <1>3, <1>4, TypeFollows DEF TypeOK, Phases
<1>6. StackOK(stack, next)
  <2> DEFINE item == Item(Singleton(1), MeansNothing)
  <2>1. item.rel = Singleton(1)
    BY DEF Item
  <2> HIDE DEF item
  <2>2. stack = <<item>>
    BY <1>1 DEF item
  <2>3. stack \in Seq({item}) /\ Len(stack) = 1 /\ stack[1] = item
    BY <2>2
  <2>4. \A i \in 1 .. Len(stack) : i = 1
    BY <2>3
  <2>5. \A i \in 1 .. Len(stack) : Good(stack[i].rel, 1)
    BY <1>2, <2>1, <2>3, <2>4
  <2>6. Len(stack) >= 1 /\ \E S : stack \in Seq(S)
    BY <2>3
  <2>7. \A i, j \in 1 .. Len(stack) : i # j => stack[i].rel.locs \cap stack[j].rel.locs = {}
    BY <2>4
  <2> QED BY <1>1, <2>5, <2>6, <2>7 DEF StackOK
<1> QED BY <1>1, <1>4, <1>5, <1>6 DEF IInv, Classing, InShape

(* What a step to a relation makes true of the phases before the last ones.   *)
LEMMA ReshapeKeeps ==
  ASSUME IInv, NEW rel, NEW taken \in Nat, NEW phases, Reshape(rel, taken, phases),
         Ranged(rel, next + taken),
         phases \in {"classes", "classes_of_common", "entry", "merge", "between", "done"},
         phases \in {"classes", "classes_of_common"} => NoZigzag(rel),
         phases \in {"merge", "between"} => EntryOnly(rel),
         phases = "between" => MergesEnteredStraight(rel),
         phases = "done" /\ way # "check" => Separated(rel) /\ MergesEnteredStraight(rel) /\ EntryOnly(rel)
  PROVE  IInv'
<1>1. /\ tr' = rel /\ next' = next + taken /\ phase' = phases /\ todo' = rel.locs
      /\ equiv' = [l \in rel.locs |-> [id |-> l, members |-> {l}]]
      /\ size' = size /\ way' = way
  BY DEF Reshape
<1>2. /\ next \in Nat /\ size \in 0 .. MaxSize /\ way \in {"script", "method", "check"}
  BY DEF IInv, TypeOK
<1>3. next' \in Nat /\ Ranged(tr', next')
  BY <1>1, <1>2
<1>4. /\ {t.from : t \in rel.trans} \cup {t.to : t \in rel.trans} \cup rel.entry \cup rel.exit \subseteq rel.locs
      /\ rel.locs \subseteq 1 .. next'
  BY <1>1, <1>3, RangedFacts DEF Ranged
<1>5. TypeOK'
  BY <1>1, <1>2, <1>3, <1>4 DEF TypeOK, Phases
<1>6. ClassesOK(rel, equiv', rel.locs)
  BY <1>1, ClassesBegin
<1>7. InShape'
  BY <1>1 DEF InShape, Separated, MergesEnteredStraight, EntryOnly
<1>8. phase' # "build" /\ phase' # "common"
  BY <1>1
<1>9. Classing' => NoZigzag(tr)' /\ ClassesOK(tr, equiv, todo)'
  BY <1>1, <1>6 DEF Classing
<1>10. /\ phase' \in {"merge", "between"} => EntryOnly(tr)'
       /\ phase' = "between" => MergesEnteredStraight(tr)'
  BY <1>1
<1> QED BY <1>3, <1>5, <1>7, <1>8, <1>9, <1>10 DEF IInv

LEMMA VisitKeeps ==
  ASSUME IInv, Visit
  PROVE  IInv'
<1>1. /\ phase = "build" /\ size \in 0 .. MaxSize /\ size < MaxSize /\ next \in Nat /\ MaxSize \in Nat
      /\ StackOK(stack, next)
  BY ControlFlowAssumption DEF IInv, TypeOK, Visit, OpenList, VisitStatement, VisitSignal, VisitIf, VisitForever,
     VisitUntil, Building
<1>2. next' \in Nat /\ StackOK(stack', next')
  BY <1>1, OpenListKeeps, StatementKeeps, IfKeeps, ForeverKeeps, UntilKeeps DEF Visit
<1>3. /\ size' \in {size, size + 1}
      /\ UNCHANGED <<phase, way, tr, todo, equiv>>
  BY DEF Visit, OpenList, VisitStatement, VisitSignal, VisitIf, VisitForever, VisitUntil, Reduce
<1>4. next' >= next
  <2>1. next' \in {next, next + 0, next + 1, next + 2, next + 6}
    BY DEF Visit, OpenList, VisitStatement, VisitSignal, VisitIf, VisitForever, VisitUntil, Reduce
  <2> QED BY <1>1, <2>1
<1>5. Ranged(tr', next')
  <2>1. 1 .. next \subseteq 1 .. next'
    BY <1>1, <1>2, <1>4
  <2> QED BY <1>3, <2>1 DEF IInv, Ranged
<1>6. size' \in 0 .. MaxSize
  BY <1>1, <1>3
<1>7. TypeOK'
  <2>1. /\ {t.from : t \in tr.trans} \cup {t.to : t \in tr.trans} \cup tr.entry \cup tr.exit \subseteq tr.locs
        /\ todo \subseteq tr.locs /\ way \in {"script", "method", "check"} /\ phase \in Phases
    BY DEF IInv, TypeOK
  <2>2. tr'.locs \subseteq 1 .. next'
    BY <1>5 DEF Ranged
  <2> QED BY <1>2, <1>3, <1>6, <2>1, <2>2 DEF TypeOK
<1>8. phase' = "build"
  BY <1>1, <1>3
<1>9. ~Classing' /\ InShape'
  BY <1>8 DEF Classing, InShape
<1> QED BY <1>2, <1>5, <1>7, <1>8, <1>9 DEF IInv

LEMMA BeginKeeps ==
  ASSUME IInv, NEW kind \in {"script", "method", "check"}, NEW start \in {"common", "classes"},
         NEW rel, NEW m, NEW taken \in Nat, Begin(kind, start, rel, m, taken), Good(rel, next + taken)
  PROVE  IInv'
<1>1. /\ tr' = rel /\ next' = next + taken /\ phase' = start /\ way' = kind /\ todo' = rel.locs
      /\ equiv' = [l \in rel.locs |-> [id |-> l, members |-> {l}]] /\ size' = size
  BY DEF Begin
<1>2. next \in Nat /\ size \in 0 .. MaxSize
  BY DEF IInv, TypeOK
<1>3. next' \in Nat /\ Ranged(rel, next')
  BY <1>1, <1>2 DEF Good
<1>4. /\ {t.from : t \in rel.trans} \cup {t.to : t \in rel.trans} \cup rel.entry \cup rel.exit \subseteq rel.locs
      /\ rel.locs \subseteq 1 .. next'
  BY <1>3, RangedFacts DEF Ranged
<1>5. TypeOK'
  BY <1>1, <1>2, <1>3, <1>4 DEF TypeOK, Phases
<1>6. ClassesOK(rel, equiv', rel.locs)
  BY <1>1, ClassesBegin
<1>7. phase' # "build" /\ phase' \notin {"merge", "between", "done"}
  BY <1>1
<1>8. InShape'
  BY <1>7 DEF InShape
<1>9. Ranged(tr, next)' /\ Good(tr, next)'
  BY <1>1, <1>3
<1>10. NoZigzag(tr)' /\ ClassesOK(tr, equiv, todo)'
  BY <1>1, <1>6 DEF Good, Composable
<1> QED BY <1>5, <1>7, <1>8, <1>9, <1>10 DEF IInv

LEMMA BuildKeeps ==
  ASSUME IInv, Build
  PROVE  IInv'
<1>1. phase = "build" /\ Len(stack) = 1
  BY DEF Build, BuildScript, BuildCheck, BuildMethod, Begin
<1>2. next \in Nat /\ StackOK(stack, next)
  BY <1>1 DEF IInv, TypeOK
<1> DEFINE j == Len(stack) + 1 - 1
           rel == stack[j].rel
           n == next
           m == next + 4
<1>3. j \in 1 .. Len(stack) /\ m \in Nat /\ next <= m /\ next <= next
  BY <1>1, <1>2
<1>4. Top(1).rel = rel
  BY DEF Top
<1> HIDE DEF j
<1>5. Good(rel, next) /\ Good(rel, m) /\ rel.locs \subseteq 1 .. next
  BY <1>2, <1>3, OnStack
<1> HIDE DEF rel
<1>6. CASE BuildScript
  <2>1. Begin("script", "common", rel, Top(1).means, 0)
    BY <1>4, <1>6 DEF BuildScript
  <2>2. next + 0 = next /\ 0 \in Nat
    BY <1>2
  <2> QED BY <1>5, <2>1, <2>2, BeginKeeps
<1>7. CASE BuildCheck
  <2>1. Begin("check", "classes", rel, Top(1).means, 0)
    BY <1>4, <1>7 DEF BuildCheck
  <2>2. next + 0 = next /\ 0 \in Nat
    BY <1>2
  <2> QED BY <1>5, <2>1, <2>2, BeginKeeps
<1>8. CASE BuildMethod
  <2> DEFINE a == Singleton(next + 1)
             b == Singleton(next + 2)
             c == ForOp(next + 3, Return, next + 4)
             return == Concat(b, c)
             R == Concat(Concat(a, rel), return)
             mm == Then(Top(1).means, MeansOp(Return))
  <2>1. Begin("method", "common", R, mm, 4)
    BY <1>4, <1>8 DEF BuildMethod
  <2>2. /\ next + 1 \in 1 .. m /\ next + 2 \in 1 .. m /\ next + 3 \in 1 .. m /\ next + 4 \in 1 .. m
        /\ next + 1 \notin 1 .. next /\ next + 2 \notin 1 .. next
        /\ next + 3 \notin 1 .. next /\ next + 4 \notin 1 .. next
        /\ next + 2 # next + 3 /\ next + 2 # next + 4 /\ next + 1 # next + 2 /\ next + 1 # next + 3
        /\ next + 1 # next + 4 /\ 4 \in Nat
    BY <1>2
  <2> HIDE DEF m
  <2>3. Good(a, m) /\ a.locs = {next + 1}
    BY <1>3, <2>2, SingletonGood
  <2>4. Good(b, m) /\ b.locs = {next + 2}
    BY <1>3, <2>2, SingletonGood
  <2>5. Good(c, m) /\ c.locs = {next + 3, next + 4}
    <3>1. next + 3 \in 1 .. m /\ next + 4 \in 1 .. m /\ Return \in Ops /\ Return # Epsilon
      BY <2>2, StatementOps
    <3>2. /\ Good(ForOp(next + 3, Return, next + 4), m) /\ EntryFirst(ForOp(next + 3, Return, next + 4))
          /\ ForOp(next + 3, Return, next + 4).locs = {next + 3, next + 4}
          /\ ForOp(next + 3, Return, next + 4).entry = {next + 3}
          /\ ForOp(next + 3, Return, next + 4).exit = {next + 4}
      BY <1>3, <3>1, ForOpGood
    <3> QED BY <3>2
  <2> HIDE DEF a, b, c
  <2>6. Good(return, m) /\ return.locs \subseteq {next + 2, next + 3, next + 4}
    <3>1. b.locs \cap c.locs = {}
      BY <2>2, <2>4, <2>5
    <3>2. Good(return, m) /\ return.locs \subseteq b.locs \cup c.locs
      BY <1>3, <2>4, <2>5, <3>1, ConcatGood
    <3> HIDE DEF return
    <3> QED BY <2>4, <2>5, <3>2
  <2>7. Good(Concat(a, rel), m) /\ Concat(a, rel).locs \subseteq {next + 1} \cup rel.locs
    <3>1. a.locs \cap rel.locs = {}
      BY <1>5, <2>2, <2>3
    <3> QED BY <1>3, <1>5, <2>3, <3>1, ConcatGood
  <2> DEFINE whole == Concat(a, rel)
  <2> HIDE DEF return, whole
  <2>8. whole.locs \cap return.locs = {}
    <3>1. \A l \in whole.locs : l = next + 1 \/ l \in 1 .. next
      BY <1>5, <2>7 DEF whole
    <3>2. \A l \in return.locs : l = next + 2 \/ l = next + 3 \/ l = next + 4
      BY <2>6
    <3> QED BY <2>2, <3>1, <3>2
  <2>9. Good(Concat(whole, return), m)
    BY <1>3, <2>6, <2>7, <2>8, ConcatGood DEF whole
  <2>10. Good(R, next + 4)
    BY <2>9 DEF whole, m
  <2> HIDE DEF R, mm
  <2> QED BY <2>1, <2>2, <2>10, BeginKeeps
<1> QED BY <1>6, <1>7, <1>8 DEF Build

LEMMA CommonTargetKeeps ==
  ASSUME IInv, IntroduceCommonTarget
  PROVE  IInv'
<1>1. phase = "common" /\ next \in Nat /\ Good(tr, next)
  BY DEF IInv, TypeOK, IntroduceCommonTarget
<1>2. CASE HasCheck(tr) \/ Signals(tr) = {}
  <2>1. Reshape(tr, 0, "classes")
    BY <1>2 DEF IntroduceCommonTarget
  <2>2. next + 0 = next /\ 0 \in Nat
    BY <1>1
  <2>3. Ranged(tr, next + 0) /\ NoZigzag(tr)
    BY <1>1, <2>2 DEF Good, Composable
  <2> QED BY <2>1, <2>2, <2>3, ReshapeKeeps
<1>3. CASE ~(HasCheck(tr) \/ Signals(tr) = {})
  <2> DEFINE S == Signals(tr)
             n == Cardinality(S)
             taken == 5 + 2 * n
             m == next + taken
             p == [i \in 1 .. 3 |-> next + i]
             c == [i \in 1 .. 2 |-> next + 3 + i]
             at == Numbering(S, next + 5)
             end == Numbering(S, next + 5 + n)
             rel == CommonTarget(tr, p, c, at, end)
  <2>1. Reshape(rel, taken, "classes_of_common")
    BY <1>3 DEF IntroduceCommonTarget
  <2>2. IsFiniteSet(S)
    <3>1. S \subseteq tr.trans
      BY DEF Signals
    <3> HIDE DEF S
    <3> QED BY <1>1, <3>1, FS_Subset DEF Good, Ranged
  <2> HIDE DEF S
  <2>3. n \in Nat
    BY <2>2, FS_CardinalityType
  <2> HIDE DEF n
  <2>4. next + 5 \in Nat /\ next + 5 + n \in Nat /\ taken \in Nat /\ m \in Nat /\ next <= m
    BY <1>1, <2>3
  <2>5. \A t \in S : at[t] \in 1 .. m
    <3>1. \A t \in S : at[t] \in (next + 5) + 1 .. (next + 5) + Cardinality(S)
      BY <2>2, <2>4, NumberingIsFresh
    <3>2. \A i \in (next + 5) + 1 .. (next + 5) + n : i \in 1 .. m
      BY <1>1, <2>3
    <3> QED BY <3>1, <3>2 DEF n
  <2>6. \A t \in S : end[t] \in 1 .. m
    <3>1. \A t \in S : end[t] \in (next + 5 + n) + 1 .. (next + 5 + n) + Cardinality(S)
      BY <2>2, <2>4, NumberingIsFresh
    <3>2. \A i \in (next + 5 + n) + 1 .. (next + 5 + n) + n : i \in 1 .. m
      BY <1>1, <2>3
    <3> QED BY <3>1, <3>2 DEF n
  <2>7. /\ p[1] \in next + 1 .. m /\ p[2] \in next + 1 .. m /\ p[3] \in next + 1 .. m
        /\ c[1] \in 1 .. m /\ c[2] \in 1 .. m
    <3>1. p[1] = next + 1 /\ p[2] = next + 2 /\ p[3] = next + 3 /\ c[1] = next + 3 + 1 /\ c[2] = next + 3 + 2
      OBVIOUS
    <3> HIDE DEF p, c
    <3> QED BY <1>1, <2>3, <3>1
  <2> HIDE DEF p, c, at, end, m
  <2>8. Ranged(rel, m) /\ NoZigzag(rel)
    BY <1>1, <2>4, <2>5, <2>6, <2>7, CommonTargetRanged DEF S
  <2>9. Ranged(rel, next + taken)
    BY <2>8 DEF m
  <2> HIDE DEF rel, taken
  <2> QED BY <2>1, <2>4, <2>8, <2>9, ReshapeKeeps
<1> QED BY <1>2, <1>3

LEMMA MergeClassesKeeps ==
  ASSUME IInv, MergeClasses
  PROVE  IInv'
<1>1. /\ Classing /\ todo # {} /\ next \in Nat /\ Ranged(tr, next)
      /\ NoZigzag(tr) /\ ClassesOK(tr, equiv, todo) /\ todo \subseteq tr.locs
  BY DEF IInv, TypeOK, MergeClasses, Classing
<1>2. Candidates \subseteq todo
  <2>1. tr.locs \subseteq 1 .. next /\ IsFiniteSet(tr.locs)
    BY <1>1, RangedFacts DEF Ranged
  <2>2. todo \in SUBSET Nat /\ IsFiniteSet(todo)
    <3>1. 1 .. next \subseteq Nat
      OBVIOUS
    <3> QED BY <1>1, <2>1, <3>1, FS_Subset
  <2>3. Min(todo) \in todo /\ Max(todo) \in todo
    BY <1>1, <2>2, MinMaxOf
  <2> QED BY <2>3 DEF Candidates
<1>3. PICK l \in Candidates :
        LET closure == BiDirClosure(tr, l)
            members == closure \cup UNION {equiv[k].members : k \in closure}
            class   == [id |-> Min(members), members |-> members]
        IN /\ equiv' = [k \in tr.locs |-> IF k \in members THEN class ELSE equiv[k]]
           /\ todo' = todo \ members
  BY DEF MergeClasses
<1>4. l \in tr.locs
  BY <1>1, <1>2
<1> DEFINE C == BiDirClosure(tr, l)
           D == C \cup UNION {equiv[k].members : k \in C}
<1>5. /\ equiv' = [k \in tr.locs |-> IF k \in D THEN [id |-> Min(D), members |-> D] ELSE equiv[k]]
      /\ todo' = todo \ D
  BY <1>3
<1>6. UNCHANGED <<stack, size, next, phase, way, tr, means>>
  BY DEF MergeClasses
<1>7. l \in C /\ C \in SUBSET tr.locs
  BY <1>1, <1>4, SearchSettles
<1>8. Min(D) \in D
  <2>1. \A k \in tr.locs : equiv[k].members \in SUBSET tr.locs
    BY <1>1 DEF ClassesOK
  <2>2. tr.locs \subseteq 1 .. next /\ IsFiniteSet(tr.locs)
    BY <1>1, RangedFacts DEF Ranged
  <2> HIDE DEF C
  <2>3. D \subseteq tr.locs /\ D # {}
    BY <1>7, <2>1
  <2> HIDE DEF D
  <2>4. D \in SUBSET Nat /\ IsFiniteSet(D)
    <3>1. 1 .. next \subseteq Nat
      OBVIOUS
    <3> QED BY <2>2, <2>3, <3>1, FS_Subset
  <2> QED BY <2>3, <2>4, MinMaxOf
<1>9. ClassesOK(tr, equiv', todo')
  <2>1. Min(D) \in Met(tr, equiv, l)
    BY <1>8 DEF Met
  <2>2. ClassesOK(tr, Reclassed(tr, equiv, Met(tr, equiv, l), Min(D)), todo \ Met(tr, equiv, l))
    <3> DEFINE name == Min(D)
    <3>1. name \in Met(tr, equiv, l)
      BY <2>1
    <3> HIDE DEF name
    <3>2. ClassesOK(tr, Reclassed(tr, equiv, Met(tr, equiv, l), name), todo \ Met(tr, equiv, l))
      BY <1>1, <1>4, <3>1, ClassesStep
    <3> QED BY <3>2 DEF name
  <2>3. equiv' = Reclassed(tr, equiv, Met(tr, equiv, l), Min(D)) /\ todo' = todo \ Met(tr, equiv, l)
    BY <1>5 DEF Reclassed, Met
  <2> QED BY <2>2, <2>3
<1> HIDE DEF D
<1>10. Classing' /\ phase' \notin {"build", "common", "merge", "between", "done"}
  BY <1>1, <1>6 DEF Classing
<1>11. todo' \subseteq tr'.locs
  BY <1>1, <1>5, <1>6
<1>12. TypeOK'
  BY <1>6, <1>11 DEF IInv, TypeOK
<1>13. InShape'
  BY <1>10 DEF InShape
<1>14. Ranged(tr, next)' /\ NoZigzag(tr)' /\ ClassesOK(tr, equiv, todo)'
  BY <1>1, <1>6, <1>9
<1> QED BY <1>10, <1>12, <1>13, <1>14 DEF IInv

LEMMA EliminateKeeps ==
  ASSUME IInv, EliminateEpsilons
  PROVE  IInv'
<1> DEFINE id == [l \in tr.locs |-> equiv[l].id]
           rel == Rebuilt(tr, id)
           after == CASE phase = "classes_of_common" -> "classes"
                      [] way = "check"               -> "done"
                      [] OTHER                       -> "entry"
<1>1. Reshape(rel, 0, after)
  BY DEF EliminateEpsilons
<1>2. Classing /\ next \in Nat /\ Ranged(tr, next) /\ ClassesOK(tr, equiv, todo)
  BY DEF IInv, TypeOK, EliminateEpsilons, Classing
<1>3. \A l \in tr.locs : id[l] \in tr.locs
  BY <1>2 DEF ClassesOK
<1> HIDE DEF id
<1>4. Ranged(rel, next + 0) /\ NoZigzag(rel)
  <2>1. Ranged(rel, next) /\ NoZigzag(rel)
    BY <1>2, <1>3, RebuiltRanged
  <2>2. next + 0 = next
    BY <1>2
  <2> QED BY <2>1, <2>2
<1>5. after \in {"classes", "done", "entry"} /\ (after = "done" => way = "check")
  BY DEF Classing
<1> HIDE DEF rel, after
<1>6. /\ 0 \in Nat
      /\ after \in {"classes", "classes_of_common", "entry", "merge", "between", "done"}
      /\ after \notin {"merge", "between"} /\ after # "between"
      /\ ~(after = "done" /\ way # "check")
  BY <1>5
<1> QED BY <1>1, <1>4, <1>6, ReshapeKeeps

LEMMA EntryExitKeeps ==
  ASSUME IInv, EntryExit
  PROVE  IInv'
<1> DEFINE S == ReplacedExits(tr)
           taken == 1 + Cardinality(S)
           new == Numbering(S, next + 1)
           rel == IntroduceEntryExit(tr, next + 1, new)
           m == next + taken
<1>1. Reshape(rel, taken, "merge")
  BY DEF EntryExit
<1>2. next \in Nat /\ Ranged(tr, next) /\ next + 1 \in Nat
  BY DEF IInv, TypeOK
<1>3. IsFiniteSet(S)
  <2>1. S \subseteq tr.exit /\ IsFiniteSet(tr.exit)
    BY <1>2, RangedFacts DEF ReplacedExits
  <2> HIDE DEF S
  <2> QED BY <2>1, FS_Subset
<1> HIDE DEF S
<1>4. Cardinality(S) \in Nat /\ \A l \in S : new[l] \in (next + 1) + 1 .. (next + 1) + Cardinality(S)
  BY <1>2, <1>3, NumberingIsFresh
<1> HIDE DEF new
<1>5. m \in Nat /\ next < m /\ taken \in Nat /\ (next + 1) + 1 = next + 2 /\ (next + 1) + Cardinality(S) = m
  BY <1>2, <1>4
<1> HIDE DEF taken, m
<1>6. \A l \in S : new[l] \in next + 2 .. m
  BY <1>4, <1>5
<1>7. Ranged(rel, m) /\ EntryOnly(rel)
  BY <1>2, <1>5, <1>6, EntryExitRanged DEF S
<1> HIDE DEF rel
<1>8. Ranged(rel, next + taken)
  BY <1>7 DEF m
<1> QED BY <1>1, <1>5, <1>7, <1>8, ReshapeKeeps

LEMMA ToMergeKeeps ==
  ASSUME IInv, ToMerge
  PROVE  IInv'
<1> DEFINE S == Direct(tr)
           taken == Cardinality(S)
           mid == Numbering(S, next)
           rel == IntroduceToMerge(tr, mid)
           m == next + taken
<1>1. Reshape(rel, taken, "between")
  BY DEF ToMerge
<1>2. next \in Nat /\ Ranged(tr, next) /\ EntryOnly(tr) /\ Typed(tr, Ops) /\ tr.locs \in SUBSET (1 .. next)
  BY DEF IInv, TypeOK, ToMerge, Ranged
<1>3. IsFiniteSet(S)
  <2>1. S \subseteq tr.trans /\ IsFiniteSet(tr.trans)
    BY <1>2 DEF Direct, Ranged
  <2> HIDE DEF S
  <2> QED BY <2>1, FS_Subset
<1> HIDE DEF S
<1>4. /\ FreshFor(mid, S, tr.locs)
      /\ taken \in Nat
      /\ \A t \in S : mid[t] \in next + 1 .. m
  BY <1>2, <1>3, NumberingFreshFor
<1> HIDE DEF mid, taken
<1>5. m \in Nat /\ next <= m
  BY <1>2, <1>4
<1> HIDE DEF m
<1>6. Ranged(rel, m) /\ EntryOnly(rel)
  BY <1>2, <1>4, <1>5, ToMergeRanged DEF S
<1>7. MergesEnteredStraight(rel)
  BY <1>2, <1>4, ToMergeStraightens DEF S
<1> HIDE DEF rel
<1>8. Ranged(rel, next + taken)
  BY <1>6 DEF m
<1> QED BY <1>1, <1>4, <1>6, <1>7, <1>8, ReshapeKeeps

LEMMA BetweenKeeps ==
  ASSUME IInv, Between
  PROVE  IInv'
<1> DEFINE S == Both(tr)
           taken == Cardinality(S)
           mid == Numbering(S, next)
           rel == IntroduceBetween(tr, mid)
           m == next + taken
<1>1. Reshape(rel, taken, "done")
  BY DEF Between
<1>2. /\ next \in Nat /\ Ranged(tr, next) /\ EntryOnly(tr) /\ Typed(tr, Ops)
      /\ tr.locs \in SUBSET (1 .. next) /\ MergesEnteredStraight(tr)
  BY DEF IInv, TypeOK, Between, Ranged
<1>3. IsFiniteSet(S)
  <2>1. S \subseteq tr.locs /\ IsFiniteSet(tr.locs)
    BY <1>2, RangedFacts DEF Both
  <2> HIDE DEF S
  <2> QED BY <2>1, FS_Subset
<1> HIDE DEF S
<1>4. /\ FreshFor(mid, S, tr.locs)
      /\ taken \in Nat
      /\ \A l \in S : mid[l] \in next + 1 .. m
  BY <1>2, <1>3, NumberingFreshFor
<1> HIDE DEF mid, taken
<1>5. m \in Nat /\ next <= m
  BY <1>2, <1>4
<1> HIDE DEF m
<1>6. Ranged(rel, m) /\ EntryOnly(rel)
  BY <1>2, <1>4, <1>5, BetweenRanged DEF S
<1>7. MergesEnteredStraight(rel) /\ Separated(rel)
  BY <1>2, <1>4, BetweenKeepsStraight, BetweenSeparates DEF S
<1> HIDE DEF rel
<1>8. Ranged(rel, next + taken)
  BY <1>6 DEF m
<1> QED BY <1>1, <1>4, <1>6, <1>7, <1>8, ReshapeKeeps

LEMMA StutterKeeps ==
  ASSUME IInv, UNCHANGED vars
  PROVE  IInv'
BY DEF IInv, vars, TypeOK, InShape, Classing

LEMMA IInvInductive == Spec => []IInv
<1>1. IInv /\ [Next]_vars => IInv'
  <2> SUFFICES ASSUME IInv, [Next]_vars PROVE IInv'
    OBVIOUS
  <2>1. CASE Visit
    BY <2>1, VisitKeeps
  <2>2. CASE Build
    BY <2>2, BuildKeeps
  <2>3. CASE Shape
    BY <2>3, CommonTargetKeeps, MergeClassesKeeps, EliminateKeeps, EntryExitKeeps, ToMergeKeeps,
       BetweenKeeps DEF Shape
  <2>4. CASE UNCHANGED vars
    BY <2>4, StutterKeeps
  <2> QED BY <2>1, <2>2, <2>3, <2>4 DEF Next
<1> QED BY IInit, <1>1, PTL DEF Spec

(* The variables have their types, whatever the program: each transition leads *)
(* from a location of the relation to one of them, and what a step takes as a  *)
(* new location has not been taken before (ControlLocation.fresh).            *)
THEOREM TypeCorrect == Spec => []TypeOK
<1>1. IInv => TypeOK
  BY DEF IInv
<1> QED BY IInvInductive, <1>1, PTL

(* The relation of every script and method, of any size, gets the shape that   *)
(* establishAnalysisInvariants promises: no location merges and branches, only *)
(* straight lines lead to merges, and nothing leads to the one entry.         *)
THEOREM ShapeOfAllPrograms == Spec => []InShape
<1>1. IInv => InShape
  BY DEF IInv
<1> QED BY IInvInductive, <1>1, PTL

(* buildEquivalenceClasses finds the components that epsilon transitions       *)
(* connect, in any order of the locations, although each search goes only      *)
(* forwards and only backwards: in a relation that was built, no epsilon       *)
(* transition is in the middle of a zigzag.                                  *)
THEOREM ClassesAreComponents == Spec => []ClassesComplete
<1>1. IInv => ClassesComplete
  <2> SUFFICES ASSUME IInv, phase \in {"classes", "classes_of_common"}, todo = {}, NEW l \in tr.locs
               PROVE  equiv[l].members = Component(tr, l)
    BY DEF ClassesComplete
  <2>1. next \in Nat /\ Ranged(tr, next) /\ NoZigzag(tr) /\ ClassesOK(tr, equiv, {})
    BY DEF IInv, TypeOK, Classing
  <2> QED BY <2>1, ClassesEnd
<1> QED BY IInvInductive, <1>1, PTL
=============================================================================
