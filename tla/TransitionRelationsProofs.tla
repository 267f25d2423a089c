---------------------- MODULE TransitionRelationsProofs ----------------------
(***************************************************************************)
(* The shape that introduceEpsilonToMergeTransitions and                      *)
(* introduceEpsilonBetweenMergeAndBranchLocs give to a transition relation,    *)
(* for every relation.                                                       *)
(***************************************************************************)
EXTENDS TransitionRelations, TLAPS, FiniteSetTheorems, WellFoundedInduction

Typed(tr, Ops) ==
  /\ DOMAIN tr = {"trans", "locs", "entry", "exit"}
  /\ IrreducibleEpsilon \in Ops
  /\ tr.trans \subseteq [from : tr.locs, op : Ops, to : tr.locs]

(* mid names a new location for each element of S. *)
FreshFor(mid, S, L) ==
  /\ \A x \in S : mid[x] \notin L
  /\ \A x, y \in S : mid[x] = mid[y] => x = y

(* No location merges and branches. *)
Separated(tr) == \A l : ~(Merges(tr, l) /\ Branches(tr, l))

(* Only what neither merges nor branches leads to a merge.                   *)
MergesEnteredStraight(tr) ==
  \A t \in tr.trans : Merges(tr, t.to) => ~Merges(tr, t.from) /\ ~Branches(tr, t.from)

-----------------------------------------------------------------------------
(* IntroduceBetween. *)

(* The transitions that come to the relation, and where those that stay were. *)
LEMMA BetweenTransitions ==
  ASSUME NEW Ops, NEW tr, Typed(tr, Ops), NEW mid,
         NEW t \in IntroduceBetween(tr, mid).trans
  PROVE  \/ t \in tr.trans /\ t.from \notin Both(tr)
         \/ \E l \in Both(tr) : t = Trans(l, IrreducibleEpsilon, mid[l])
         \/ \E s \in tr.trans : s.from \in Both(tr) /\ t = Trans(mid[s.from], s.op, s.to)
BY DEF IntroduceBetween, Typed

LEMMA TransFields ==
  ASSUME NEW l, NEW op, NEW k
  PROVE  Trans(l, op, k).from = l /\ Trans(l, op, k).op = op /\ Trans(l, op, k).to = k
BY DEF Trans

(* A new location has one transition into it, one of both has one out of it.  *)
LEMMA BetweenNew ==
  ASSUME NEW Ops, NEW tr, Typed(tr, Ops), NEW mid, FreshFor(mid, Both(tr), tr.locs)
  PROVE  /\ \A k \in Both(tr) : ~Merges(IntroduceBetween(tr, mid), mid[k])
         /\ \A k \in Both(tr) : ~Branches(IntroduceBetween(tr, mid), k)
<1> DEFINE R == IntroduceBetween(tr, mid)
<1>1. Both(tr) \subseteq tr.locs
  BY DEF Both
<1>2. \A s \in tr.trans : s.from \in tr.locs /\ s.to \in tr.locs
  BY DEF Typed
<1> HIDE DEF R
<1>3. ASSUME NEW k \in Both(tr), NEW t \in R.trans, t.to = mid[k]
      PROVE  t = Trans(k, IrreducibleEpsilon, mid[k])
  <2>1. t.to \notin tr.locs
    BY <1>3 DEF FreshFor
  <2>2. PICK l \in Both(tr) : t = Trans(l, IrreducibleEpsilon, mid[l])
    BY <1>2, <2>1, BetweenTransitions, TransFields DEF R
  <2>3. mid[l] = mid[k]
    BY <1>3, <2>2, TransFields
  <2> QED BY <2>2, <2>3 DEF FreshFor
<1>4. ASSUME NEW k \in Both(tr), NEW t \in R.trans, t.from = k
      PROVE  t = Trans(k, IrreducibleEpsilon, mid[k])
  BY <1>1, <1>2, <1>4, BetweenTransitions, TransFields DEF R, FreshFor
<1>5. \A k \in Both(tr) : ~Merges(R, mid[k])
  BY <1>3 DEF Merges, Into
<1>6. \A k \in Both(tr) : ~Branches(R, k)
  BY <1>4 DEF Branches, From
<1> QED BY <1>5, <1>6 DEF R

(* A location of the relation merges, or branches, only if it did.            *)
LEMMA BetweenOld ==
  ASSUME NEW Ops, NEW tr, Typed(tr, Ops), NEW mid, FreshFor(mid, Both(tr), tr.locs),
         NEW l, \A k \in Both(tr) : l # mid[k]
  PROVE  /\ Merges(IntroduceBetween(tr, mid), l) => Merges(tr, l)
         /\ Branches(IntroduceBetween(tr, mid), l) => Branches(tr, l)
<1> DEFINE R == IntroduceBetween(tr, mid)
<1> HIDE DEF R
<1>1. ASSUME NEW t \in R.trans, t.to = l
      PROVE  \/ t \in tr.trans /\ t.from \notin Both(tr)
             \/ \E s \in tr.trans : /\ s.from \in Both(tr) /\ s.to = l
                                    /\ t = Trans(mid[s.from], s.op, s.to)
  BY <1>1, BetweenTransitions, TransFields DEF R
<1>2. ASSUME Merges(R, l) PROVE Merges(tr, l)
  <2>1. PICK t \in R.trans, u \in R.trans : t.to = l /\ u.to = l /\ t # u
    BY <1>2 DEF Merges, Into
  <2>2. CASE t \in tr.trans /\ t.from \notin Both(tr) /\ u \in tr.trans
    BY <2>1, <2>2 DEF Merges, Into
  <2>3. CASE t \in tr.trans /\ t.from \notin Both(tr) /\ ~(u \in tr.trans /\ u.from \notin Both(tr))
    <3>1. PICK s \in tr.trans : s.from \in Both(tr) /\ s.to = l
      BY <1>1, <2>1, <2>3
    <3> QED BY <2>1, <2>3, <3>1 DEF Merges, Into
  <2>4. CASE ~(t \in tr.trans /\ t.from \notin Both(tr)) /\ u \in tr.trans /\ u.from \notin Both(tr)
    <3>1. PICK s \in tr.trans : s.from \in Both(tr) /\ s.to = l
      BY <1>1, <2>1, <2>4
    <3> QED BY <2>1, <2>4, <3>1 DEF Merges, Into
  <2>5. CASE /\ ~(t \in tr.trans /\ t.from \notin Both(tr))
             /\ ~(u \in tr.trans /\ u.from \notin Both(tr))
    <3>1. PICK s \in tr.trans : s.to = l /\ t = Trans(mid[s.from], s.op, s.to)
      BY <1>1, <2>1, <2>5
    <3>2. PICK v \in tr.trans : v.to = l /\ u = Trans(mid[v.from], v.op, v.to)
      BY <1>1, <2>1, <2>5
    <3>3. s # v
      BY <2>1, <3>1, <3>2
    <3> QED BY <3>1, <3>2, <3>3 DEF Merges, Into
  <2> QED BY <2>2, <2>3, <2>4, <2>5
<1>3. ASSUME Branches(R, l) PROVE Branches(tr, l)
  <2>1. PICK t \in R.trans, u \in R.trans : t.from = l /\ u.from = l /\ t # u
    BY <1>3 DEF Branches, From
  <2>2. l \notin Both(tr)
    BY <1>3, BetweenNew DEF R
  <2>3. t \in tr.trans /\ u \in tr.trans
    BY <2>1, <2>2, BetweenTransitions, TransFields DEF R
  <2> QED BY <2>1, <2>3 DEF Branches, From
<1> QED BY <1>2, <1>3 DEF R

LEMMA MergesIsIn ==
  ASSUME NEW Ops, NEW tr, Typed(tr, Ops), NEW l, Merges(tr, l)
  PROVE  l \in tr.locs
BY DEF Merges, Into, Typed

LEMMA BetweenSeparates ==
  ASSUME NEW Ops, NEW tr, Typed(tr, Ops), NEW mid, FreshFor(mid, Both(tr), tr.locs)
  PROVE  Separated(IntroduceBetween(tr, mid))
<1> SUFFICES ASSUME NEW l, Merges(IntroduceBetween(tr, mid), l), Branches(IntroduceBetween(tr, mid), l)
             PROVE  FALSE
  BY DEF Separated
<1>1. l \notin Both(tr) /\ \A k \in Both(tr) : l # mid[k]
  BY BetweenNew
<1>2. Merges(tr, l) /\ Branches(tr, l)
  BY <1>1, BetweenOld
<1> QED BY <1>1, <1>2, MergesIsIn DEF Both

LEMMA BetweenKeepsStraight ==
  ASSUME NEW Ops, NEW tr, Typed(tr, Ops), NEW mid, FreshFor(mid, Both(tr), tr.locs),
         MergesEnteredStraight(tr)
  PROVE  MergesEnteredStraight(IntroduceBetween(tr, mid))
<1> DEFINE R == IntroduceBetween(tr, mid)
<1> HIDE DEF R
<1> SUFFICES ASSUME NEW t \in R.trans, Merges(R, t.to) PROVE ~Merges(R, t.from) /\ ~Branches(R, t.from)
  BY DEF MergesEnteredStraight, R
<1>1. \A k \in Both(tr) : t.to # mid[k]
  BY BetweenNew DEF R
<1>2. Merges(tr, t.to)
  BY <1>1, BetweenOld DEF R
<1>3. ~\E s \in tr.trans : s.from \in Both(tr) /\ t = Trans(mid[s.from], s.op, s.to)
  <2> SUFFICES ASSUME NEW s \in tr.trans, s.from \in Both(tr), s.to = t.to PROVE FALSE
    BY TransFields
  <2> QED BY <1>2 DEF MergesEnteredStraight, Both
<1>4. t \in tr.trans /\ t.from \notin Both(tr)
  BY <1>1, <1>3, BetweenTransitions, TransFields DEF R
<1>5. \A k \in Both(tr) : t.from # mid[k]
  BY <1>4 DEF FreshFor, Typed
<1> QED BY <1>2, <1>4, <1>5, BetweenOld DEF MergesEnteredStraight, R

-----------------------------------------------------------------------------
(* IntroduceToMerge. *)

LEMMA ToMergeTransitions ==
  ASSUME NEW Ops, NEW tr, Typed(tr, Ops), NEW mid,
         NEW t \in IntroduceToMerge(tr, mid).trans
  PROVE  \/ t \in tr.trans \ Direct(tr)
         \/ \E s \in Direct(tr) : t = Trans(s.from, s.op, mid[s])
         \/ \E s \in Direct(tr) : t = Trans(mid[s], IrreducibleEpsilon, s.to)
BY DEF IntroduceToMerge, Typed

LEMMA ToMergeTyped ==
  ASSUME NEW Ops, NEW tr, Typed(tr, Ops), NEW mid
  PROVE  Typed(IntroduceToMerge(tr, mid), Ops)
<1> DEFINE R == IntroduceToMerge(tr, mid)
<1>1. DOMAIN R = {"trans", "locs", "entry", "exit"}
  BY DEF Typed, IntroduceToMerge
<1>2. R.locs = tr.locs \cup {mid[s] : s \in Direct(tr)}
  BY DEF Typed, IntroduceToMerge
<1> HIDE DEF R
<1>3. Direct(tr) \subseteq tr.trans
  BY DEF Direct
<1>4. ASSUME NEW t \in R.trans PROVE t \in [from : R.locs, op : Ops, to : R.locs]
  <2>1. CASE t \in tr.trans \ Direct(tr)
    BY <1>2, <2>1 DEF Typed
  <2>2. CASE \E s \in Direct(tr) : t = Trans(s.from, s.op, mid[s])
    BY <1>2, <1>3, <2>2 DEF Typed, Trans
  <2>3. CASE \E s \in Direct(tr) : t = Trans(mid[s], IrreducibleEpsilon, s.to)
    BY <1>2, <1>3, <2>3 DEF Typed, Trans
  <2> QED BY <1>4, <2>1, <2>2, <2>3, ToMergeTransitions DEF R
<1> QED BY <1>1, <1>4 DEF Typed, R

(* A new location neither merges nor branches. *)
LEMMA ToMergeNew ==
  ASSUME NEW Ops, NEW tr, Typed(tr, Ops), NEW mid, FreshFor(mid, Direct(tr), tr.locs),
         NEW s \in Direct(tr)
  PROVE  ~Merges(IntroduceToMerge(tr, mid), mid[s]) /\ ~Branches(IntroduceToMerge(tr, mid), mid[s])
<1> DEFINE R == IntroduceToMerge(tr, mid)
<1> HIDE DEF R
<1>1. \A u \in tr.trans : u.from \in tr.locs /\ u.to \in tr.locs
  BY DEF Typed
<1>2. Direct(tr) \subseteq tr.trans
  BY DEF Direct
<1>3. ASSUME NEW t \in R.trans, t.to = mid[s] PROVE t = Trans(s.from, s.op, mid[s])
  <2>1. PICK u \in Direct(tr) : t = Trans(u.from, u.op, mid[u])
    BY <1>1, <1>2, <1>3, ToMergeTransitions, TransFields DEF R, FreshFor
  <2>2. u = s
    BY <1>3, <2>1, TransFields DEF FreshFor
  <2> QED BY <2>1, <2>2
<1>4. ASSUME NEW t \in R.trans, t.from = mid[s] PROVE t = Trans(mid[s], IrreducibleEpsilon, s.to)
  <2>1. PICK u \in Direct(tr) : t = Trans(mid[u], IrreducibleEpsilon, u.to)
    BY <1>1, <1>2, <1>4, ToMergeTransitions, TransFields DEF R, FreshFor
  <2>2. u = s
    BY <1>4, <2>1, TransFields DEF FreshFor
  <2> QED BY <2>1, <2>2
<1> QED BY <1>3, <1>4 DEF Merges, Into, Branches, From, R

(* A location of the relation merges, or branches, only if it did.            *)
LEMMA ToMergeOld ==
  ASSUME NEW Ops, NEW tr, Typed(tr, Ops), NEW mid, FreshFor(mid, Direct(tr), tr.locs),
         NEW l \in tr.locs
  PROVE  /\ Merges(IntroduceToMerge(tr, mid), l) => Merges(tr, l)
         /\ Branches(IntroduceToMerge(tr, mid), l) => Branches(tr, l)
<1> DEFINE R == IntroduceToMerge(tr, mid)
           enters(t, s) == IF s \in Direct(tr) THEN t = Trans(mid[s], IrreducibleEpsilon, s.to)
                                                ELSE t = s
           leaves(t, s) == IF s \in Direct(tr) THEN t = Trans(s.from, s.op, mid[s])
                                                ELSE t = s
<1> HIDE DEF R
<1>1. Direct(tr) \subseteq tr.trans
  BY DEF Direct
<1>2. ASSUME NEW t \in R.trans, t.to = l PROVE \E s \in tr.trans : s.to = l /\ enters(t, s)
  BY <1>1, <1>2, ToMergeTransitions, TransFields DEF R, FreshFor
<1>3. ASSUME NEW t \in R.trans, t.from = l PROVE \E s \in tr.trans : s.from = l /\ leaves(t, s)
  BY <1>1, <1>3, ToMergeTransitions, TransFields DEF R, FreshFor
<1>4. ASSUME Merges(R, l) PROVE Merges(tr, l)
  <2>1. PICK t \in R.trans, u \in R.trans : t.to = l /\ u.to = l /\ t # u
    BY <1>4 DEF Merges, Into
  <2>2. PICK s \in tr.trans : s.to = l /\ enters(t, s)
    BY <1>2, <2>1
  <2>3. PICK v \in tr.trans : v.to = l /\ enters(u, v)
    BY <1>2, <2>1
  <2>4. s # v
    BY <2>1, <2>2, <2>3
  <2> QED BY <2>2, <2>3, <2>4 DEF Merges, Into
<1>5. ASSUME Branches(R, l) PROVE Branches(tr, l)
  <2>1. PICK t \in R.trans, u \in R.trans : t.from = l /\ u.from = l /\ t # u
    BY <1>5 DEF Branches, From
  <2>2. PICK s \in tr.trans : s.from = l /\ leaves(t, s)
    BY <1>3, <2>1
  <2>3. PICK v \in tr.trans : v.from = l /\ leaves(u, v)
    BY <1>3, <2>1
  <2>4. s # v
    BY <2>1, <2>2, <2>3
  <2> QED BY <2>2, <2>3, <2>4 DEF Branches, From
<1> QED BY <1>4, <1>5 DEF R

LEMMA ToMergeStraightens ==
  ASSUME NEW Ops, NEW tr, Typed(tr, Ops), NEW mid, FreshFor(mid, Direct(tr), tr.locs)
  PROVE  MergesEnteredStraight(IntroduceToMerge(tr, mid))
<1> DEFINE R == IntroduceToMerge(tr, mid)
<1> HIDE DEF R
<1> SUFFICES ASSUME NEW t \in R.trans, Merges(R, t.to) PROVE ~Merges(R, t.from) /\ ~Branches(R, t.from)
  BY DEF MergesEnteredStraight, R
<1>1. CASE t \in tr.trans \ Direct(tr)
  <2>1. t.from \in tr.locs /\ t.to \in tr.locs
    BY <1>1 DEF Typed
  <2>2. Merges(tr, t.to)
    BY <2>1, ToMergeOld DEF R
  <2>3. ~Merges(tr, t.from) /\ ~Branches(tr, t.from)
    BY <1>1, <2>2 DEF Direct
  <2> QED BY <2>1, <2>3, ToMergeOld DEF R
<1>2. CASE \E s \in Direct(tr) : t = Trans(s.from, s.op, mid[s])
  BY <1>2, ToMergeNew, TransFields DEF R
<1>3. CASE \E s \in Direct(tr) : t = Trans(mid[s], IrreducibleEpsilon, s.to)
  BY <1>3, ToMergeNew, TransFields DEF R
<1> QED BY <1>1, <1>2, <1>3, ToMergeTransitions DEF R

-----------------------------------------------------------------------------
(* Every relation that establishAnalysisInvariants returns has the shape that *)
(* the analyses rely on, whatever the relation was before: no location merges *)
(* and branches, and what leads to a merge does neither                      *)
(* (introduceEpsilonToMergeTransitions, then                                 *)
(* introduceEpsilonBetweenMergeAndBranchLocs).                               *)
THEOREM ShapeEstablished ==
  ASSUME NEW Ops, NEW tr, Typed(tr, Ops),
         NEW mid, FreshFor(mid, Direct(tr), tr.locs),
         NEW mid2, FreshFor(mid2, Both(IntroduceToMerge(tr, mid)), IntroduceToMerge(tr, mid).locs)
  PROVE  /\ Separated(IntroduceBetween(IntroduceToMerge(tr, mid), mid2))
         /\ MergesEnteredStraight(IntroduceBetween(IntroduceToMerge(tr, mid), mid2))
<1>1. Typed(IntroduceToMerge(tr, mid), Ops)
  BY ToMergeTyped
<1>2. MergesEnteredStraight(IntroduceToMerge(tr, mid))
  BY ToMergeStraightens
<1> QED BY <1>1, <1>2, BetweenSeparates, BetweenKeepsStraight

-----------------------------------------------------------------------------
(* What is defined by recursion exists. *)

LEMMA LeastElement ==
  ASSUME NEW S \in SUBSET Nat, S # {}
  PROVE  \E m \in S : \A k \in S : m <= k
<1>1. PICK m \in S : \A k \in S : ~(<<k, m>> \in OpToRel(<, Nat))
  BY NatLessThanWellFounded, WFMin
<1>2. \A k \in S : ~(k < m)
  BY <1>1 DEF OpToRel
<1> QED BY <1>2

LEMMA GreatestElement ==
  ASSUME NEW S \in SUBSET Nat, S # {}, IsFiniteSet(S)
  PROVE  \E m \in S : \A k \in S : k <= m
<1> DEFINE HasNone(T) == T # {} /\ ~\E m \in T : \A k \in T : k <= m
           Bad == {n \in Nat : \E T \in SUBSET S : HasNone(T) /\ Cardinality(T) = n}
<1>1. \A T \in SUBSET S : IsFiniteSet(T) /\ Cardinality(T) \in Nat
  BY FS_Subset, FS_CardinalityType
<1> SUFFICES ASSUME HasNone(S) PROVE FALSE
  OBVIOUS
<1>2. Bad \in SUBSET Nat /\ Bad # {}
  BY <1>1
<1>3. PICK n \in Bad : \A k \in Bad : n <= k
  <2> HIDE DEF Bad
  <2> QED BY <1>2, LeastElement
<1>4. PICK T \in SUBSET S : HasNone(T) /\ Cardinality(T) = n
  OBVIOUS
<1>5. PICK x \in T : TRUE
  BY <1>4
<1>6. Cardinality(T \ {x}) = n - 1 /\ n \in Nat
  BY <1>1, <1>4, FS_RemoveElement
<1>7. ~HasNone(T \ {x})
  <2>1. T \ {x} \in SUBSET S
    OBVIOUS
  <2>2. ~(n <= n - 1) /\ Cardinality(T \ {x}) \in Nat
    BY <1>1, <1>6, <2>1
  <2> QED BY <1>3, <1>6, <2>1, <2>2
<1>8. CASE T \ {x} = {}
  BY <1>4, <1>5, <1>8
<1>9. CASE \E m \in T \ {x} : \A k \in T \ {x} : k <= m
  <2>1. PICK m \in T \ {x} : \A k \in T \ {x} : k <= m
    BY <1>9
  <2>2. m \in Nat /\ x \in Nat /\ \A k \in T : k \in Nat
    BY <1>5
  <2>3. CASE x <= m
    BY <1>4, <2>1, <2>2, <2>3
  <2>4. CASE ~(x <= m)
    <3>1. \A k \in T : k <= x
      BY <2>1, <2>2, <2>4
    <3> QED BY <1>4, <1>5, <3>1
  <2> QED BY <2>3, <2>4
<1> QED BY <1>7, <1>8, <1>9

(* The first n steps from x with the function F.                             *)
FirstSteps(X, x, F, n, f) ==
  f \in [0 .. n -> X] /\ f[0] = x /\ \A i \in 1 .. n : f[i] = F[f[i - 1]]

LEMMA FirstStepsExist ==
  ASSUME NEW X, NEW x \in X, NEW F \in [X -> X], NEW n \in Nat
  PROVE  \E f : FirstSteps(X, x, F, n, f)
<1> DEFINE Bad == {m \in Nat : ~\E f : FirstSteps(X, x, F, m, f)}
<1> SUFFICES ASSUME Bad # {} PROVE FALSE
  OBVIOUS
<1>1. Bad \in SUBSET Nat
  OBVIOUS
<1>2. PICK m \in Bad : \A k \in Bad : m <= k
  <2> HIDE DEF Bad
  <2> QED BY <1>1, LeastElement
<1>3. m \in Nat /\ ~\E f : FirstSteps(X, x, F, m, f)
  OBVIOUS
<1>4. m # 0
  <2>1. FirstSteps(X, x, F, 0, [i \in 0 .. 0 |-> x])
    BY DEF FirstSteps
  <2> QED BY <2>1, <1>3
<1>5. m - 1 \in Nat /\ ~(m <= m - 1)
  BY <1>3, <1>4
<1>6. PICK f : FirstSteps(X, x, F, m - 1, f)
  BY <1>2, <1>5
<1> DEFINE g == [i \in 0 .. m |-> IF i = m THEN F[f[m - 1]] ELSE f[i]]
<1>7. f[m - 1] \in X /\ F[f[m - 1]] \in X
  BY <1>5, <1>6 DEF FirstSteps
<1>8. \A i \in 0 .. m : i # m => i \in 0 .. m - 1
  BY <1>3
<1>9. g \in [0 .. m -> X] /\ g[0] = x
  BY <1>3, <1>4, <1>6, <1>7, <1>8 DEF FirstSteps
<1>10. \A i \in 0 .. m - 1 : g[i] = f[i]
  BY <1>3
<1>11. g[m] = F[f[m - 1]]
  BY <1>3
<1> HIDE DEF g
<1>12. ASSUME NEW i \in 1 .. m PROVE g[i] = F[g[i - 1]]
  <2>1. i - 1 \in 0 .. m - 1 /\ g[i - 1] = f[i - 1]
    BY <1>3, <1>10
  <2>2. i # m => i \in 1 .. m - 1 /\ g[i] = f[i]
    BY <1>3, <1>10
  <2> QED BY <1>6, <1>11, <2>1, <2>2 DEF FirstSteps
<1> QED BY <1>3, <1>9, <1>12 DEF FirstSteps

LEMMA FirstStepsUnique ==
  ASSUME NEW X, NEW x \in X, NEW F \in [X -> X], NEW m \in Nat, NEW n \in Nat,
         NEW f, FirstSteps(X, x, F, m, f), NEW g, FirstSteps(X, x, F, n, g)
  PROVE  \A i \in 0 .. m : i <= n => f[i] = g[i]
<1> DEFINE Bad == {i \in 0 .. m : i <= n /\ f[i] # g[i]}
<1> SUFFICES ASSUME Bad # {} PROVE FALSE
  OBVIOUS
<1>1. Bad \in SUBSET Nat
  OBVIOUS
<1>2. PICK i \in Bad : \A k \in Bad : i <= k
  <2> HIDE DEF Bad
  <2> QED BY <1>1, LeastElement
<1>3. i # 0
  BY DEF FirstSteps
<1>4. i - 1 \in 0 .. m /\ i - 1 <= n /\ ~(i <= i - 1) /\ i \in 1 .. m /\ i \in 1 .. n
  BY <1>3
<1>5. f[i - 1] = g[i - 1]
  BY <1>2, <1>4
<1> QED BY <1>4, <1>5 DEF FirstSteps

AreSteps(X, x, F, g) == g \in [Nat -> X] /\ g[0] = x /\ \A n \in Nat : g[n + 1] = F[g[n]]

LEMMA Iterated ==
  ASSUME NEW X, NEW x \in X, NEW F \in [X -> X]
  PROVE  \E g : AreSteps(X, x, F, g)
<1> DEFINE P(n) == CHOOSE f : FirstSteps(X, x, F, n, f)
           g == [n \in Nat |-> P(n)[n]]
<1>1. \A n \in Nat : FirstSteps(X, x, F, n, P(n))
  BY FirstStepsExist
<1> HIDE DEF P
<1>2. g \in [Nat -> X]
  <2>1. \A n \in Nat : n \in 0 .. n
    OBVIOUS
  <2> QED BY <1>1, <2>1 DEF FirstSteps
<1>3. g[0] = x
  BY <1>1 DEF FirstSteps
<1>4. ASSUME NEW n \in Nat PROVE g[n + 1] = F[g[n]]
  <2>1. n + 1 \in Nat /\ n + 1 \in 1 .. n + 1 /\ (n + 1) - 1 = n /\ n \in 0 .. n /\ n <= n + 1
    OBVIOUS
  <2>2. P(n + 1)[n + 1] = F[P(n + 1)[n]]
    BY <1>1, <2>1 DEF FirstSteps
  <2>3. P(n)[n] = P(n + 1)[n]
    BY <1>1, <2>1, FirstStepsUnique
  <2> QED BY <2>1, <2>2, <2>3
<1> HIDE DEF g
<1> QED BY <1>2, <1>3, <1>4 DEF AreSteps

LEMMA StepForStep ==
  ASSUME NEW f, NEW g, f[0] = g[0],
         \A i \in Nat : f[i] = g[i] => f[i + 1] = g[i + 1]
  PROVE  \A i \in Nat : f[i] = g[i]
<1> DEFINE Bad == {i \in Nat : f[i] # g[i]}
<1> SUFFICES ASSUME Bad # {} PROVE FALSE
  OBVIOUS
<1>1. Bad \in SUBSET Nat
  OBVIOUS
<1>2. PICK i \in Bad : \A k \in Bad : i <= k
  <2> HIDE DEF Bad
  <2> QED BY <1>1, LeastElement
<1>3. i - 1 \in Nat /\ ~(i <= i - 1) /\ (i - 1) + 1 = i
  OBVIOUS
<1> QED BY <1>2, <1>3

-----------------------------------------------------------------------------
(* Closure returns what a location reaches.  R are the pairs of locations of  *)
(* which the first one leads to the second one, L all locations.             *)

Beyond(L, R, S) == {k \in L : \E l \in S : <<l, k>> \in R}

Round(L, R, r) ==
  [seen |-> r.seen \cup Beyond(L, R, r.new), new |-> Beyond(L, R, r.new) \ r.seen]

AreRounds(L, R, l, g) ==
  /\ g \in [Nat -> [seen : SUBSET L, new : SUBSET L]]
  /\ g[0] = [seen |-> {l}, new |-> {l}]
  /\ \A n \in Nat : g[n + 1] = Round(L, R, g[n])

IsClosed(L, R, M) == \A j \in M, k \in L : <<j, k>> \in R => k \in M

IsClosure(C, L, R, l) ==
  /\ l \in C
  /\ C \in SUBSET L
  /\ IsClosed(L, R, C)
  /\ \A M \in SUBSET L : l \in M /\ IsClosed(L, R, M) => C \subseteq M

LEMMA RoundsExist ==
  ASSUME NEW L, NEW R, NEW l \in L
  PROVE  \E g : AreRounds(L, R, l, g)
<1> DEFINE X == [seen : SUBSET L, new : SUBSET L]
           F == [r \in X |-> Round(L, R, r)]
           x == [seen |-> {l}, new |-> {l}]
<1>1. x \in X
  OBVIOUS
<1>2. \A r \in X : Round(L, R, r) \in X
  BY DEF Round, Beyond
<1>3. F \in [X -> X] /\ \A r \in X : F[r] = Round(L, R, r)
  BY <1>2
<1> HIDE DEF X, F, x
<1>4. PICK g : AreSteps(X, x, F, g)
  <2>1. F \in [X -> X]
    BY <1>3
  <2> QED BY <1>1, <2>1, Iterated, Zenon
<1>5. \A n \in Nat : g[n + 1] = Round(L, R, g[n])
  BY <1>3, <1>4 DEF AreSteps
<1> QED BY <1>4, <1>5 DEF AreSteps, AreRounds, X, x

LEMMA RoundsGrow ==
  ASSUME NEW L, IsFiniteSet(L), NEW R, NEW l \in L, NEW g, AreRounds(L, R, l, g), NEW n \in Nat
  PROVE  /\ l \in g[n].seen
         /\ g[n].new \subseteq g[n].seen
         /\ \A j \in g[n].seen \ g[n].new, k \in L : <<j, k>> \in R => k \in g[n].seen
         /\ g[n].new = {} \/ Cardinality(g[n].seen) > n
         /\ \A M \in SUBSET L : l \in M /\ IsClosed(L, R, M) => g[n].seen \subseteq M
<1> DEFINE Good(i) ==
             /\ l \in g[i].seen
             /\ g[i].new \subseteq g[i].seen
             /\ \A j \in g[i].seen \ g[i].new, k \in L : <<j, k>> \in R => k \in g[i].seen
             /\ g[i].new = {} \/ Cardinality(g[i].seen) > i
             /\ \A M \in SUBSET L : l \in M /\ IsClosed(L, R, M) => g[i].seen \subseteq M
           Bad == {i \in Nat : ~Good(i)}
<1>1. \A i \in Nat : g[i].seen \in SUBSET L /\ g[i].new \in SUBSET L
  BY DEF AreRounds
<1>2. Good(0)
  <2>1. g[0].seen = {l} /\ g[0].new = {l}
    BY DEF AreRounds
  <2>2. Cardinality({l}) = 1
    BY FS_Singleton
  <2> QED BY <2>1, <2>2
<1>3. ASSUME NEW i \in Nat, Good(i) PROVE Good(i + 1)
  <2> DEFINE new == Beyond(L, R, g[i].new) \ g[i].seen
  <2>1. g[i + 1].seen = g[i].seen \cup new /\ g[i + 1].new = new
    <3>1. g[i + 1] = Round(L, R, g[i])
      BY DEF AreRounds
    <3>2. g[i + 1].seen = g[i].seen \cup Beyond(L, R, g[i].new) /\ g[i + 1].new = new
      BY <3>1 DEF Round
    <3> HIDE DEF Beyond
    <3> QED BY <3>2
  <2>2. \A k \in L : k \in Beyond(L, R, g[i].new) <=> \E j \in g[i].new : <<j, k>> \in R
    BY DEF Beyond
  <2>3. new \subseteq L /\ new \cap g[i].seen = {}
    BY DEF Beyond
  <2> HIDE DEF new
  <2>4. \A j \in g[i].seen, k \in L : <<j, k>> \in R => k \in g[i].seen \cup new
    BY <1>3, <2>2 DEF new
  <2>5. ASSUME new # {} PROVE Cardinality(g[i].seen \cup new) > i + 1
    <3>1. g[i].new # {}
      BY <2>5 DEF new, Beyond
    <3>2. Cardinality(g[i].seen) > i
      BY <1>3, <3>1
    <3>3. IsFiniteSet(g[i].seen) /\ IsFiniteSet(g[i].seen \cup new)
      BY <1>1, <2>3, FS_Subset
    <3>4. PICK k \in new : TRUE
      BY <2>5
    <3>5. k \notin g[i].seen
      BY <2>3
    <3>6. Cardinality(g[i].seen \cup {k}) = Cardinality(g[i].seen) + 1
      BY <3>3, <3>5, FS_AddElement
    <3>7. Cardinality(g[i].seen \cup {k}) <= Cardinality(g[i].seen \cup new)
      BY <3>3, FS_Subset
    <3>8. Cardinality(g[i].seen) \in Nat /\ Cardinality(g[i].seen \cup new) \in Nat
      BY <3>3, FS_CardinalityType
    <3> QED BY <3>2, <3>6, <3>7, <3>8
  <2>6. ASSUME NEW M \in SUBSET L, l \in M, IsClosed(L, R, M) PROVE g[i].seen \cup new \subseteq M
    <3>1. g[i].seen \subseteq M
      BY <1>3, <2>6
    <3>2. \A k \in new : \E j \in g[i].new : <<j, k>> \in R
      BY <2>2, <2>3 DEF new
    <3>3. g[i].new \subseteq M
      BY <1>3, <3>1
    <3> QED BY <2>3, <2>6, <3>1, <3>2, <3>3 DEF IsClosed
  <2> QED BY <1>3, <2>1, <2>4, <2>5, <2>6
<1> SUFFICES ASSUME Bad # {} PROVE FALSE
  OBVIOUS
<1> HIDE DEF Good
<1>4. Bad \in SUBSET Nat
  OBVIOUS
<1>5. PICK i \in Bad : \A k \in Bad : i <= k
  <2> HIDE DEF Bad
  <2> QED BY <1>4, LeastElement
<1>6. i \in Nat /\ ~Good(i) /\ i # 0
  BY <1>2
<1>7. i - 1 \in Nat /\ ~(i <= i - 1) /\ (i - 1) + 1 = i
  BY <1>6
<1> QED BY <1>3, <1>5, <1>6, <1>7

LEMMA RoundsClose ==
  ASSUME NEW L, IsFiniteSet(L), NEW R, NEW l \in L, NEW g, AreRounds(L, R, l, g)
  PROVE  IsClosure(g[Cardinality(L)].seen, L, R, l)
<1> DEFINE n == Cardinality(L)
<1>1. n \in Nat
  BY FS_CardinalityType
<1>2. g[n].seen \in SUBSET L
  BY <1>1 DEF AreRounds
<1>3. Cardinality(g[n].seen) <= n /\ Cardinality(g[n].seen) \in Nat
  BY <1>2, FS_Subset, FS_CardinalityType
<1> HIDE DEF n
<1>4. g[n].new = {}
  <2>1. g[n].new = {} \/ Cardinality(g[n].seen) > n
    BY <1>1, RoundsGrow
  <2> QED BY <1>1, <1>3, <2>1
<1>5. IsClosed(L, R, g[n].seen)
  BY <1>1, <1>4, RoundsGrow DEF IsClosed
<1>6. /\ l \in g[n].seen
      /\ \A M \in SUBSET L : l \in M /\ IsClosed(L, R, M) => g[n].seen \subseteq M
  BY <1>1, RoundsGrow
<1> QED BY <1>2, <1>5, <1>6 DEF IsClosure, n

LEMMA RoundsAreClosure ==
  ASSUME NEW L, IsFiniteSet(L), NEW R, NEW l \in L, NEW r, r[0] = [seen |-> {l}, new |-> {l}],
         \A i \in Nat : r[i].new \in SUBSET L => r[i + 1] = Round(L, R, r[i])
  PROVE  IsClosure(r[Cardinality(L)].seen, L, R, l)
<1>1. PICK g : AreRounds(L, R, l, g)
  BY RoundsExist
<1>2. g[0] = r[0] /\ \A i \in Nat : g[i] = r[i] => g[i + 1] = r[i + 1]
  BY <1>1 DEF AreRounds
<1>3. \A i \in Nat : g[i] = r[i]
  BY <1>2, StepForStep
<1> QED BY <1>1, <1>3, RoundsClose, FS_CardinalityType

(* Epsilon transitions, along the arrows and against them.                   *)
Arrows(tr) == {<<t.from, t.to>> : t \in {u \in tr.trans : u.op = Epsilon}}
Backs(tr)  == {<<t.to, t.from>> : t \in {u \in tr.trans : u.op = Epsilon}}

Within(tr) == IsFiniteSet(tr.locs) /\ \A t \in tr.trans : t.from \in tr.locs /\ t.to \in tr.locs

LEMMA ForwardsClosure ==
  ASSUME NEW tr, Within(tr), NEW l \in tr.locs
  PROVE  IsClosure(Forwards(tr, l), tr.locs, Arrows(tr), l)
<1> DEFINE L == tr.locs
           R == Arrows(tr)
           base == [seen |-> {l}, new |-> {l}]
           step(r) == LET new == IF r.new = {} THEN {} ELSE EpsilonTargets(tr, r.new) \ r.seen
                      IN [seen |-> r.seen \cup new, new |-> new]
           all(h) == [i \in Nat |-> IF i = 0 THEN base ELSE step(h[i - 1])]
           rounds == CHOOSE h : h = all(h)
<1>1. Forwards(tr, l) = rounds[Cardinality(L)].seen
  BY DEF Forwards, Closure
<1>2. ASSUME NEW r, r.new \in SUBSET L PROVE step(r) = Round(L, R, r)
  <2>1. EpsilonTargets(tr, r.new) = Beyond(L, R, r.new)
    BY <1>2 DEF EpsilonTargets, Beyond, Arrows, Within
  <2>2. r.new = {} => Beyond(L, R, r.new) = {}
    BY DEF Beyond
  <2> QED BY <2>1, <2>2 DEF Round
<1> HIDE DEF step
<1>3. PICK g : AreRounds(L, R, l, g)
  BY RoundsExist
<1>4. g = all(g)
  <2>1. \A i \in Nat : i # 0 => i - 1 \in Nat /\ (i - 1) + 1 = i
    OBVIOUS
  <2>2. \A i \in Nat : g[i] = IF i = 0 THEN base ELSE step(g[i - 1])
    BY <1>2, <1>3, <2>1 DEF AreRounds
  <2>3. g = [i \in Nat |-> g[i]]
    BY <1>3 DEF AreRounds
  <2> QED BY <2>2, <2>3
<1>5. rounds = all(rounds)
  BY <1>4
<1> HIDE DEF rounds
<1>6. rounds[0] = base
  BY <1>5
<1>7. \A i \in Nat : rounds[i + 1] = step(rounds[i])
  <2>1. \A i \in Nat : i + 1 # 0 /\ i + 1 \in Nat /\ (i + 1) - 1 = i
    OBVIOUS
  <2> QED BY <1>5, <2>1
<1> QED BY <1>1, <1>2, <1>6, <1>7, RoundsAreClosure DEF Within

LEMMA BackwardsClosure ==
  ASSUME NEW tr, Within(tr), NEW l \in tr.locs
  PROVE  IsClosure(Backwards(tr, l), tr.locs, Backs(tr), l)
<1> DEFINE L == tr.locs
           R == Backs(tr)
           base == [seen |-> {l}, new |-> {l}]
           step(r) == LET new == IF r.new = {} THEN {} ELSE EpsilonSources(tr, r.new) \ r.seen
                      IN [seen |-> r.seen \cup new, new |-> new]
           all(h) == [i \in Nat |-> IF i = 0 THEN base ELSE step(h[i - 1])]
           rounds == CHOOSE h : h = all(h)
<1>1. Backwards(tr, l) = rounds[Cardinality(L)].seen
  BY DEF Backwards, Closure
<1>2. ASSUME NEW r, r.new \in SUBSET L PROVE step(r) = Round(L, R, r)
  <2>1. EpsilonSources(tr, r.new) = Beyond(L, R, r.new)
    BY <1>2 DEF EpsilonSources, Beyond, Backs, Within
  <2>2. r.new = {} => Beyond(L, R, r.new) = {}
    BY DEF Beyond
  <2> QED BY <2>1, <2>2 DEF Round
<1> HIDE DEF step
<1>3. PICK g : AreRounds(L, R, l, g)
  BY RoundsExist
<1>4. g = all(g)
  <2>1. \A i \in Nat : i # 0 => i - 1 \in Nat /\ (i - 1) + 1 = i
    OBVIOUS
  <2>2. \A i \in Nat : g[i] = IF i = 0 THEN base ELSE step(g[i - 1])
    BY <1>2, <1>3, <2>1 DEF AreRounds
  <2>3. g = [i \in Nat |-> g[i]]
    BY <1>3 DEF AreRounds
  <2> QED BY <2>2, <2>3
<1>5. rounds = all(rounds)
  BY <1>4
<1> HIDE DEF rounds
<1>6. rounds[0] = base
  BY <1>5
<1>7. \A i \in Nat : rounds[i + 1] = step(rounds[i])
  <2>1. \A i \in Nat : i + 1 # 0 /\ i + 1 \in Nat /\ (i + 1) - 1 = i
    OBVIOUS
  <2> QED BY <1>5, <2>1
<1> QED BY <1>1, <1>2, <1>6, <1>7, RoundsAreClosure DEF Within
=============================================================================
