---------------------------- MODULE EncodingProofs ----------------------------
(***************************************************************************)
(* The formulas stand for what Blocks promises, for every program, any number *)
(* of branches, blocks and predicates.                                       *)
(***************************************************************************)
EXTENDS Encoding, TLAPS

Node == [block : Nat, entering : SUBSET Stores, ssa : Indices, formula : SUBSET Memories,
         offset : Indices, path : SUBSET Memories]

Agree(m, n, ssa) == \A v \in Variables : \A i \in 0 .. ssa[v] : m[v][i] = n[v][i]

(* A formula says nothing about versions that were not assigned yet.          *)
Unassigned(formula, ssa) == \A m \in formula, n \in Memories : Agree(m, n, ssa) => n \in formula

-----------------------------------------------------------------------------
(* Versions. *)

LEMMA AtIsStore ==
  ASSUME NEW m \in Memories, NEW ssa \in Indices
  PROVE  At(m, ssa) \in Stores
<1>1. \A v \in Variables : ssa[v] \in Versions /\ m[v] \in [Versions -> Values]
  BY DEF Indices, Memories
<1> QED BY <1>1 DEF At, Stores

LEMMA IndexIsNat ==
  ASSUME NEW ssa \in Indices, NEW v \in Variables
  PROVE  ssa[v] \in Nat /\ ssa[v] \in Versions
BY EncodingAssumption DEF Indices, Versions

LEMMA StartIsIndex == Start \in Indices
<1>1. 0 \in Versions
  BY EncodingAssumption DEF Versions
<1> QED BY <1>1 DEF Start, Indices

LEMMA NewVersionIsIndex ==
  ASSUME NEW ssa \in Indices, NEW offset \in Indices, NEW v \in Variables,
         InBounds(offset, NewVersion(ssa, v))
  PROVE  /\ NewVersion(ssa, v) \in Indices
         /\ NewVersion(ssa, v)[v] = ssa[v] + 1
         /\ \A w \in Variables : w # v => NewVersion(ssa, v)[w] = ssa[w]
<1>1. NewVersion(ssa, v) = [w \in Variables |-> IF w = v THEN ssa[v] + 1 ELSE ssa[w]]
  BY DEF NewVersion, Indices
<1>2. ASSUME NEW w \in Variables
      PROVE  NewVersion(ssa, v)[w] \in Versions
  <2>1. ssa[w] \in Nat /\ offset[w] \in Nat /\ ssa[v] \in Nat
    BY IndexIsNat
  <2>2. NewVersion(ssa, v)[w] \in Nat
    BY <1>1, <2>1
  <2>3. offset[w] + NewVersion(ssa, v)[w] <= MaxVersion
    BY DEF InBounds
  <2> QED BY <2>1, <2>2, <2>3, EncodingAssumption DEF Versions
<1>3. NewVersion(ssa, v) \in Indices
  BY <1>1, <1>2 DEF Indices
<1> QED BY <1>1, <1>3

(* Memories that agree up to ssa hold the same store at all earlier versions. *)
LEMMA AgreeAt ==
  ASSUME NEW m, NEW n, NEW ssa \in Indices, NEW early \in Indices,
         \A v \in Variables : early[v] <= ssa[v],
         Agree(m, n, ssa)
  PROVE  At(m, early) = At(n, early)
<1>1. ASSUME NEW v \in Variables
      PROVE  early[v] \in 0 .. ssa[v]
  BY IndexIsNat
<1>2. \A v \in Variables : m[v][early[v]] = n[v][early[v]]
  BY <1>1 DEF Agree
<1> QED BY <1>2 DEF At

LEMMA AgreeStart ==
  ASSUME NEW m, NEW n, NEW ssa \in Indices, Agree(m, n, ssa)
  PROVE  At(m, Start) = At(n, Start) /\ At(m, ssa) = At(n, ssa)
<1>1. ASSUME NEW v \in Variables
      PROVE  Start[v] <= ssa[v] /\ ssa[v] <= ssa[v]
  BY IndexIsNat DEF Start
<1> QED BY <1>1, AgreeAt, StartIsIndex

(* Agreeing up to later versions is agreeing up to earlier ones.              *)
LEMMA AgreeEarlier ==
  ASSUME NEW m, NEW n, NEW ssa \in Indices, NEW early \in Indices,
         \A v \in Variables : early[v] <= ssa[v],
         Agree(m, n, ssa)
  PROVE  Agree(m, n, early)
<1> SUFFICES ASSUME NEW v \in Variables, NEW i \in 0 .. early[v]
             PROVE  m[v][i] = n[v][i]
  BY DEF Agree
<1>1. i \in 0 .. ssa[v]
  BY IndexIsNat
<1> QED BY <1>1 DEF Agree
-----------------------------------------------------------------------------
(* The operations on formulas, and the relations they stand for.             *)

(* A memory with another value for one version. *)
Updated(m, v, i, c) == [m EXCEPT ![v] = [@ EXCEPT ![i] = c]]

Put(s, v, c) == [s EXCEPT ![v] = c]

LEMMA UpdatedNewVersion ==
  ASSUME NEW m \in Memories, NEW v \in Variables, NEW c \in Values,
         NEW ssa \in Indices, ssa[v] + 1 \in Versions,
         NEW new, new = NewVersion(ssa, v),
         NEW n, n = Updated(m, v, ssa[v] + 1, c)
  PROVE  /\ n \in Memories
         /\ n[v][ssa[v] + 1] = c
         /\ Agree(m, n, ssa)
         /\ At(n, new) = Put(At(m, ssa), v, c)
<1>1. \A w \in Variables : m[w] \in [Versions -> Values]
  BY DEF Memories
<1>2. n = [w \in Variables |-> IF w = v THEN [m[v] EXCEPT ![ssa[v] + 1] = c] ELSE m[w]]
  BY DEF Updated, Memories
<1>3. [m[v] EXCEPT ![ssa[v] + 1] = c] \in [Versions -> Values]
  BY <1>1
<1>4. n \in Memories
  BY <1>1, <1>2, <1>3 DEF Memories
<1>5. n[v][ssa[v] + 1] = c
  BY <1>1, <1>2
<1>6. ASSUME NEW w \in Variables, NEW i \in 0 .. ssa[w]
      PROVE  m[w][i] = n[w][i]
  <2>1. i \in Versions
    BY IndexIsNat, EncodingAssumption DEF Versions
  <2>2. w = v => i # ssa[v] + 1
    BY IndexIsNat
  <2> QED BY <1>1, <1>2, <2>1, <2>2
<1>7. At(n, new) = [At(m, ssa) EXCEPT ![v] = c]
  <2>1. At(n, new) = [w \in Variables |-> n[w][new[w]]]
    BY DEF At
  <2>2. [At(m, ssa) EXCEPT ![v] = c] = [w \in Variables |-> IF w = v THEN c ELSE m[w][ssa[w]]]
    BY DEF At
  <2>3. ASSUME NEW w \in Variables
        PROVE  n[w][new[w]] = IF w = v THEN c ELSE m[w][ssa[w]]
    <3>1. new[w] = IF w = v THEN ssa[v] + 1 ELSE ssa[w]
      BY DEF Indices, NewVersion
    <3> QED BY <1>2, <1>5, <3>1
  <2> QED BY <2>1, <2>2, <2>3
<1>8. Agree(m, n, ssa)
  BY <1>6 DEF Agree
<1> QED BY <1>4, <1>5, <1>7, <1>8 DEF Put

LEMMA RelationType ==
  ASSUME NEW F \in SUBSET Memories, NEW ssa \in Indices
  PROVE  RelationOf(F, ssa) \subseteq Stores \X Stores
BY AtIsStore, StartIsIndex DEF RelationOf

LEMMA ComposeWithin ==
  ASSUME NEW r, NEW change, NEW q,
         ASSUME NEW s \in Stores, NEW u \in Stores, NEW t \in Stores, <<s, u>> \in r, <<u, t>> \in change
         PROVE  <<s, t>> \in q
  PROVE  Meaning!Compose(r, change) \subseteq q
<1> SUFFICES ASSUME NEW p \in Meaning!Compose(r, change)
             PROVE  p \in q
  OBVIOUS
<1>1. PICK s \in Stores, t \in Stores : p = <<s, t>>
  BY DEF Meaning!Compose
<1>2. PICK u \in Stores : <<s, u>> \in r /\ <<u, t>> \in change
  BY <1>1 DEF Meaning!Compose
<1> QED BY <1>1, <1>2

(* A constraint on the new version of a variable: the value of c in the old    *)
(* store, for stores, and any value, for declarations.                       *)
Constrained(F, ssa, v, i, value) == {m \in F : m[v][i] = value[At(m, ssa)]}
ChangeOf(v, value) == {<<s, [s EXCEPT ![v] = value[s]]>> : s \in Stores}

LEMMA StoredRelation ==
  ASSUME NEW F \in SUBSET Memories, NEW ssa \in Indices, NEW new \in Indices,
         NEW v \in Variables, NEW value \in [Stores -> Values],
         new = NewVersion(ssa, v), ssa[v] + 1 \in Versions,
         Unassigned(F, ssa),
         NEW G, G = Constrained(F, ssa, v, new[v], value)
  PROVE  /\ Unassigned(G, new)
         /\ RelationOf(G, new) = Meaning!Compose(RelationOf(F, ssa), ChangeOf(v, value))
<1> DEFINE change == ChangeOf(v, value)
<1>0. G = {m \in F : m[v][new[v]] = value[At(m, ssa)]}
  BY DEF Constrained
<1>1. new[v] = ssa[v] + 1 /\ \A w \in Variables : w # v => new[w] = ssa[w]
  BY DEF Indices, NewVersion
<1>2. ASSUME NEW w \in Variables
      PROVE  ssa[w] <= new[w]
  <2>1. CASE w = v
    BY <1>1, <2>1, IndexIsNat
  <2>2. CASE w # v
    BY <1>1, <2>2, IndexIsNat
  <2> QED BY <2>1, <2>2
<1>3. ASSUME NEW m \in G, NEW n \in Memories, Agree(m, n, new)
      PROVE  n \in G
  <2>1. Agree(m, n, ssa)
    BY <1>2, <1>3, AgreeEarlier
  <2>2. m \in F /\ n \in F
    BY <1>0, <2>1 DEF Unassigned
  <2>3. At(m, ssa) = At(n, ssa)
    BY <2>1, <2>2, AgreeStart
  <2>4. new[v] \in 0 .. new[v]
    BY IndexIsNat
  <2>5. m[v][new[v]] = n[v][new[v]]
    BY <1>3, <2>4 DEF Agree
  <2> QED BY <1>0, <2>2, <2>3, <2>5
<1>4. ASSUME NEW m \in G
      PROVE  <<At(m, Start), At(m, new)>> \in Meaning!Compose(RelationOf(F, ssa), change)
  <2>1. m \in F /\ m \in Memories /\ m[v][new[v]] = value[At(m, ssa)]
    BY <1>0
  <2>2. At(m, Start) \in Stores /\ At(m, ssa) \in Stores /\ At(m, new) \in Stores
    BY <2>1, AtIsStore, StartIsIndex
  <2>3. At(m, new) = [At(m, ssa) EXCEPT ![v] = value[At(m, ssa)]]
    <3>1. [At(m, ssa) EXCEPT ![v] = value[At(m, ssa)]]
            = [w \in Variables |-> IF w = v THEN value[At(m, ssa)] ELSE m[w][ssa[w]]]
      BY DEF At
    <3>2. ASSUME NEW w \in Variables
          PROVE  m[w][new[w]] = IF w = v THEN value[At(m, ssa)] ELSE m[w][ssa[w]]
      BY <1>1, <2>1
    <3> QED BY <3>1, <3>2 DEF At
  <2>4. <<At(m, ssa), At(m, new)>> \in change
    BY <2>2, <2>3 DEF ChangeOf
  <2>5. <<At(m, Start), At(m, ssa)>> \in RelationOf(F, ssa)
    BY <2>1 DEF RelationOf
  <2> HIDE DEF change
  <2> QED BY <2>2, <2>4, <2>5 DEF Meaning!Compose
<1>5. ASSUME NEW s \in Stores, NEW u \in Stores, NEW t \in Stores,
             <<s, u>> \in RelationOf(F, ssa), <<u, t>> \in change
      PROVE  <<s, t>> \in RelationOf(G, new)
  <2>1. PICK m \in F : s = At(m, Start) /\ u = At(m, ssa)
    BY <1>5 DEF RelationOf
  <2>2. t = [u EXCEPT ![v] = value[u]]
    BY <1>5 DEF ChangeOf
  <2>3. value[u] \in Values
    OBVIOUS
  <2>4. PICK n : n = Updated(m, v, ssa[v] + 1, value[u])
    OBVIOUS
  <2>5. m \in Memories
    OBVIOUS
  <2>6. /\ n \in Memories
        /\ n[v][ssa[v] + 1] = value[u]
        /\ Agree(m, n, ssa)
        /\ At(n, new) = Put(At(m, ssa), v, value[u])
    BY <2>3, <2>4, <2>5, UpdatedNewVersion
  <2>7. n \in F
    BY <2>6 DEF Unassigned
  <2>8. At(n, Start) = s /\ At(n, ssa) = u
    BY <2>1, <2>6, AgreeStart
  <2>9. n \in G
    BY <1>0, <1>1, <2>6, <2>7, <2>8
  <2>10. At(n, new) = t
    BY <2>1, <2>2, <2>6 DEF Put
  <2> QED BY <2>8, <2>9, <2>10 DEF RelationOf
<1> HIDE DEF change
<1>6. Unassigned(G, new)
  BY <1>3 DEF Unassigned
<1>7. RelationOf(G, new) \subseteq Meaning!Compose(RelationOf(F, ssa), change)
  BY <1>4 DEF RelationOf
<1>8. Meaning!Compose(RelationOf(F, ssa), change) \subseteq RelationOf(G, new)
  BY <1>5, ComposeWithin
<1> QED BY <1>6, <1>7, <1>8 DEF change

LEMMA AnyValue ==
  ASSUME NEW v, NEW s \in Stores, NEW c \in Values
  PROVE  <<s, [s EXCEPT ![v] = c]>> \in DeclarationChange(v)
BY DEF DeclarationChange

LEMMA DeclaredRelation ==
  ASSUME NEW F \in SUBSET Memories, NEW ssa \in Indices, NEW new \in Indices,
         NEW v \in Variables,
         new = NewVersion(ssa, v), ssa[v] + 1 \in Versions,
         Unassigned(F, ssa)
  PROVE  /\ Unassigned(F, new)
         /\ RelationOf(F, new) = Meaning!Compose(RelationOf(F, ssa), DeclarationChange(v))
<1>1. new[v] = ssa[v] + 1 /\ \A w \in Variables : w # v => new[w] = ssa[w]
  BY DEF Indices, NewVersion
<1>2. ASSUME NEW w \in Variables
      PROVE  ssa[w] <= new[w]
  <2>1. CASE w = v
    BY <1>1, <2>1, IndexIsNat
  <2>2. CASE w # v
    BY <1>1, <2>2, IndexIsNat
  <2> QED BY <2>1, <2>2
<1>3. Unassigned(F, new)
  <2> SUFFICES ASSUME NEW m \in F, NEW n \in Memories, Agree(m, n, new)
               PROVE  n \in F
    BY DEF Unassigned
  <2>1. Agree(m, n, ssa)
    BY <1>2, AgreeEarlier
  <2> QED BY <2>1 DEF Unassigned
<1>4. ASSUME NEW m \in F
      PROVE  <<At(m, Start), At(m, new)>> \in Meaning!Compose(RelationOf(F, ssa), DeclarationChange(v))
  <2>1. At(m, Start) \in Stores /\ At(m, ssa) \in Stores /\ At(m, new) \in Stores
    BY AtIsStore, StartIsIndex
  <2> DEFINE c == m[v][new[v]]
  <2>2. c \in Values
    BY IndexIsNat DEF Memories
  <2> HIDE DEF c
  <2>3. At(m, new) = [At(m, ssa) EXCEPT ![v] = c]
    <3>1. [At(m, ssa) EXCEPT ![v] = c] = [w \in Variables |-> IF w = v THEN c ELSE m[w][ssa[w]]]
      BY DEF At
    <3>2. ASSUME NEW w \in Variables
          PROVE  m[w][new[w]] = IF w = v THEN c ELSE m[w][ssa[w]]
      BY <1>1 DEF c
    <3> QED BY <3>1, <3>2 DEF At
  <2>4. <<At(m, ssa), At(m, new)>> \in DeclarationChange(v)
    <3>1. <<At(m, ssa), [At(m, ssa) EXCEPT ![v] = c]>> \in DeclarationChange(v)
      BY <2>1, <2>2, AnyValue
    <3> QED BY <2>3, <3>1
  <2>5. <<At(m, Start), At(m, ssa)>> \in RelationOf(F, ssa)
    BY DEF RelationOf
  <2> QED BY <2>1, <2>4, <2>5 DEF Meaning!Compose
<1>5. ASSUME NEW s \in Stores, NEW u \in Stores, NEW t \in Stores,
             <<s, u>> \in RelationOf(F, ssa), <<u, t>> \in DeclarationChange(v)
      PROVE  <<s, t>> \in RelationOf(F, new)
  <2>1. PICK m \in F : s = At(m, Start) /\ u = At(m, ssa)
    BY <1>5 DEF RelationOf
  <2>2. PICK c \in Values : t = [u EXCEPT ![v] = c]
    BY <1>5 DEF DeclarationChange
  <2>3. PICK n : n = Updated(m, v, ssa[v] + 1, c)
    OBVIOUS
  <2>4. m \in Memories
    OBVIOUS
  <2>5. /\ n \in Memories
        /\ Agree(m, n, ssa)
        /\ At(n, new) = Put(At(m, ssa), v, c)
    BY <2>3, <2>4, UpdatedNewVersion
  <2>6. n \in F
    BY <2>5 DEF Unassigned
  <2>7. At(n, Start) = s
    BY <2>1, <2>5, AgreeStart
  <2> QED BY <2>1, <2>2, <2>5, <2>6, <2>7 DEF RelationOf, Put
<1>6. RelationOf(F, new) \subseteq Meaning!Compose(RelationOf(F, ssa), DeclarationChange(v))
  BY <1>4 DEF RelationOf
<1>7. Meaning!Compose(RelationOf(F, ssa), DeclarationChange(v)) \subseteq RelationOf(F, new)
  BY <1>5, ComposeWithin
<1> QED BY <1>3, <1>6, <1>7

LEMMA AssumedRelation ==
  ASSUME NEW F \in SUBSET Memories, NEW ssa \in Indices, NEW S \in SUBSET Stores,
         Unassigned(F, ssa),
         NEW G, G = {m \in F : At(m, ssa) \in S}
  PROVE  /\ Unassigned(G, ssa)
         /\ RelationOf(G, ssa) = Meaning!Compose(RelationOf(F, ssa), ConditionChange(S))
<1>1. Unassigned(G, ssa)
  BY AgreeStart DEF Unassigned
<1>2. ASSUME NEW m \in G
      PROVE  <<At(m, Start), At(m, ssa)>> \in Meaning!Compose(RelationOf(F, ssa), ConditionChange(S))
  <2>1. At(m, Start) \in Stores /\ At(m, ssa) \in Stores
    BY AtIsStore, StartIsIndex
  <2>2. <<At(m, ssa), At(m, ssa)>> \in ConditionChange(S)
    BY DEF ConditionChange
  <2>3. <<At(m, Start), At(m, ssa)>> \in RelationOf(F, ssa)
    BY DEF RelationOf
  <2> QED BY <2>1, <2>2, <2>3 DEF Meaning!Compose
<1>3. ASSUME NEW s \in Stores, NEW u \in Stores, NEW t \in Stores,
             <<s, u>> \in RelationOf(F, ssa), <<u, t>> \in ConditionChange(S)
      PROVE  <<s, t>> \in RelationOf(G, ssa)
  <2>1. PICK m \in F : s = At(m, Start) /\ u = At(m, ssa)
    BY <1>3 DEF RelationOf
  <2>2. u \in S /\ t = u
    BY <1>3 DEF ConditionChange
  <2> QED BY <2>1, <2>2 DEF RelationOf
<1>4. RelationOf(G, ssa) \subseteq Meaning!Compose(RelationOf(F, ssa), ConditionChange(S))
  BY <1>2 DEF RelationOf
<1>5. Meaning!Compose(RelationOf(F, ssa), ConditionChange(S)) \subseteq RelationOf(G, ssa)
  BY <1>3, ComposeWithin
<1> QED BY <1>1, <1>4, <1>5

(* Synchronized to later versions, a formula stands for the same relation.     *)
LEMMA SyncedRelation ==
  ASSUME NEW F \in SUBSET Memories, NEW ssa \in Indices, NEW new \in Indices,
         \A v \in Variables : ssa[v] <= new[v],
         Unassigned(F, ssa),
         NEW G, G = {m \in F : At(m, new) = At(m, ssa)}
  PROVE  /\ Unassigned(G, new)
         /\ RelationOf(G, new) = RelationOf(F, ssa)
<1>1. ASSUME NEW m \in G, NEW n \in Memories, Agree(m, n, new)
      PROVE  n \in G
  <2>1. Agree(m, n, ssa)
    BY <1>1, AgreeEarlier
  <2>2. n \in F
    BY <2>1 DEF Unassigned
  <2>3. At(m, ssa) = At(n, ssa) /\ At(m, new) = At(n, new)
    BY <1>1, <2>1, AgreeStart
  <2> QED BY <2>2, <2>3
<1>2. ASSUME NEW m \in F
      PROVE  <<At(m, Start), At(m, ssa)>> \in RelationOf(G, new)
  <2> DEFINE n == [v \in Variables |-> [i \in Versions |-> IF i <= ssa[v] THEN m[v][i] ELSE m[v][ssa[v]]]]
  <2>1. ASSUME NEW v \in Variables, NEW i \in Versions
        PROVE  m[v][i] \in Values /\ m[v][ssa[v]] \in Values
    BY IndexIsNat DEF Memories
  <2>2. n \in Memories
    BY <2>1 DEF Memories
  <2>3. ASSUME NEW v \in Variables, NEW i \in 0 .. ssa[v]
        PROVE  m[v][i] = n[v][i]
    <3>1. i \in Versions /\ i <= ssa[v]
      BY IndexIsNat, EncodingAssumption DEF Versions
    <3> QED BY <3>1
  <2>4. ASSUME NEW v \in Variables
        PROVE  n[v][new[v]] = m[v][ssa[v]]
    <3>1. new[v] \in Versions /\ new[v] \in Nat /\ ssa[v] \in Nat /\ ssa[v] <= new[v]
      BY IndexIsNat
    <3>2. n[v][new[v]] = IF new[v] <= ssa[v] THEN m[v][new[v]] ELSE m[v][ssa[v]]
      BY <3>1
    <3>3. new[v] <= ssa[v] => new[v] = ssa[v]
      BY <3>1
    <3> QED BY <3>2, <3>3
  <2> HIDE DEF n
  <2>5. Agree(m, n, ssa)
    BY <2>3 DEF Agree
  <2>6. At(n, new) = At(m, ssa)
    BY <2>4 DEF At
  <2>7. At(m, Start) = At(n, Start) /\ At(m, ssa) = At(n, ssa)
    BY <2>5, AgreeStart
  <2>8. n \in F
    BY <2>2, <2>5 DEF Unassigned
  <2>9. n \in G
    BY <2>6, <2>7, <2>8
  <2> QED BY <2>6, <2>7, <2>9 DEF RelationOf
<1>3. RelationOf(G, new) \subseteq RelationOf(F, ssa)
  BY DEF RelationOf
<1>4. RelationOf(F, ssa) \subseteq RelationOf(G, new)
  BY <1>2 DEF RelationOf
<1>5. Unassigned(G, new)
  BY <1>1 DEF Unassigned
<1> QED BY <1>3, <1>4, <1>5

LEMMA SumIsIndex ==
  ASSUME NEW offset \in Indices, NEW ssa \in Indices, InBounds(offset, ssa)
  PROVE  /\ Sum(offset, ssa) \in Indices
         /\ \A v \in Variables : Sum(offset, ssa)[v] = offset[v] + ssa[v]
<1>1. ASSUME NEW v \in Variables
      PROVE  offset[v] + ssa[v] \in Versions
  BY IndexIsNat, EncodingAssumption DEF InBounds, Versions
<1> QED BY <1>1 DEF Sum, Indices

(* What the formula of a block sees of a memory after the blocks before.      *)
LEMMA ShiftedAt ==
  ASSUME NEW m \in Memories, NEW offset \in Indices, NEW ssa \in Indices, InBounds(offset, ssa)
  PROVE  /\ Shifted(m, offset) \in Memories
         /\ At(Shifted(m, offset), Start) = At(m, offset)
         /\ At(Shifted(m, offset), ssa) = At(m, Sum(offset, ssa))
         /\ \A v \in Variables : \A i \in 0 .. ssa[v] : Shifted(m, offset)[v][i] = m[v][offset[v] + i]
<1> DEFINE place(v, i) == IF offset[v] + i <= MaxVersion THEN offset[v] + i ELSE MaxVersion
           n == Shifted(m, offset)
<1>1. ASSUME NEW v \in Variables, NEW i \in Versions
      PROVE  place(v, i) \in Versions
  BY IndexIsNat, EncodingAssumption DEF Versions
<1>2. ASSUME NEW v \in Variables, NEW i \in Versions
      PROVE  m[v][place(v, i)] \in Values
  BY <1>1 DEF Memories
<1>3. n = [v \in Variables |-> [i \in Versions |-> m[v][place(v, i)]]]
  BY DEF Shifted
<1>4. n \in Memories
  <2> HIDE DEF n, place
  <2> QED BY <1>2, <1>3 DEF Memories
<1>5. ASSUME NEW v \in Variables, NEW i \in 0 .. ssa[v]
      PROVE  n[v][i] = m[v][offset[v] + i]
  <2>1. i \in Versions /\ offset[v] + i <= MaxVersion
    BY IndexIsNat, EncodingAssumption DEF InBounds, Versions
  <2>2. place(v, i) = offset[v] + i
    BY <2>1
  <2>3. n[v][i] = m[v][place(v, i)]
    <3> HIDE DEF n, place
    <3> QED BY <1>3, <2>1
  <2> QED BY <2>2, <2>3
<1> HIDE DEF n, place
<1>6. ASSUME NEW v \in Variables
      PROVE  n[v][Start[v]] = m[v][offset[v]]
  <2>1. Start[v] \in 0 .. ssa[v] /\ offset[v] + Start[v] = offset[v]
    BY IndexIsNat DEF Start
  <2>2. n[v][Start[v]] = m[v][offset[v] + Start[v]]
    BY <1>5, <2>1
  <2> QED BY <2>1, <2>2
<1>7. ASSUME NEW v \in Variables
      PROVE  n[v][ssa[v]] = m[v][Sum(offset, ssa)[v]]
  <2>1. ssa[v] \in 0 .. ssa[v]
    BY IndexIsNat
  <2> QED BY <1>5, <2>1, SumIsIndex
<1>8. At(n, Start) = At(m, offset)
  BY <1>6 DEF At
<1>9. At(n, ssa) = At(m, Sum(offset, ssa))
  BY <1>7 DEF At
<1> QED BY <1>4, <1>5, <1>8, <1>9 DEF n

(* Models of the blocks before and of a block that fit together, as one model. *)
LEMMA ModelsJoin ==
  ASSUME NEW m \in Memories, NEW n \in Memories, NEW offset \in Indices, NEW ssa \in Indices,
         InBounds(offset, ssa), At(m, offset) = At(n, Start)
  PROVE  \E j \in Memories : Agree(m, j, offset) /\ Agree(n, Shifted(j, offset), ssa)
<1> DEFINE j == [v \in Variables |-> [i \in Versions |->
                  IF i <= offset[v] THEN m[v][i] ELSE n[v][i - offset[v]]]]
<1>1. ASSUME NEW v \in Variables, NEW i \in Versions
      PROVE  (IF i <= offset[v] THEN m[v][i] ELSE n[v][i - offset[v]]) \in Values
  <2>1. i > offset[v] => i - offset[v] \in Versions
    BY IndexIsNat, EncodingAssumption DEF Versions
  <2>2. i <= offset[v] \/ i > offset[v]
    BY IndexIsNat, EncodingAssumption DEF Versions
  <2> QED BY <2>1, <2>2 DEF Memories
<1>2. j \in Memories
  BY <1>1 DEF Memories
<1>3. ASSUME NEW v \in Variables, NEW i \in 0 .. offset[v]
      PROVE  m[v][i] = j[v][i]
  <2>1. i \in Versions /\ i <= offset[v]
    BY IndexIsNat, EncodingAssumption DEF Versions
  <2> QED BY <2>1
<1>4. ASSUME NEW v \in Variables, NEW i \in 0 .. ssa[v]
      PROVE  n[v][i] = Shifted(j, offset)[v][i]
  <2>1. offset[v] + i \in Versions /\ offset[v] \in Nat /\ i \in Nat
    BY IndexIsNat, EncodingAssumption DEF InBounds, Versions
  <2>2. Shifted(j, offset)[v][i] = j[v][offset[v] + i]
    BY <1>2, ShiftedAt
  <2>3. j[v][offset[v] + i] = IF offset[v] + i <= offset[v] THEN m[v][offset[v] + i]
                              ELSE n[v][(offset[v] + i) - offset[v]]
    BY <2>1
  <2>4. CASE i = 0
    <3>1. At(m, offset)[v] = m[v][offset[v]] /\ At(n, Start)[v] = n[v][0]
      BY DEF At, Start
    <3>2. offset[v] + i = offset[v] /\ offset[v] + i <= offset[v]
      BY <2>1, <2>4
    <3> QED BY <2>2, <2>3, <2>4, <3>1, <3>2
  <2>5. CASE i # 0
    <3>1. ~(offset[v] + i <= offset[v]) /\ (offset[v] + i) - offset[v] = i
      BY <2>1, <2>5
    <3> QED BY <2>2, <2>3, <3>1
  <2> QED BY <2>4, <2>5
<1> HIDE DEF j
<1>5. Agree(m, j, offset)
  BY <1>3 DEF Agree
<1>6. Agree(n, Shifted(j, offset), ssa)
  BY <1>4 DEF Agree
<1> QED BY <1>2, <1>5, <1>6

(* The conjunction of the aligned formulas stands for the composition.         *)
LEMMA AlignedRelation ==
  ASSUME NEW P \in SUBSET Memories, NEW offset \in Indices,
         NEW F \in SUBSET Memories, NEW ssa \in Indices,
         InBounds(offset, ssa), Unassigned(P, offset), Unassigned(F, ssa),
         NEW G, G = P \cap {m \in Memories : Shifted(m, offset) \in F}
  PROVE  /\ Unassigned(G, Sum(offset, ssa))
         /\ RelationOf(G, Sum(offset, ssa))
              = Meaning!Compose(RelationOf(P, offset), RelationOf(F, ssa))
<1> DEFINE sum == Sum(offset, ssa)
<1>1. sum \in Indices /\ \A v \in Variables : sum[v] = offset[v] + ssa[v]
  BY SumIsIndex
<1>2. ASSUME NEW v \in Variables
      PROVE  offset[v] <= sum[v]
  BY <1>1, IndexIsNat
<1>3. ASSUME NEW m \in G, NEW n \in Memories, Agree(m, n, sum)
      PROVE  n \in G
  <2>1. Agree(m, n, offset)
    BY <1>1, <1>2, <1>3, AgreeEarlier
  <2>2. n \in P
    BY <2>1 DEF Unassigned
  <2>3. ASSUME NEW v \in Variables, NEW i \in 0 .. ssa[v]
        PROVE  Shifted(m, offset)[v][i] = Shifted(n, offset)[v][i]
    <3>1. offset[v] + i \in 0 .. sum[v]
      BY <1>1, IndexIsNat
    <3>2. m[v][offset[v] + i] = n[v][offset[v] + i]
      BY <1>3, <3>1 DEF Agree
    <3>3. m \in Memories
      OBVIOUS
    <3>4. Shifted(m, offset)[v][i] = m[v][offset[v] + i]
      BY <3>3, ShiftedAt
    <3>5. Shifted(n, offset)[v][i] = n[v][offset[v] + i]
      BY ShiftedAt
    <3> QED BY <3>2, <3>4, <3>5
  <2>4. Agree(Shifted(m, offset), Shifted(n, offset), ssa)
    BY <2>3 DEF Agree
  <2>5. Shifted(n, offset) \in Memories
    BY ShiftedAt
  <2>6. Shifted(n, offset) \in F
    BY <2>4, <2>5 DEF Unassigned
  <2> QED BY <2>2, <2>6
<1>4. ASSUME NEW m \in G
      PROVE  <<At(m, Start), At(m, sum)>> \in Meaning!Compose(RelationOf(P, offset), RelationOf(F, ssa))
  <2> DEFINE n == Shifted(m, offset)
  <2>1. m \in Memories /\ m \in P /\ n \in F
    OBVIOUS
  <2>2. At(n, Start) = At(m, offset) /\ At(n, ssa) = At(m, sum)
    BY <2>1, ShiftedAt
  <2> HIDE DEF n
  <2>3. <<At(m, Start), At(m, offset)>> \in RelationOf(P, offset)
    BY <2>1 DEF RelationOf
  <2>4. <<At(n, Start), At(n, ssa)>> \in RelationOf(F, ssa)
    BY <2>1 DEF RelationOf
  <2>5. At(m, Start) \in Stores /\ At(m, offset) \in Stores /\ At(m, sum) \in Stores
    BY <1>1, <2>1, AtIsStore, StartIsIndex
  <2> HIDE DEF sum
  <2> QED BY <2>2, <2>3, <2>4, <2>5 DEF Meaning!Compose
<1>5. ASSUME NEW s \in Stores, NEW u \in Stores, NEW t \in Stores,
             <<s, u>> \in RelationOf(P, offset), <<u, t>> \in RelationOf(F, ssa)
      PROVE  <<s, t>> \in RelationOf(G, sum)
  <2>1. PICK m \in P : s = At(m, Start) /\ u = At(m, offset)
    BY <1>5 DEF RelationOf
  <2>2. PICK n \in F : u = At(n, Start) /\ t = At(n, ssa)
    BY <1>5 DEF RelationOf
  <2>3. PICK j \in Memories : Agree(m, j, offset) /\ Agree(n, Shifted(j, offset), ssa)
    BY <2>1, <2>2, ModelsJoin
  <2>4. j \in P /\ At(j, Start) = s
    BY <2>1, <2>3, AgreeStart DEF Unassigned
  <2>5. Shifted(j, offset) \in Memories /\ At(Shifted(j, offset), ssa) = At(j, sum)
    BY ShiftedAt
  <2>6. Shifted(j, offset) \in F
    BY <2>3, <2>5 DEF Unassigned
  <2>7. At(j, sum) = t
    BY <2>2, <2>3, <2>5, AgreeStart
  <2>8. j \in G
    BY <2>4, <2>6
  <2> HIDE DEF sum
  <2> QED BY <2>4, <2>7, <2>8 DEF RelationOf
<1>6. Unassigned(G, sum)
  BY <1>3 DEF Unassigned
<1> HIDE DEF sum
<1>7. RelationOf(G, sum) \subseteq Meaning!Compose(RelationOf(P, offset), RelationOf(F, ssa))
  BY <1>4 DEF RelationOf
<1>8. Meaning!Compose(RelationOf(P, offset), RelationOf(F, ssa)) \subseteq RelationOf(G, sum)
  BY <1>5, ComposeWithin
<1> QED BY <1>6, <1>7, <1>8 DEF sum

(* The summary is the abstraction of what the block leads to.                 *)
LEMMA SummaryIsImage ==
  ASSUME NEW x, x.formula \subseteq Memories, x.ssa \in Indices, NEW predicates
  PROVE  Summary(x, predicates)
           = Meaning!Strongest(Meaning!Image(RelationOf(x.formula, x.ssa), x.entering), predicates)
<1> DEFINE reached == Meaning!Image(RelationOf(x.formula, x.ssa), x.entering)
<1>1. ASSUME NEW m \in x.formula, At(m, Start) \in x.entering
      PROVE  At(m, x.ssa) \in reached
  <2>1. At(m, x.ssa) \in Stores
    BY AtIsStore
  <2>2. <<At(m, Start), At(m, x.ssa)>> \in RelationOf(x.formula, x.ssa)
    BY DEF RelationOf
  <2> QED BY <1>1, <2>1, <2>2 DEF Meaning!Image
<1>2. ASSUME NEW u \in reached
      PROVE  \E m \in x.formula : At(m, Start) \in x.entering /\ u = At(m, x.ssa)
  <2>1. PICK s \in x.entering : <<s, u>> \in RelationOf(x.formula, x.ssa)
    BY DEF Meaning!Image
  <2> QED BY <2>1 DEF RelationOf
<1> HIDE DEF reached
<1>3. ASSUME NEW s \in Summary(x, predicates)
      PROVE  s \in Meaning!Strongest(reached, predicates)
  BY <1>1 DEF Summary, Meaning!Strongest
<1>4. ASSUME NEW s \in Meaning!Strongest(reached, predicates)
      PROVE  s \in Summary(x, predicates)
  BY <1>2 DEF Summary, Meaning!Strongest
<1> QED BY <1>3, <1>4 DEF reached

LEMMA IdentityRelation == RelationOf(Memories, Start) = Meaning!Identity
<1>1. ASSUME NEW m \in Memories
      PROVE  <<At(m, Start), At(m, Start)>> \in Meaning!Identity
  BY AtIsStore, StartIsIndex DEF Meaning!Identity
<1>2. ASSUME NEW s \in Stores
      PROVE  <<s, s>> \in RelationOf(Memories, Start)
  <2> DEFINE m == [v \in Variables |-> [i \in Versions |-> s[v]]]
  <2>1. m \in Memories
    BY DEF Memories, Stores
  <2>2. ASSUME NEW v \in Variables
        PROVE  m[v][Start[v]] = s[v]
    BY StartIsIndex, IndexIsNat
  <2>3. At(m, Start) = [v \in Variables |-> m[v][Start[v]]]
    BY DEF At
  <2> HIDE DEF m
  <2>4. At(m, Start) = s
    BY <2>2, <2>3 DEF Stores
  <2> QED BY <2>1, <2>4 DEF RelationOf
<1>3. RelationOf(Memories, Start) \subseteq Meaning!Identity
  BY <1>1 DEF RelationOf
<1>4. Meaning!Identity \subseteq RelationOf(Memories, Start)
  BY <1>2 DEF Meaning!Identity
<1> QED BY <1>3, <1>4

-----------------------------------------------------------------------------
(* The invariant. *)

Covers(x) == \A m \in x.path : At(m, x.offset) \in x.entering

NodeOK(x) ==
  /\ x \in Node
  /\ InBounds(x.offset, x.ssa)
  /\ Unassigned(x.formula, x.ssa)
  /\ Unassigned(x.path, x.offset)
  /\ Covers(x)

(* The states of a block have the same blocks before them. *)
SameBefore(x, y) ==
  x.block = y.block => x.entering = y.entering /\ x.offset = y.offset /\ x.path = y.path

IInv ==
  /\ node \in Seq(Node)
  /\ Len(node) \in Nat /\ Len(node) > 0
  /\ \A x \in DOMAIN node : NodeOK(node[x]) /\ node[x].block <= x
  /\ \A x, y \in DOMAIN node : SameBefore(node[x], node[y])

LEMMA MemoriesUnassigned ==
  ASSUME NEW ssa
  PROVE  Unassigned(Memories, ssa)
BY DEF Unassigned

LEMMA RootOK == NodeOK(Root)
<1>1. Root \in Node
  BY StartIsIndex DEF Root, Node
<1>2. InBounds(Start, Start)
  BY EncodingAssumption DEF InBounds, Start
<1>3. \A m \in Memories : At(m, Start) \in Stores
  BY AtIsStore, StartIsIndex
<1> QED BY <1>1, <1>2, <1>3, MemoriesUnassigned DEF NodeOK, Root, Covers

(* The fields of a state that an operation leads to. *)
LEMMA WithFields ==
  ASSUME NEW x \in Node, NEW ssa \in Indices, NEW F \in SUBSET Memories
  PROVE  /\ With(x, ssa, F) \in Node
         /\ With(x, ssa, F).ssa = ssa /\ With(x, ssa, F).formula = F
         /\ With(x, ssa, F).block = x.block /\ With(x, ssa, F).entering = x.entering
         /\ With(x, ssa, F).offset = x.offset /\ With(x, ssa, F).path = x.path
BY DEF With, Node

LEMMA WithOK ==
  ASSUME NEW x, NodeOK(x), NEW ssa \in Indices, NEW F \in SUBSET Memories,
         InBounds(x.offset, ssa), Unassigned(F, ssa)
  PROVE  NodeOK(With(x, ssa, F))
<1>1. x \in Node
  BY DEF NodeOK
<1>2. Covers(With(x, ssa, F))
  BY <1>1, WithFields DEF NodeOK, Covers
<1> QED BY <1>1, <1>2, WithFields DEF NodeOK

WithRelation(s, relation) == [s EXCEPT !.relation = relation]

LEMMA WithState ==
  ASSUME NEW x \in Node, NEW ssa \in Indices, NEW F \in SUBSET Memories, NEW relation,
         RelationOf(F, ssa) = relation
  PROVE  StateOf(With(x, ssa, F)) = WithRelation(StateOf(x), relation)
BY WithFields DEF StateOf, WithRelation

-----------------------------------------------------------------------------
(* Sequences of states. *)

LEMMA StatesAre ==
  ASSUME node \in Seq(Node)
  PROVE  /\ DOMAIN States = DOMAIN node
         /\ DOMAIN node = 1 .. Len(node)
         /\ Len(States) = Len(node)
         /\ \A x \in DOMAIN node : States[x] = StateOf(node[x])
<1>1. Len(node) \in Nat /\ DOMAIN node = 1 .. Len(node)
  OBVIOUS
<1>2. DOMAIN States = 1 .. Len(node) /\ \A x \in DOMAIN node : States[x] = StateOf(node[x])
  BY <1>1 DEF States
<1>3. Len(States) = Len(node)
  BY <1>1, <1>2
<1> QED BY <1>1, <1>2, <1>3

LEMMA StatesAppend ==
  ASSUME node \in Seq(Node), NEW n \in Node, node' = Append(node, n)
  PROVE  States' = Append(States, StateOf(n))
<1>1. /\ Len(node) \in Nat /\ DOMAIN node = 1 .. Len(node) /\ DOMAIN node' = 1 .. Len(node) + 1
      /\ \A x \in 1 .. Len(node) : node'[x] = node[x]
      /\ node'[Len(node) + 1] = n
  OBVIOUS
<1>2. States' = [x \in 1 .. Len(node) + 1 |-> StateOf(node'[x])]
  BY <1>1 DEF States
<1>3. States = [x \in 1 .. Len(node) |-> StateOf(node[x])]
  BY <1>1 DEF States
<1>4. Len(States) = Len(node)
  BY StatesAre
<1>5. Append(States, StateOf(n)) = [x \in 1 .. Len(node) + 1 |-> IF x = Len(node) + 1 THEN StateOf(n) ELSE States[x]]
  BY <1>1, <1>3, <1>4
<1>6. ASSUME NEW x \in 1 .. Len(node) + 1
      PROVE  StateOf(node'[x]) = IF x = Len(node) + 1 THEN StateOf(n) ELSE States[x]
  <2>1. x # Len(node) + 1 => x \in 1 .. Len(node)
    BY <1>1
  <2> QED BY <1>1, <1>3, <2>1
<1> QED BY <1>2, <1>5, <1>6

LEMMA StatesReplaced ==
  ASSUME node \in Seq(Node), NEW k \in DOMAIN node, NEW n \in Node, node' = [node EXCEPT ![k] = n]
  PROVE  States' = [States EXCEPT ![k] = StateOf(n)]
<1>1. /\ DOMAIN node' = DOMAIN node
      /\ \A x \in DOMAIN node : node'[x] = IF x = k THEN n ELSE node[x]
  OBVIOUS
<1>2. States' = [x \in DOMAIN node |-> StateOf(node'[x])]
  BY <1>1 DEF States
<1>3. [States EXCEPT ![k] = StateOf(n)] = [x \in DOMAIN node |-> IF x = k THEN StateOf(n) ELSE StateOf(node[x])]
  BY DEF States
<1> QED BY <1>1, <1>2, <1>3

-----------------------------------------------------------------------------
(* The operations, one by one: n is a state that may follow x, in its block.   *)

SameBlock(n, x) ==
  n.block = x.block /\ n.entering = x.entering /\ n.offset = x.offset /\ n.path = x.path

Follows(n, x, change) ==
  /\ NodeOK(n)
  /\ SameBlock(n, x)
  /\ StateOf(n) = [StateOf(x) EXCEPT !.relation = Meaning!Compose(StateOf(x).relation, change)]

LEMMA FollowsWith ==
  ASSUME NEW x, NodeOK(x), NEW ssa \in Indices, NEW F \in SUBSET Memories, NEW change,
         InBounds(x.offset, ssa), Unassigned(F, ssa),
         RelationOf(F, ssa) = Meaning!Compose(RelationOf(x.formula, x.ssa), change)
  PROVE  Follows(With(x, ssa, F), x, change)
<1>1. x \in Node
  BY DEF NodeOK
<1>2. NodeOK(With(x, ssa, F))
  BY WithOK
<1>3. SameBlock(With(x, ssa, F), x)
  BY <1>1, WithFields DEF SameBlock
<1>4. StateOf(x).relation = RelationOf(x.formula, x.ssa)
  BY DEF StateOf
<1>5. StateOf(With(x, ssa, F))
        = [StateOf(x) EXCEPT !.relation = Meaning!Compose(StateOf(x).relation, change)]
  BY <1>1, <1>4, WithState DEF WithRelation
<1> QED BY <1>2, <1>3, <1>5 DEF Follows

(* What an assigned version needs: it is in the bounds. *)
LEMMA NextVersion ==
  ASSUME NEW x, NodeOK(x), NEW v \in Variables, InBounds(x.offset, NewVersion(x.ssa, v))
  PROVE  NewVersion(x.ssa, v) \in Indices /\ x.ssa[v] + 1 \in Versions
<1>1. x.ssa \in Indices /\ x.offset \in Indices
  BY DEF NodeOK, Node
<1>2. NewVersion(x.ssa, v) \in Indices /\ NewVersion(x.ssa, v)[v] = x.ssa[v] + 1
  BY <1>1, NewVersionIsIndex
<1> QED BY <1>2, IndexIsNat

LEMMA StoredFollows ==
  ASSUME NEW x, NodeOK(x), NEW a \in Assignments,
         InBounds(x.offset, NewVersion(x.ssa, a.variable))
  PROVE  Follows(Stored(x, a), x, AssignmentChange(a))
<1> DEFINE new == NewVersion(x.ssa, a.variable)
           F   == Constrained(x.formula, x.ssa, a.variable, new[a.variable], a.value)
<1>1. /\ x.ssa \in Indices /\ x.formula \in SUBSET Memories
      /\ Unassigned(x.formula, x.ssa)
  BY DEF NodeOK, Node
<1>2. a.variable \in Variables /\ a.value \in [Stores -> Values]
  BY EncodingAssumption
<1>3. new \in Indices /\ x.ssa[a.variable] + 1 \in Versions
  BY <1>2, NextVersion
<1>4. F \in SUBSET Memories
  BY <1>1 DEF Constrained
<1>5. Stored(x, a) = With(x, new, F)
  BY DEF Stored, Constrained
<1> HIDE DEF F
<1>6. PICK G : G = F
  OBVIOUS
<1>7. PICK ssa : ssa = new
  OBVIOUS
<1> HIDE DEF new
<1>8. /\ Unassigned(G, ssa)
      /\ RelationOf(G, ssa) = Meaning!Compose(RelationOf(x.formula, x.ssa), ChangeOf(a.variable, a.value))
  BY <1>1, <1>2, <1>3, <1>6, <1>7, StoredRelation DEF F, new
<1>9. ChangeOf(a.variable, a.value) = AssignmentChange(a)
  BY DEF AssignmentChange, ChangeOf
<1>10. InBounds(x.offset, new)
  BY DEF new
<1> QED BY <1>3, <1>4, <1>5, <1>6, <1>7, <1>8, <1>9, <1>10, FollowsWith

LEMMA DeclaredFollows ==
  ASSUME NEW x, NodeOK(x), NEW v \in Variables, InBounds(x.offset, NewVersion(x.ssa, v))
  PROVE  Follows(Declared(x, v), x, DeclarationChange(v))
<1>1. /\ x.ssa \in Indices /\ x.formula \in SUBSET Memories
      /\ Unassigned(x.formula, x.ssa)
  BY DEF NodeOK, Node
<1>2. NewVersion(x.ssa, v) \in Indices /\ x.ssa[v] + 1 \in Versions
  BY NextVersion
<1>3. /\ Unassigned(x.formula, NewVersion(x.ssa, v))
      /\ RelationOf(x.formula, NewVersion(x.ssa, v))
           = Meaning!Compose(RelationOf(x.formula, x.ssa), DeclarationChange(v))
  BY <1>1, <1>2, DeclaredRelation
<1> QED BY <1>1, <1>2, <1>3, FollowsWith DEF Declared

LEMMA AssumedFollows ==
  ASSUME NEW x, NodeOK(x), NEW S \in Conditions
  PROVE  Follows(Assumed(x, S), x, ConditionChange(S))
<1> DEFINE F == {m \in x.formula : At(m, x.ssa) \in S}
<1>1. /\ x.ssa \in Indices /\ x.formula \in SUBSET Memories
      /\ Unassigned(x.formula, x.ssa) /\ InBounds(x.offset, x.ssa)
  BY DEF NodeOK, Node
<1>2. S \in SUBSET Stores
  BY EncodingAssumption
<1>3. Unassigned(F, x.ssa) /\ RelationOf(F, x.ssa) = Meaning!Compose(RelationOf(x.formula, x.ssa), ConditionChange(S))
  BY <1>1, <1>2, AssumedRelation
<1>4. F \in SUBSET Memories
  BY <1>1
<1>5. Assumed(x, S) = With(x, x.ssa, F)
  BY DEF Assumed
<1> HIDE DEF F
<1> QED BY <1>1, <1>3, <1>4, <1>5, FollowsWith

(* Both branches are kept. *)
LEMMA MergedFollows ==
  ASSUME NEW x, NodeOK(x), NEW y, NodeOK(y), x.block = y.block, SameBefore(x, y)
  PROVE  /\ NodeOK(Merged(x, y))
         /\ SameBlock(Merged(x, y), x)
         /\ StateOf(Merged(x, y)) = [StateOf(x) EXCEPT !.relation = @ \cup StateOf(y).relation]
<1> DEFINE ssa == Later(x.ssa, y.ssa)
           G   == Synced(x, ssa)
           H   == Synced(y, ssa)
<1>1. /\ x \in Node /\ x.ssa \in Indices /\ x.formula \in SUBSET Memories
      /\ y \in Node /\ y.ssa \in Indices /\ y.formula \in SUBSET Memories
      /\ Unassigned(x.formula, x.ssa) /\ Unassigned(y.formula, y.ssa)
      /\ InBounds(x.offset, x.ssa) /\ InBounds(y.offset, y.ssa) /\ x.offset = y.offset
  BY DEF NodeOK, Node, SameBefore
<1>2. ASSUME NEW v \in Variables
      PROVE  /\ ssa[v] \in Versions
             /\ x.ssa[v] <= ssa[v] /\ y.ssa[v] <= ssa[v]
             /\ ssa[v] = x.ssa[v] \/ ssa[v] = y.ssa[v]
  BY <1>1, IndexIsNat DEF Later
<1>3. ssa \in Indices
  BY <1>2 DEF Indices, Later
<1>4. InBounds(x.offset, ssa)
  <2> SUFFICES ASSUME NEW v \in Variables
               PROVE  x.offset[v] + ssa[v] <= MaxVersion
    BY DEF InBounds
  <2>1. x.offset[v] + x.ssa[v] <= MaxVersion /\ x.offset[v] + y.ssa[v] <= MaxVersion
    BY <1>1 DEF InBounds
  <2> QED BY <1>2, <2>1
<1>5. Merged(x, y) = With(x, ssa, G \cup H)
  BY DEF Merged
<1>6. G = {m \in x.formula : At(m, ssa) = At(m, x.ssa)} /\ H = {m \in y.formula : At(m, ssa) = At(m, y.ssa)}
  BY DEF Synced
<1> HIDE DEF ssa, G, H
<1>7. Unassigned(G, ssa) /\ RelationOf(G, ssa) = RelationOf(x.formula, x.ssa)
  BY <1>1, <1>2, <1>3, <1>6, SyncedRelation
<1>8. Unassigned(H, ssa) /\ RelationOf(H, ssa) = RelationOf(y.formula, y.ssa)
  BY <1>1, <1>2, <1>3, <1>6, SyncedRelation
<1>9. G \cup H \in SUBSET Memories
  BY <1>1, <1>6
<1>10. Unassigned(G \cup H, ssa)
  BY <1>7, <1>8 DEF Unassigned
<1>11. RelationOf(G \cup H, ssa) = RelationOf(G, ssa) \cup RelationOf(H, ssa)
  BY DEF RelationOf
<1>12. NodeOK(Merged(x, y))
  BY <1>3, <1>4, <1>5, <1>9, <1>10, WithOK
<1>13. SameBlock(Merged(x, y), x)
  BY <1>1, <1>3, <1>5, <1>9, WithFields DEF SameBlock
<1>14. StateOf(x).relation = RelationOf(x.formula, x.ssa) /\ StateOf(y).relation = RelationOf(y.formula, y.ssa)
  BY DEF StateOf
<1>15. StateOf(Merged(x, y)) = [StateOf(x) EXCEPT !.relation = StateOf(x).relation \cup StateOf(y).relation]
  <2>1. RelationOf(G \cup H, ssa) = StateOf(x).relation \cup StateOf(y).relation
    BY <1>7, <1>8, <1>11, <1>14
  <2>2. PICK F, r : F = G \cup H /\ r = StateOf(x).relation \cup StateOf(y).relation
    OBVIOUS
  <2>3. x \in Node /\ ssa \in Indices /\ F \in SUBSET Memories /\ RelationOf(F, ssa) = r
    BY <1>1, <1>3, <1>9, <2>1, <2>2
  <2>4. StateOf(With(x, ssa, F)) = WithRelation(StateOf(x), r)
    BY <2>3, WithState
  <2>5. StateOf(With(x, ssa, F)) = [StateOf(x) EXCEPT !.relation = r]
    BY <2>4 DEF WithRelation
  <2> QED BY <1>5, <2>2, <2>5
<1> QED BY <1>12, <1>13, <1>15 DEF StateOf

(* A block ends and the next one starts. *)
LEMMA WidenedFollows ==
  ASSUME NEW x, NodeOK(x), NEW block \in Nat, NEW predicates
  PROVE  /\ NodeOK(Widened(x, block, predicates))
         /\ Widened(x, block, predicates).block = block
         /\ StateOf(Widened(x, block, predicates))
              = [block    |-> block,
                 entering |-> Meaning!Strongest(Meaning!Image(StateOf(x).relation, StateOf(x).entering), predicates),
                 relation |-> Meaning!Identity,
                 past     |-> Meaning!Compose(StateOf(x).past, StateOf(x).relation)]
<1> DEFINE w   == Widened(x, block, predicates)
           sum == Sum(x.offset, x.ssa)
           P   == x.path \cap Aligned(x)
           S   == Summary(x, predicates)
<1>1. /\ x \in Node /\ x.ssa \in Indices /\ x.formula \in SUBSET Memories
      /\ x.offset \in Indices /\ x.path \in SUBSET Memories
      /\ Unassigned(x.formula, x.ssa) /\ Unassigned(x.path, x.offset)
      /\ InBounds(x.offset, x.ssa) /\ Covers(x)
  BY DEF NodeOK, Node
<1>2. w = [block |-> block, entering |-> S, ssa |-> Start, formula |-> Memories, offset |-> sum, path |-> P]
  BY DEF Widened
<1>3. sum \in Indices /\ \A v \in Variables : sum[v] = x.offset[v] + x.ssa[v]
  BY <1>1, SumIsIndex
<1>4. P = x.path \cap {m \in Memories : Shifted(m, x.offset) \in x.formula}
  BY DEF Aligned
<1>5. S \in SUBSET Stores
  BY DEF Summary
<1> HIDE DEF P
<1>6. /\ Unassigned(P, sum)
      /\ RelationOf(P, sum) = Meaning!Compose(RelationOf(x.path, x.offset), RelationOf(x.formula, x.ssa))
  BY <1>1, <1>4, AlignedRelation
<1>7. ASSUME NEW m \in P
      PROVE  At(m, sum) \in S
  <2>1. m \in Memories /\ m \in x.path /\ Shifted(m, x.offset) \in x.formula
    BY <1>4
  <2>2. /\ At(Shifted(m, x.offset), Start) = At(m, x.offset)
        /\ At(Shifted(m, x.offset), x.ssa) = At(m, sum)
    BY <1>1, <2>1, ShiftedAt
  <2>3. At(m, x.offset) \in x.entering
    BY <1>1, <2>1 DEF Covers
  <2>4. At(m, sum) \in Stores
    BY <1>3, <2>1, AtIsStore
  <2> HIDE DEF sum
  <2> QED BY <2>1, <2>2, <2>3, <2>4 DEF Summary
<1>8. S = Meaning!Strongest(Meaning!Image(RelationOf(x.formula, x.ssa), x.entering), predicates)
  BY <1>1, SummaryIsImage
<1> HIDE DEF w, sum, S
<1>9. w \in Node
  BY <1>1, <1>2, <1>3, <1>4, <1>5, StartIsIndex DEF Node
<1>10. InBounds(sum, Start)
  <2>1. ASSUME NEW v \in Variables
        PROVE  sum[v] + Start[v] <= MaxVersion
    <3>1. sum[v] \in Versions
      BY <1>3, IndexIsNat
    <3> QED BY <3>1, EncodingAssumption DEF Versions, Start
  <2> QED BY <2>1 DEF InBounds
<1>11. NodeOK(w)
  BY <1>2, <1>6, <1>7, <1>9, <1>10, MemoriesUnassigned DEF NodeOK, Covers
<1>12. /\ w.block = block /\ w.entering = S
       /\ RelationOf(w.formula, w.ssa) = Meaning!Identity
       /\ RelationOf(w.path, w.offset) = RelationOf(P, sum)
  BY <1>2, IdentityRelation
<1>13. /\ StateOf(x).relation = RelationOf(x.formula, x.ssa)
       /\ StateOf(x).entering = x.entering
       /\ StateOf(x).past = RelationOf(x.path, x.offset)
  BY DEF StateOf
<1>14. StateOf(w) = [block |-> block, entering |-> S, relation |-> Meaning!Identity, past |-> RelationOf(P, sum)]
  BY <1>12 DEF StateOf
<1> QED BY <1>6, <1>8, <1>11, <1>12, <1>13, <1>14 DEF w

-----------------------------------------------------------------------------
(* The steps. *)

LEMMA AppendInv ==
  ASSUME IInv, NEW e \in DOMAIN node, NEW n, NodeOK(n), SameBlock(n, node[e]), node' = Append(node, n)
  PROVE  IInv'
<1>1. n \in Node /\ node \in Seq(Node) /\ Len(node) \in Nat /\ Len(node) > 0
  BY DEF IInv, NodeOK
<1>2. /\ node' \in Seq(Node) /\ Len(node') = Len(node) + 1
      /\ DOMAIN node = 1 .. Len(node) /\ DOMAIN node' = 1 .. Len(node) + 1
      /\ \A x \in 1 .. Len(node) : node'[x] = node[x]
      /\ node'[Len(node) + 1] = n
  BY <1>1
<1>3. Len(node') \in Nat /\ Len(node') > 0
  BY <1>1, <1>2
<1>4. ASSUME NEW x \in DOMAIN node'
      PROVE  \/ x \in DOMAIN node /\ node'[x] = node[x]
             \/ x = Len(node) + 1 /\ node'[x] = n
  BY <1>1, <1>2
<1>5. n.block <= Len(node) + 1
  <2>1. n.block = node[e].block /\ node[e].block <= e /\ e <= Len(node)
    BY <1>2 DEF SameBlock, IInv
  <2>2. n.block \in Nat /\ e \in Nat
    BY <1>1, <1>2 DEF Node
  <2> QED BY <1>1, <2>1, <2>2
<1>6. ASSUME NEW x \in DOMAIN node'
      PROVE  NodeOK(node'[x]) /\ node'[x].block <= x
  BY <1>4, <1>5 DEF IInv
<1>7. ASSUME NEW x \in DOMAIN node
      PROVE  SameBefore(node[x], n) /\ SameBefore(n, node[x])
  BY DEF IInv, SameBefore, SameBlock
<1>8. ASSUME NEW x \in DOMAIN node', NEW y \in DOMAIN node'
      PROVE  SameBefore(node'[x], node'[y])
  <2>1. SameBefore(n, n)
    BY DEF SameBefore
  <2>2. x \in DOMAIN node /\ y \in DOMAIN node => SameBefore(node[x], node[y])
    BY DEF IInv
  <2> QED BY <1>4, <1>7, <2>1, <2>2
<1> QED BY <1>2, <1>3, <1>6, <1>8 DEF IInv

(* An operation. *)
LEMMA TransferStep ==
  ASSUME IInv, Room, NEW e \in DOMAIN node, NEW n, NEW change,
         Follows(n, node[e], change), node' = Append(node, n),
         change \in {AssignmentChange(a) : a \in Assignments}
                     \cup {DeclarationChange(v) : v \in Variables}
                     \cup {ConditionChange(S) : S \in Conditions}
  PROVE  IInv' /\ Meaning!Next
<1>1. NodeOK(n) /\ n \in Node /\ SameBlock(n, node[e]) /\ node \in Seq(Node)
  BY DEF Follows, NodeOK, IInv
<1>2. IInv'
  BY <1>1, AppendInv
<1>3. States' = Append(States, StateOf(n))
  BY <1>1, StatesAppend
<1>4. /\ DOMAIN States = DOMAIN node /\ Len(States) = Len(node)
      /\ States[e] = StateOf(node[e])
  BY <1>1, StatesAre
<1>5. StateOf(n) = [States[e] EXCEPT !.relation = Meaning!Compose(@, change)]
  BY <1>4 DEF Follows
<1>6. Meaning!Transfer
  BY <1>3, <1>4, <1>5 DEF Meaning!Transfer, Room
<1> QED BY <1>2, <1>6 DEF Meaning!Next

LEMMA StoreStep ==
  ASSUME IInv, Store
  PROVE  IInv' /\ Meaning!Next
<1>1. PICK e \in DOMAIN node, a \in Assignments :
        /\ InBounds(node[e].offset, NewVersion(node[e].ssa, a.variable))
        /\ node' = Append(node, Stored(node[e], a))
  BY DEF Store
<1>2. NodeOK(node[e])
  BY DEF IInv
<1>3. Follows(Stored(node[e], a), node[e], AssignmentChange(a))
  BY <1>1, <1>2, StoredFollows
<1> QED BY <1>1, <1>3, TransferStep DEF Store

LEMMA DeclareStep ==
  ASSUME IInv, Declare
  PROVE  IInv' /\ Meaning!Next
<1>1. PICK e \in DOMAIN node, v \in Variables :
        /\ InBounds(node[e].offset, NewVersion(node[e].ssa, v))
        /\ node' = Append(node, Declared(node[e], v))
  BY DEF Declare
<1>2. NodeOK(node[e])
  BY DEF IInv
<1>3. Follows(Declared(node[e], v), node[e], DeclarationChange(v))
  BY <1>1, <1>2, DeclaredFollows
<1> QED BY <1>1, <1>3, TransferStep DEF Declare

LEMMA AssumeStep ==
  ASSUME IInv, Assume
  PROVE  IInv' /\ Meaning!Next
<1>1. PICK e \in DOMAIN node, S \in Conditions : node' = Append(node, Assumed(node[e], S))
  BY DEF Assume
<1>2. NodeOK(node[e])
  BY DEF IInv
<1>3. Follows(Assumed(node[e], S), node[e], ConditionChange(S))
  BY <1>1, <1>2, AssumedFollows
<1> QED BY <1>1, <1>3, TransferStep DEF Assume

LEMMA MergeStep ==
  ASSUME IInv, Merge
  PROVE  IInv' /\ Meaning!Next
<1>1. PICK x \in DOMAIN node, y \in DOMAIN node :
        /\ node[x].block = node[y].block
        /\ node' = Append(node, Merged(node[x], node[y]))
  BY DEF Merge
<1>2. NodeOK(node[x]) /\ NodeOK(node[y]) /\ SameBefore(node[x], node[y]) /\ node \in Seq(Node)
  BY DEF IInv
<1> DEFINE n == Merged(node[x], node[y])
<1>3. /\ NodeOK(n) /\ SameBlock(n, node[x])
      /\ StateOf(n) = [StateOf(node[x]) EXCEPT !.relation = @ \cup StateOf(node[y]).relation]
  BY <1>1, <1>2, MergedFollows
<1> HIDE DEF n
<1>4. node' = Append(node, n)
  BY <1>1 DEF n
<1>5. IInv'
  BY <1>3, <1>4, AppendInv
<1>6. n \in Node
  BY <1>3 DEF NodeOK
<1>7. States' = Append(States, StateOf(n))
  BY <1>2, <1>4, <1>6, StatesAppend
<1>8. /\ DOMAIN States = DOMAIN node /\ Len(States) = Len(node)
      /\ States[x] = StateOf(node[x]) /\ States[y] = StateOf(node[y])
  BY <1>2, StatesAre
<1>9. States[x].block = States[y].block
  BY <1>1, <1>8 DEF StateOf
<1>10. StateOf(n) = [States[x] EXCEPT !.relation = @ \cup States[y].relation]
  BY <1>3, <1>8
<1>11. Meaning!Merge
  BY <1>7, <1>8, <1>9, <1>10 DEF Meaning!Merge, Merge, Room
<1> QED BY <1>5, <1>11 DEF Meaning!Next

LEMMA WidenStep ==
  ASSUME IInv, Widen
  PROVE  IInv' /\ Meaning!Next
<1> DEFINE x == Len(node)
<1>1. PICK predicates \in Precisions : node' = [node EXCEPT ![x] = Widened(node[x], x, predicates)]
  BY DEF Widen
<1>2. /\ node \in Seq(Node) /\ x \in Nat /\ x > 0 /\ DOMAIN node = 1 .. x /\ x \in DOMAIN node
      /\ NodeOK(node[x]) /\ node[x].block # x
  BY DEF IInv, Widen
<1>3. PICK w : w = Widened(node[x], x, predicates)
  OBVIOUS
<1>4. /\ NodeOK(w) /\ w.block = x
      /\ StateOf(w)
           = [block    |-> x,
              entering |-> Meaning!Strongest(Meaning!Image(StateOf(node[x]).relation, StateOf(node[x]).entering), predicates),
              relation |-> Meaning!Identity,
              past     |-> Meaning!Compose(StateOf(node[x]).past, StateOf(node[x]).relation)]
  BY <1>2, <1>3, WidenedFollows
<1>5. w \in Node
  BY <1>4 DEF NodeOK
<1>6. node' = [node EXCEPT ![x] = w]
  BY <1>1, <1>3
<1>7. /\ node' \in Seq(Node) /\ DOMAIN node' = DOMAIN node /\ Len(node') = x
      /\ \A y \in DOMAIN node : node'[y] = IF y = x THEN w ELSE node[y]
  BY <1>2, <1>5, <1>6
<1>8. ASSUME NEW y \in DOMAIN node'
      PROVE  NodeOK(node'[y]) /\ node'[y].block <= y
  BY <1>2, <1>4, <1>7 DEF IInv
<1>9. ASSUME NEW y \in DOMAIN node, y # x
      PROVE  node[y].block # x
  <2>1. node[y].block <= y /\ y \in 1 .. x /\ node[y] \in Node
    BY <1>2 DEF IInv, NodeOK
  <2>2. node[y].block \in Nat
    BY <2>1 DEF Node
  <2> QED BY <1>2, <1>9, <2>1, <2>2
<1>10. ASSUME NEW y \in DOMAIN node', NEW z \in DOMAIN node'
       PROVE  SameBefore(node'[y], node'[z])
  <2>1. SameBefore(w, w)
    BY DEF SameBefore
  <2>2. SameBefore(node[y], node[z])
    BY <1>7 DEF IInv
  <2>3. y # x => SameBefore(node[y], w) /\ SameBefore(w, node[y])
    BY <1>4, <1>7, <1>9 DEF SameBefore
  <2>4. z # x => SameBefore(node[z], w) /\ SameBefore(w, node[z])
    BY <1>4, <1>7, <1>9 DEF SameBefore
  <2> QED BY <1>7, <2>1, <2>2, <2>3, <2>4
<1>11. IInv'
  BY <1>2, <1>7, <1>8, <1>10 DEF IInv
<1>12. States' = [States EXCEPT ![x] = StateOf(w)]
  BY <1>2, <1>5, <1>6, StatesReplaced
<1>13. Len(States) = x /\ States[x] = StateOf(node[x])
  BY <1>2, StatesAre
<1> HIDE DEF x
<1>14. Meaning!Widen
  BY <1>4, <1>12, <1>13 DEF Meaning!Widen
<1> QED BY <1>11, <1>14 DEF Meaning!Next

LEMMA InitHolds ==
  ASSUME Init
  PROVE  IInv /\ Meaning!Init
<1>1. node = <<Root>> /\ NodeOK(Root) /\ Root \in Node
  BY RootOK DEF Init, NodeOK
<1>2. node \in Seq(Node) /\ Len(node) = 1 /\ DOMAIN node = {1} /\ node[1] = Root
  BY <1>1
<1>3. Root.block = 1
  BY DEF Root
<1>4. SameBefore(Root, Root)
  BY DEF SameBefore
<1>5. IInv
  BY <1>1, <1>2, <1>3, <1>4 DEF IInv
<1>6. StateOf(Root) = Meaning!Root
  BY IdentityRelation DEF StateOf, Root, Meaning!Root
<1>7. States = <<Meaning!Root>>
  BY <1>1, <1>2, <1>6 DEF States
<1> QED BY <1>5, <1>7 DEF Meaning!Init

(* What TransferStep and its like say of the steps, and stuttering.            *)
LEMMA NextHolds ==
  ASSUME IInv, [Next]_node
  PROVE  IInv' /\ [Meaning!Next]_States
<1>1. CASE Store
  BY <1>1, StoreStep
<1>2. CASE Declare
  BY <1>2, DeclareStep
<1>3. CASE Assume
  BY <1>3, AssumeStep
<1>4. CASE Merge
  BY <1>4, MergeStep
<1>5. CASE Widen
  BY <1>5, WidenStep
<1>6. CASE UNCHANGED node
  <2>1. IInv'
    BY <1>6 DEF IInv
  <2>2. States' = States
    BY <1>6 DEF States
  <2> QED BY <2>1, <2>2
<1> QED BY <1>1, <1>2, <1>3, <1>4, <1>5, <1>6 DEF Next

-----------------------------------------------------------------------------
(* For every program, and however branches merge and blocks start, the         *)
(* formulas stand for the relations and summaries that Blocks computes         *)
(* (SSATransferRelation, SSAMergeOperator, BooleanPredicateAbstraction,       *)
(* alignSsaIndices).                                                         *)
THEOREM EncodingCorrect == Spec => ImplementsBlocks
<1>1. Init => IInv /\ Meaning!Init
  BY InitHolds
<1>2. IInv /\ [Next]_node => IInv' /\ [Meaning!Next]_States
  BY NextHolds
<1> QED BY <1>1, <1>2, PTL DEF Spec, ImplementsBlocks, Meaning!Spec

(* No summary excludes a trace whose path formula has a model                  *)
(* (BooleanPredicateAbstraction.computeAbstraction).                         *)
THEOREM SummariesAreSound == Spec => []SummariesCover
<1>1. Init => IInv
  BY InitHolds
<1>2. IInv /\ [Next]_node => IInv'
  BY NextHolds
<1>3. IInv => SummariesCover
  BY DEF IInv, NodeOK, Covers, SummariesCover
<1> QED BY <1>1, <1>2, <1>3, PTL DEF Spec
=============================================================================
