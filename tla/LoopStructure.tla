---------------------------- MODULE LoopStructure ----------------------------
(***************************************************************************)
(* What the analyses know of the loops of a transition relation: dominators   *)
(* (ControlDominance, after Lengauer and Tarjan), loop heads and loops, and    *)
(* the wait-at-meet order (TransitionRelation); and how a thread keeps its     *)
(* loop stack with it (ControlTransferRelation.getLoopAction, popLoop).       *)
(***************************************************************************)
EXTENDS TransitionRelations, FiniteSetsExt, SequencesExt

CONSTANTS
  Relations,      \* the transition relations
  MaxStack        \* a bound of the model: the height of the loop stack

VARIABLES
  rel,       \* the relation, fixed in the initial state
  pc,        \* dfs, semi, loops, order, walk
  path,      \* the calls of a depth-first search: [at, rest]
  count,     \* how many locations it has numbered
  dfs,       \* the number of a location, 0 if it has none
  tree,      \* [parent, pred] of each location in the depth-first search
  forest,    \* [ancestor, label] of each location
  semi,      \* the number of its semi-dominator
  bucket,    \* the locations whose semi-dominator it is
  dom,       \* dominatedBy; 0 is no location
  current,   \* the number of the location whose semi-dominator is computed
  preds,     \* what remains of its predecessors
  heads,     \* the loop heads
  loopOf,    \* the head of the loop that a location belongs to, 0 for none
  wam,       \* the wait-at-meet number
  thread     \* [at, loops, mark]: where a thread is, its loop stack, and a place it was at

vars == <<rel, pc, path, count, dfs, tree, forest, semi, bucket, dom, current, preds,
          heads, loopOf, wam, thread>>

domVars  == <<dfs, tree, forest, semi, bucket, dom, current, preds>>
loopVars == <<heads, loopOf>>

Locs     == rel.locs
NoLoc    == 0
NoPlace  == [at |-> NoLoc, loops |-> <<>>]
Targets(l) == {t.to : t \in From(rel, l)}
Sources(l) == {t.from : t \in Into(rel, l)}
EntryOf(r) == CHOOSE l \in r.entry : TRUE
Entry    == EntryOf(rel)
IsSimple(r) == r.entry \subseteq r.locs /\ \E l \in r.entry : r.entry = {l}

ASSUME RelationsAssumption ==
  \A r \in Relations :
    /\ IsSimple(r)
    /\ r.locs \subseteq Nat \ {NoLoc}
    /\ IsFiniteSet(r.locs)
    /\ \A t \in r.trans : t.from \in r.locs /\ t.to \in r.locs

-----------------------------------------------------------------------------
(* Dominators. *)

NoTree    == [l \in Locs |-> [parent |-> NoLoc, pred |-> <<>>]]
NoForest == [l \in Locs |-> [ancestor |-> NoLoc, label |-> l]]
NoBuckets == [l \in Locs |-> {}]

Init ==
  /\ rel \in Relations
  /\ pc = "dfs"
  /\ path = <<[at |-> Entry, rest |-> Targets(Entry)]>>
  /\ count = 1
  /\ dfs = [l \in Locs |-> IF l = Entry THEN 1 ELSE 0]
  /\ tree = NoTree
  /\ forest = NoForest
  /\ semi = <<>>
  /\ bucket = NoBuckets
  /\ dom = [l \in Locs |-> NoLoc]
  /\ current = 0
  /\ preds = <<>>
  /\ heads = {}
  /\ loopOf = [l \in Locs |-> NoLoc]
  /\ wam = [l \in Locs |-> 0]
  /\ thread = [at |-> Entry, loops |-> <<>>, mark |-> NoPlace]

Added(s, x) == IF \E i \in DOMAIN s : s[i] = x THEN s ELSE Append(s, x)

(* step1: go to a location without a number, or note the predecessor of one   *)
(* that has a number; in any order of the successors.                        *)
DfsStep ==
  /\ pc = "dfs"
  /\ path # <<>>
  /\ \E k \in Last(path).rest :
       LET l    == Last(path).at
           left == Append(Front(path), [Last(path) EXCEPT !.rest = @ \ {k}])
       IN IF dfs[k] = 0
            THEN /\ dfs' = [dfs EXCEPT ![k] = count + 1]
                 /\ count' = count + 1
                 /\ path' = Append(left, [at |-> k, rest |-> Targets(k)])
                 /\ tree' = [tree EXCEPT ![k].parent = l]
          ELSE /\ path' = left
               /\ tree' = [tree EXCEPT ![k].pred = Added(@, l)]
               /\ UNCHANGED <<dfs, count>>
  /\ UNCHANGED <<rel, pc, forest, semi, bucket, dom, current, preds, loopVars, wam, thread>>

WithNumber(i) == CHOOSE l \in Locs : dfs[l] = i

(* A call returns; its caller notes the predecessor.                         *)
DfsReturn ==
  /\ pc = "dfs"
  /\ path # <<>>
  /\ Last(path).rest = {}
  /\ path' = Front(path)
  /\ tree' = IF Len(path) = 1 THEN tree
             ELSE [tree EXCEPT ![Last(path).at].pred = Added(@, path[Len(path) - 1].at)]
  /\ UNCHANGED <<rel, pc, count, dfs, forest, semi, bucket, dom, current, preds, loopVars, wam, thread>>

StartVertex(i, p) ==
  /\ current' = i
  /\ pc' = p
  /\ preds' = IF i > 1 THEN tree[WithNumber(i)].pred ELSE <<>>

DfsEnd ==
  /\ pc = "dfs"
  /\ path = <<>>
  /\ semi' = dfs
  /\ StartVertex(count, "semi")
  /\ UNCHANGED <<rel, path, count, dfs, tree, forest, bucket, dom, loopVars, wam, thread>>

(* eval and compress: the label of l, and the forest in which l and what is   *)
(* above it point to the root.                                               *)
Anc(l) == forest[l].ancestor

Compressed(l) ==
  LET new[k \in Locs] ==
        IF Anc(k) = NoLoc THEN forest[k]
        ELSE IF Anc(Anc(k)) = NoLoc THEN forest[k]
        ELSE LET above == new[Anc(k)]
             IN [ancestor |-> above.ancestor,
                 label    |-> IF semi[above.label] < semi[forest[k].label]
                                THEN above.label ELSE forest[k].label]
  IN new[l]

AboveOf(l) ==
  LET up[n \in Nat] == IF n = 0 THEN {l}
                       ELSE LET S == up[n - 1] IN S \cup ({Anc(k) : k \in S} \ {NoLoc})
  IN up[count]

EvalMutantItself(l) == l
Eval(l) == IF Anc(l) = NoLoc THEN l ELSE Compressed(l).label
CompressedAll(L) == [k \in Locs |-> IF \E l \in L : k \in AboveOf(l) THEN Compressed(k) ELSE forest[k]]

(* step2: a predecessor of the vertex; each links it to the forest.           *)
SemiDominator ==
  /\ pc = "semi"
  /\ current > 1
  /\ preds # <<>>
  /\ LET w == WithNumber(current)
         v == Head(preds)
         s == Min({semi[Eval(v)], semi[w]})
     IN /\ semi' = [semi EXCEPT ![w] = s]
        /\ bucket' = [bucket EXCEPT ![WithNumber(s)] = @ \cup {w}]
        /\ forest' = [CompressedAll({v}) EXCEPT ![w].ancestor = tree[w].parent]
  /\ preds' = Tail(preds)
  /\ UNCHANGED <<rel, pc, path, count, dfs, tree, dom, current, loopVars, wam, thread>>

(* step3: the bucket of its parent. *)
Bucket ==
  /\ pc = "semi"
  /\ current > 1
  /\ preds = <<>>
  /\ LET parent == tree[WithNumber(current)].parent
     IN /\ dom' = [v \in Locs |-> IF v \notin bucket[parent] THEN dom[v]
                                  ELSE IF semi[Eval(v)] < semi[v] THEN Eval(v) ELSE parent]
        /\ forest' = CompressedAll(bucket[parent])
        /\ bucket' = [bucket EXCEPT ![parent] = {}]
  /\ StartVertex(current - 1, "semi")
  /\ UNCHANGED <<rel, path, count, dfs, tree, semi, loopVars, wam, thread>>

(* step4: from 2 up to the last number but one, dom[dom[w]] is assigned what   *)
(* it is already.                                                            *)
ExplicitDominators ==
  /\ pc = "semi"
  /\ current <= 1
  /\ dom' = [dom EXCEPT ![Entry] = NoLoc]
  /\ pc' = "loops"
  /\ UNCHANGED <<rel, path, count, dfs, tree, forest, semi, bucket, current, preds, loopVars, wam, thread>>

IsDominatedBy(l, d) ==
  LET up[n \in Nat] == IF n = 0 THEN l
                       ELSE LET k == up[n - 1] IN IF k = NoLoc THEN k ELSE dom[k]
  IN \E n \in 0 .. Cardinality(Locs) : up[n] = d

-----------------------------------------------------------------------------
(* Loops. *)

BackEdges == {t \in rel.trans : dfs[t.from] >= dfs[t.to]}

LoopHeads == {t.to : t \in {u \in BackEdges : IsDominatedBy(u.from, u.to)}}

(* collectNodesBackwardsFromReaching *)
CollectedUpTo(l, head) ==
  Closure(LAMBDA S : (UNION {Sources(k) : k \in S}) \ {head}, l, Cardinality(Locs))

BodyOfMutantThroughHead(head) ==
  UNION {CollectedUpTo(t.from, NoLoc) : t \in {u \in BackEdges : u.to = head /\ u.from # head}}

BodyOf(head) ==
  UNION {CollectedUpTo(t.from, head) : t \in {u \in BackEdges : u.to = head /\ u.from # head}}

(* The loops are visited such that a head comes before what dominates it; a   *)
(* location belongs to the first loop whose body has it.  Of loops that the   *)
(* order leaves open, any one is the first.                                   *)
FindLoops ==
  /\ pc = "loops"
  /\ LET found == LoopHeads
         body  == [h \in found |-> BodyOf(h)]
         first(around) == {h \in around : \A g \in around : g # h => ~IsDominatedBy(g, h)}
     IN /\ heads' = found
        /\ loopOf' = [l \in Locs |->
                        LET around == {h \in found : l \in body[h]}
                        IN IF around = {} THEN NoLoc ELSE CHOOSE h \in first(around) : TRUE]
  /\ pc' = "order"
  /\ count' = 0
  (* Only the computation of the dominators reads these.                     *)
  /\ dfs' = [l \in Locs |-> 0]
  /\ tree' = NoTree
  /\ forest' = NoForest
  /\ semi' = <<>>
  /\ bucket' = NoBuckets
  /\ UNCHANGED <<rel, path, dom, current, preds, wam, thread>>

-----------------------------------------------------------------------------
(* The wait-at-meet order: a depth-first search against the transitions       *)
(* numbers a location when it is left; the heads come last.                  *)

Unseen == {l \in Locs : wam[l] = 0 /\ ~\E i \in DOMAIN path : path[i].at = l}

EnterMutantForwards(l) == path' = Append(path, [at |-> l, rest |-> Targets(l)])
Enter(l) == path' = Append(path, [at |-> l, rest |-> Sources(l)])

OrderRoot ==
  /\ pc = "order"
  /\ path = <<>>
  /\ Unseen # {}
  /\ \E l \in {Min(Unseen), Max(Unseen)} : Enter(l)
  /\ count' = count + 1
  /\ UNCHANGED <<rel, pc, domVars, loopVars, wam, thread>>

OrderStep ==
  /\ pc = "order"
  /\ path # <<>>
  /\ \E l \in Last(path).rest \cap Unseen : Enter(l)
  /\ count' = count + 1
  /\ UNCHANGED <<rel, pc, domVars, loopVars, wam, thread>>

OrderLeave ==
  /\ pc = "order"
  /\ path # <<>>
  /\ Last(path).rest \cap Unseen = {}
  /\ wam' = [wam EXCEPT ![Last(path).at] = count + 1]
  /\ path' = Front(path)
  /\ count' = count + 1
  /\ UNCHANGED <<rel, pc, domVars, loopVars, thread>>

EnteringMax(h) == Max({wam[l] : l \in Sources(h)})

(* computeWaitAtMeetNumbering: heads by the largest number that leads to them. *)
OrderHeads ==
  /\ pc = "order"
  /\ path = <<>>
  /\ Unseen = {}
  /\ wam' = [l \in Locs |->
       IF l \notin heads THEN wam[l]
       ELSE count + 1 + Cardinality({h \in heads :
              \/ EnteringMax(h) < EnteringMax(l)
              \/ EnteringMax(h) = EnteringMax(l) /\ h < l})]
  /\ pc' = "walk"
  /\ UNCHANGED <<rel, path, count, domVars, loopVars, thread>>

-----------------------------------------------------------------------------
(* A thread steps from a location to the next one. *)

(* popLoop: the bottom of the stack is never counted.                        *)
PopLoop(loops) ==
  LET same == {i \in 2 .. Len(loops) : \A j \in i .. Len(loops) : loops[j] = Last(loops)}
  IN SubSeq(loops, 1, Len(loops) - Cardinality(same))

(* getLoopAction *)
Entering(l, k) == loopOf[k] = l \/ (loopOf[k] = NoLoc /\ k = l)
Leaving(l, loops) == loops # <<>> /\ Last(loops) = l

LoopsAfterMutantOnce(l, k, loops) ==
  IF l \notin heads THEN loops
  ELSE IF Leaving(l, loops) THEN IF Entering(l, k) THEN loops ELSE PopLoop(loops)
  ELSE IF Entering(l, k) THEN Append(loops, l)
  ELSE loops

LoopsAfter(l, k, loops) ==
  IF l \notin heads THEN loops
  ELSE IF Entering(l, k) THEN Append(loops, l)
  ELSE IF Leaving(l, loops) THEN PopLoop(loops)
  ELSE loops

Place == [at |-> thread.at, loops |-> thread.loops]

Walk ==
  /\ pc = "walk"
  /\ Len(thread.loops) < MaxStack
  /\ \E k \in Targets(thread.at), mark \in {thread.mark, Place} :
       /\ thread.mark # NoPlace => mark = thread.mark
       /\ thread' = [at |-> k, loops |-> LoopsAfter(thread.at, k, thread.loops), mark |-> mark]
  /\ UNCHANGED <<rel, pc, path, count, domVars, loopVars, wam>>

Dominators == DfsStep \/ DfsReturn \/ DfsEnd \/ SemiDominator \/ Bucket \/ ExplicitDominators
Order      == OrderRoot \/ OrderStep \/ OrderLeave \/ OrderHeads

Next == Dominators \/ FindLoops \/ Order \/ Walk

Spec == Init /\ [][Next]_vars

-----------------------------------------------------------------------------
(* Properties. *)

(* What is computed does not change any more: it is looked at once.           *)
Computed == pc = "loops"
Found    == pc = "order" /\ count = 0

ReachesWithout(l, d) ==
  Closure(LAMBDA S : (UNION {Targets(k) : k \in S}) \ {d}, l, Cardinality(Locs))

Dominates(d, l) == d = l \/ d = Entry \/ l \notin ReachesWithout(Entry, d)
Reached == ReachesWithout(Entry, NoLoc)

(* The last location, other than l, that every path from the entry to l passes. *)
ImmediateDominator(l) ==
  CHOOSE d \in Reached \ {l} :
    Dominates(d, l) /\ \A e \in Reached \ {l} : Dominates(e, l) => Dominates(e, d)

(* The immediate dominators are defined implicitly: what a location has got is *)
(* its immediate dominator, or a location that has the same one              *)
(* (ControlDominance.step3).                                                  *)
DominatorsImplied ==
  Computed => \A l \in Reached \ {Entry} :
    \/ dom[l] = ImmediateDominator(l)
    \/ dom[l] \in Reached \ {Entry} /\ ImmediateDominator(dom[l]) = ImmediateDominator(l)

(* And in the end explicitly (ControlDominance.step4): what getDominatedBy     *)
(* returns, and isDominatedBy follows, is the immediate dominator.           *)
DominatorsRight ==
  Computed => \A l \in Reached \ {Entry} : dom[l] = ImmediateDominator(l)

(* The body of a loop is what a cycle through its head, and through no other  *)
(* location that dominates it, passes: a location belongs to the innermost    *)
(* loop around it (getLoops, getIsInLoopBodyOf).                              *)
NaturalLoop(h) ==
  UNION {CollectedUpTo(t.from, h) : t \in {u \in rel.trans : u.to = h /\ u.from # h /\ Dominates(h, u.from)}}
Innermost(l) ==
  LET around == {h \in heads : l \in NaturalLoop(h)}
  IN {h \in around : \A g \in around : Dominates(g, h)}
BodiesRight ==
  Found => \A l \in Reached :
    IF Innermost(l) = {} THEN loopOf[l] = NoLoc ELSE loopOf[l] \in Innermost(l)

(* At a meet the analysis waits: of two locations that a transition connects, *)
(* and that are not on a cycle, the first one has the smaller number          *)
(* (getWaitAtMeetOrderOf).                                                    *)
MeetsWait ==
  pc = "walk" =>
    \A t \in rel.trans :
      {t.from, t.to} \cap heads = {} /\ t.from \notin ReachesWithout(t.to, NoLoc) =>
        wam[t.from] < wam[t.to]

(* A thread never is at the same location with the same loop stack again: the *)
(* states of different iterations differ, and are not merged.                *)
Unrolls == Place # thread.mark
=============================================================================
