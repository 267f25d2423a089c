----------------------------- MODULE FrontierSets -----------------------------
(***************************************************************************)
(* The set of states that wait for being expanded, DifferencingFrontierSet: *)
(* one heap for each partition, and a heap of the partitions whose turn is  *)
(* still to come in the current round.  keys[x] is the record [part, rank]  *)
(* of the element x: its partition and its place in the order within it.    *)
(***************************************************************************)
EXTENDS Integers, FiniteSets, Bags, FiniteSetsExt

(* What the heaps hold, with the copies; the elements; the number of         *)
(* elements that the set believes to have; the partitions it has heard of;   *)
(* those whose turn is to come.                                              *)
EmptyFrontier == [heap |-> EmptyBag, elements |-> {}, size |-> 0, parts |-> {}, turns |-> {}]

IsEmpty(f) == f.size = 0

Filled(keys, f) == {keys[x].part : x \in DOMAIN f.heap}

(* The partitions, largest first, without the empty ones at the beginning.   *)
From(keys, f, ps) == {p \in ps : \E q \in ps : q >= p /\ q \in Filled(keys, f)}

(* activateNextPeekPartition: the next turn; when the round is over and all   *)
(* partitions are empty although elements are expected, it does not return.  *)
Activated(keys, f) ==
  LET rest  == IF f.turns = {} THEN {} ELSE f.turns \ {Max(f.turns)}
      found == From(keys, f, IF rest = {} THEN f.parts ELSE rest)
  IN [f EXCEPT !.turns = IF found # {} \/ IsEmpty(f) THEN found ELSE From(keys, f, f.parts)]

Endless(f) == f.size > 0 /\ f.heap = EmptyBag

FrontierAdd(keys, f, x) ==
  [f EXCEPT !.heap = @ (+) SetToBag({x}), !.elements = @ \cup {x}, !.size = @ + 1,
            !.parts = @ \cup {keys[x].part}]

FrontierRemoveMutantSize(keys, f, x) ==
  Activated(keys,
    [f EXCEPT !.heap = @ (-) SetToBag({x}), !.elements = @ \ {x}, !.size = @ - 1,
              !.parts = @ \cup {keys[x].part}])

FrontierRemove(keys, f, x) ==
  Activated(keys,
    [f EXCEPT !.heap = @ (-) SetToBag({x}), !.elements = @ \ {x},
              !.size = IF x \in f.elements THEN @ - 1 ELSE @,
              !.parts = @ \cup {keys[x].part}])

FrontierRemoveAll(keys, f, xs) == FoldSet(LAMBDA x, g : FrontierRemove(keys, g, x), f, xs)

(* peek: in the partition whose turn it is, the least by its rank, the older  *)
(* one of equals.                                                            *)
Peeked(keys, f) == IF f.turns = {} THEN Activated(keys, f) ELSE f

Before(keys, x, y) == keys[x].rank < keys[y].rank \/ (keys[x].rank = keys[y].rank /\ x <= y)

IsNext(keys, f, x) ==
  LET mine == {y \in DOMAIN f.heap : keys[y].part = Max(Peeked(keys, f).turns)}
  IN x \in mine /\ \A y \in mine : Before(keys, x, y)
=============================================================================
