------------------------------- MODULE Encoding -------------------------------
(***************************************************************************)
(* How the stack of analyses below the control analysis represents data: the  *)
(* data analysis collects constraints in a formula, the SSA analysis gives    *)
(* every assigned variable a new version and brings versions together when    *)
(* states are merged, and the abstraction analysis starts blocks.  When the   *)
(* refiner puts the blocks of a trace together, it shifts their versions.     *)
(*                                                                         *)
(* A formula is the set of its models: memories, which give a value to every  *)
(* version of every variable.  Where states merge and where blocks start is   *)
(* up to the control analysis and left open, but for the block they are in.   *)
(***************************************************************************)
EXTENDS Integers, Sequences

CONSTANTS
  Variables, Values,       \* the variables of a program, their values
  Assignments,             \* [variable, value]: the value as a function of the store
  Conditions,              \* the conditions of assume operations: sets of stores
  Precisions,              \* the sets of predicates, each one a set of stores
  MaxVersion, MaxStates    \* bounds of the model: versions of a variable, states

VARIABLE node              \* the states, in the order of their creation

Versions == 0 .. MaxVersion
Indices  == [Variables -> Versions]                  \* SSAMap
Stores   == [Variables -> Values]
Memories == [Variables -> [Versions -> Values]]

ASSUME EncodingAssumption ==
  /\ MaxVersion \in Nat /\ MaxStates \in Nat
  /\ Assignments \subseteq [variable : Variables, value : [Stores -> Values]]
  /\ Conditions \subseteq SUBSET Stores
  /\ Precisions \subseteq SUBSET SUBSET Stores

-----------------------------------------------------------------------------
(* Versions of variables. *)

(* The store that a memory holds at the versions of ssa. *)
At(m, ssa) == [v \in Variables |-> m[v][ssa[v]]]

(* The versions at the start of a block: getIndex of a variable that is not in *)
(* the SSA map (NOT_DECLARED_INDEX).                                         *)
Start == [v \in Variables |-> 0]

NewVersion(ssa, v) == [ssa EXCEPT ![v] = @ + 1]

Sum(offset, ssa) == [v \in Variables |-> offset[v] + ssa[v]]

LaterMutantFirst(ssa1, ssa2) == ssa1

Later(ssa1, ssa2) == [v \in Variables |-> IF ssa1[v] >= ssa2[v] THEN ssa1[v] ELSE ssa2[v]]

InBounds(offset, ssa) == \A v \in Variables : offset[v] + ssa[v] <= MaxVersion

-----------------------------------------------------------------------------
(* States: block, entering (blockId, enteringSummary), the versions ssa and    *)
(* the formula of the block; and of the blocks before it the conjunction path  *)
(* of their aligned formulas, with the versions offset they end with.        *)

Root == [block |-> 1, entering |-> Stores, ssa |-> Start, formula |-> Memories,
         offset |-> Start, path |-> Memories]

With(x, ssa, formula) ==
  [block |-> x.block, entering |-> x.entering, ssa |-> ssa, formula |-> formula,
   offset |-> x.offset, path |-> x.path]

StoredMutantTargetFirst(x, a) ==
  LET ssa == NewVersion(x.ssa, a.variable)
  IN With(x, ssa, {m \in x.formula : m[a.variable][ssa[a.variable]] = a.value[At(m, ssa)]})

(* A new version equals the value of the expression, whose variables are read *)
(* in their versions before.                                                 *)
Stored(x, a) ==
  LET ssa == NewVersion(x.ssa, a.variable)
  IN With(x, ssa, {m \in x.formula : m[a.variable][ssa[a.variable]] = a.value[At(m, x.ssa)]})

(* A declared variable has a new version that may have any value. *)
Declared(x, v) == With(x, NewVersion(x.ssa, v), x.formula)

Assumed(x, condition) == With(x, x.ssa, {m \in x.formula : At(m, x.ssa) \in condition})

(* x with a new name for the current versions: x@new = x@old. *)
Synced(x, ssa) == {m \in x.formula : At(m, ssa) = At(m, x.ssa)}

Merged(x, y) ==
  LET ssa == Later(x.ssa, y.ssa)
  IN With(x, ssa, Synced(x, ssa) \cup Synced(y, ssa))

SummaryMutantUninstantiated(x, predicates) ==
  {s \in Stores : \E m \in x.formula :
     /\ At(m, Start) \in x.entering
     /\ \A p \in predicates : s \in p <=> At(m, Start) \in p}

(* The strongest combination of the predicates, instantiated at the end of the *)
(* block, that the summary at its start and its formula imply.                *)
Summary(x, predicates) ==
  {s \in Stores : \E m \in x.formula :
     /\ At(m, Start) \in x.entering
     /\ \A p \in predicates : s \in p <=> At(m, x.ssa) \in p}

(* The memory as the formula of a block after the offset sees it, a version i *)
(* being i + offset.  No formula talks of versions out of the bounds.          *)
Shifted(m, offset) ==
  [v \in Variables |-> [i \in Versions |->
     m[v][IF offset[v] + i <= MaxVersion THEN offset[v] + i ELSE MaxVersion]]]

Aligned(x) == {m \in Memories : Shifted(m, x.offset) \in x.formula}

WidenedMutantOffset(x, block, predicates) ==
  [block |-> block, entering |-> Summary(x, predicates), ssa |-> Start, formula |-> Memories,
   offset |-> x.ssa, path |-> x.path \cap Aligned(x)]

(* The end of a block.  The state of the wrapped analyses becomes top; the     *)
(* refiner would find the old one behind it, and align it with its predecessors. *)
Widened(x, block, predicates) ==
  [block |-> block, entering |-> Summary(x, predicates), ssa |-> Start, formula |-> Memories,
   offset |-> Sum(x.offset, x.ssa), path |-> x.path \cap Aligned(x)]

-----------------------------------------------------------------------------
(* The steps of the analyses. *)

Init == node = <<Root>>

Room == Len(node) < MaxStates

Store ==
  /\ Room
  /\ \E e \in DOMAIN node, a \in Assignments :
       /\ InBounds(node[e].offset, NewVersion(node[e].ssa, a.variable))
       /\ node' = Append(node, Stored(node[e], a))

Declare ==
  /\ Room
  /\ \E e \in DOMAIN node, v \in Variables :
       /\ InBounds(node[e].offset, NewVersion(node[e].ssa, v))
       /\ node' = Append(node, Declared(node[e], v))

Assume ==
  /\ Room
  /\ \E e \in DOMAIN node, condition \in Conditions :
       node' = Append(node, Assumed(node[e], condition))

(* States of the same block; one that starts it has a control of its own.     *)
Merge ==
  /\ Room
  /\ \E x, y \in DOMAIN node :
       /\ x # y
       /\ node[x].block = node[y].block
       /\ node[x].block \notin {x, y}
       /\ node' = Append(node, Merged(node[x], node[y]))

(* A state is widened once, right after it was created. *)
Widen ==
  LET x == Len(node)
  IN /\ node[x].block # x
     /\ \E predicates \in Precisions : node' = [node EXCEPT ![x] = Widened(@, x, predicates)]

Next == Store \/ Declare \/ Assume \/ Merge \/ Widen

Spec == Init /\ [][Next]_node

-----------------------------------------------------------------------------
(* What the formulas stand for. *)

RelationOf(formula, ssa) == {<<At(m, Start), At(m, ssa)>> : m \in formula}

StateOf(x) ==
  [block    |-> x.block,
   entering |-> x.entering,
   relation |-> RelationOf(x.formula, x.ssa),
   past     |-> RelationOf(x.path, x.offset)]

States == [x \in DOMAIN node |-> StateOf(node[x])]

AssignmentChange(a) == {<<s, [s EXCEPT ![a.variable] = a.value[s]]>> : s \in Stores}
DeclarationChange(v) == UNION {{<<s, [s EXCEPT ![v] = c]>> : s \in Stores} : c \in Values}
ConditionChange(S) == {<<s, s>> : s \in S}

Meaning == INSTANCE Blocks WITH
  Values  <- Stores,
  state   <- States,
  Changes <- {AssignmentChange(a) : a \in Assignments}
               \cup {DeclarationChange(v) : v \in Variables}
               \cup {ConditionChange(S) : S \in Conditions}

-----------------------------------------------------------------------------
(* Properties. *)

(* Every step of the analyses is a step on relations: versions are read and    *)
(* given in the right order, merging keeps both branches apart and loses      *)
(* neither, a summary is the abstraction of what leaves the block, and the     *)
(* aligned formulas of a trace fit together (SSATransferRelation.abstractSuccFor, *)
(* SSAMergeOperator.merge, BooleanPredicateAbstraction, alignSsaIndices).     *)
ImplementsBlocks == Meaning!Spec

(* The summary with which a block is entered holds after each model of the    *)
(* blocks before: the abstraction never excludes a trace that the refiner     *)
(* finds feasible (computeAbstraction, checkIsFeasible).                     *)
SummariesCover ==
  \A x \in DOMAIN node : \A m \in node[x].path : At(m, node[x].offset) \in node[x].entering
=============================================================================
