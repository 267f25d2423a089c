-------------------------------- MODULE Blocks --------------------------------
(***************************************************************************)
(* What the encoding of a program in formulas promises to the algorithms: a   *)
(* state stands for a relation between the data where its block starts and    *)
(* the present, whichever way the branches of the block took; a block starts  *)
(* with a summary of what may enter it; and the blocks before it can be put    *)
(* together to one relation, from the start of the program on.               *)
(***************************************************************************)
EXTENDS Integers, Sequences, BlockRelations

CONSTANTS
  Changes,                 \* what operations do to the data, as relations
  Precisions,              \* the sets of predicates that may be in use
  MaxStates                \* a bound of the model: the number of states

VARIABLE state             \* the states, in the order of their creation

Root == [block |-> 1, entering |-> Values, relation |-> Identity, past |-> Identity]

Init == state = <<Root>>

Transfer ==
  /\ Len(state) < MaxStates
  /\ \E e \in DOMAIN state, change \in Changes :
       state' = Append(state, [state[e] EXCEPT !.relation = Compose(@, change)])

Merge ==
  /\ Len(state) < MaxStates
  /\ \E x, y \in DOMAIN state :
       /\ state[x].block = state[y].block
       /\ state' = Append(state, [state[x] EXCEPT !.relation = @ \cup state[y].relation])

Widen ==
  LET x == Len(state)
      s == state[x]
  IN \E predicates \in Precisions :
       state' = [state EXCEPT ![x] =
                  [block    |-> x,
                   entering |-> Strongest(Image(s.relation, s.entering), predicates),
                   relation |-> Identity,
                   past     |-> Compose(s.past, s.relation)]]

Next == Transfer \/ Merge \/ Widen

Spec == Init /\ [][Next]_state
=============================================================================
