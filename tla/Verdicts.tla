------------------------------- MODULE Verdicts -------------------------------
(***************************************************************************)
(* What an analysis with several properties promises to who waits for its     *)
(* result (MultiPropertyResultCallback): a property is found to be violated    *)
(* at some time, for good and for a reason; the others stay unknown until     *)
(* the end, and are satisfied then only if nothing was left unexplored.       *)
(***************************************************************************)
CONSTANTS Properties

VARIABLES
  wrong,       \* the properties that the program violates; never changes
  violated, satisfied, unknown,
  ended

vars == <<wrong, violated, satisfied, unknown, ended>>

Init ==
  /\ wrong \subseteq Properties
  /\ violated = {}
  /\ satisfied = {}
  /\ unknown = Properties
  /\ ended = FALSE

(* Properties are found to be violated; the analysis may end with that.       *)
Find ==
  /\ ~ended
  /\ \E found \in SUBSET wrong :
       /\ violated' = violated \cup found
       /\ unknown' = unknown \ found
  /\ ended' \in BOOLEAN
  /\ UNCHANGED <<wrong, satisfied>>

(* Everything is explored, and the last violations are found with it.        *)
Complete ==
  /\ ~ended
  /\ violated' = wrong
  /\ satisfied' = Properties \ wrong
  /\ unknown' = {}
  /\ ended' = TRUE
  /\ UNCHANGED wrong

Next == Find \/ Complete

Spec == Init /\ [][Next]_vars
=============================================================================
