----------------------------- MODULE BuiltPrograms -----------------------------
(***************************************************************************)
(* What AppBuilder, RelationBuildingVisitor and TransitionRelations make     *)
(* sure of in the programs they build, and what the theorems about whole     *)
(* programs need besides.  Everything here is about the program k alone.     *)
(***************************************************************************)
EXTENDS ControlScheduler

SystemMessage(id) == [id |-> id, dest |-> "SYSTEM"]
IsSend(s)         == s.kind \in {"broadcast", "broadcastWait"}

ThreadsOf(k)       == DOMAIN k.script
MonitorsOf(k)      == {t \in ThreadsOf(k) : k.script[t].event = "afterStatement"}
TerminatorsOf(k)   == {t \in ThreadsOf(k) : k.script[t].event = "termination"}
BootstrappersOf(k) == {t \in ThreadsOf(k) : k.script[t].event = "singularity"}

GoesOn(k, r, l) == l \in DOMAIN k.relations[r] /\ k.relations[r][l] # {}

-----------------------------------------------------------------------------
(* Relations.                                                                *)

(* Locations are numbers.  introduceEntryExitEpsilonTransition: no step leads *)
(* to an entry, and only an epsilon or a return leads to an end.             *)
OwnEntryAndExit(k) ==
  /\ \A r \in DOMAIN k.relations : DOMAIN k.relations[r] \subseteq Int
  /\ \A t \in ThreadsOf(k) : GoesOn(k, k.script[t].rel, k.script[t].entry)
  /\ \A m \in DOMAIN k.methods : GoesOn(k, m, k.methods[m].entry)
  /\ \A r \in DOMAIN k.relations : \A l \in DOMAIN k.relations[r] : \A s \in k.relations[r][l] :
       /\ s.kind \notin {"epsilon", "return"} => GoesOn(k, r, s.to)
       /\ \A t \in ThreadsOf(k) : k.script[t].rel = r => s.to # k.script[t].entry
       /\ r \in DOMAIN k.methods => s.to # k.methods[r].entry

(* A location with a broadcast has no other step, and steps between the same  *)
(* locations are alike for monitors.                                         *)
StepsApart(k) ==
  \A r \in DOMAIN k.relations : \A l \in DOMAIN k.relations[r] :
    \A s, u \in k.relations[r][l] :
      /\ IsSend(s) => u = s
      /\ s.to = u.to => (s.kind \in Unrelated <=> u.kind \in Unrelated)

(* depth: the atomic sections around a location.  They are nested, a method   *)
(* ends with a return outside of its own ones, and a script does not end or   *)
(* stop inside of one.                                                       *)
SectionsNest(k, depth) ==
  /\ \A t \in ThreadsOf(k) : /\ k.script[t].rel \notin DOMAIN k.methods
                             /\ depth[k.script[t].rel][k.script[t].entry] = 0
  /\ \A m \in DOMAIN k.methods : depth[m][k.methods[m].entry] = 0
  /\ \A r \in DOMAIN k.relations : \A l \in DOMAIN k.relations[r] : \A s \in k.relations[r][l] :
       /\ {depth[r][l], depth[r][s.to]} \subseteq Nat
       /\ depth[r][s.to] = CASE s.kind = "beginAtomic" -> depth[r][l] + 1
                             [] s.kind = "endAtomic" -> depth[r][l] - 1
                             [] s.kind = "return" -> depth[r][s.to]
                             [] OTHER -> depth[r][l]
       /\ s.kind = "return" => r \in DOMAIN k.methods /\ depth[r][l] = 0
       /\ s.kind = "stopAll" => r \notin DOMAIN k.methods /\ depth[r][l] = 0
       /\ s.kind # "return" /\ ~GoesOn(k, r, s.to)
            => r \notin DOMAIN k.methods /\ depth[r][s.to] = 0

-----------------------------------------------------------------------------
(* Scripts.                                                                  *)

(* What is restarted neither waits, nor calls, nor has atomic sections.       *)
RestartablePlain(k) ==
  \A t \in ThreadsOf(k) : k.script[t].restart \/ t \in MonitorsOf(k) =>
    \A l \in DOMAIN k.relations[k.script[t].rel] : \A s \in k.relations[k.script[t].rel][l] :
      s.kind \notin {"call", "beginAtomic", "waitSeconds", "broadcastWait"}

(* Actors.defaultTerminator, defaultBoostraper: one terminator, and a         *)
(* bootstrapper that is no observer.  There is one monitor, and qualified     *)
(* handlers are addressed by their namespace.                                *)
Cast(k) ==
  /\ \A m, n \in MonitorsOf(k) : m = n
  /\ \A x, y \in TerminatorsOf(k) : x = y
  /\ \A b \in BootstrappersOf(k) : ~k.script[b].observer
  /\ \A r \in DOMAIN k.relations : \A l \in DOMAIN k.relations[r] : \A s \in k.relations[r][l] :
       IsSend(s) /\ s.arg.dest \in {"self", "other"} =>
         \A t \in ThreadsOf(k) : ~(/\ k.script[t].event = "message"
                                   /\ k.script[t].msg.id = s.arg.id
                                   /\ k.script[t].msg.ns # "none")

(* Neither monitors nor the terminator send, nor what they call.             *)
QuietCast(k) ==
  LET Mute(q) == \A r \in q : \A l \in DOMAIN k.relations[r] : \A s \in k.relations[r][l] :
                   ~IsSend(s) /\ (s.kind = "call" => s.arg \in q)
  IN /\ \A t \in MonitorsOf(k) : ~k.script[t].program
     /\ \A t \in MonitorsOf(k) \cup TerminatorsOf(k) :
          \E q \in SUBSET DOMAIN k.relations : Mute(q) /\ k.script[t].rel \in q

(* Actors.defaultBoostraper: phase tells how many of its three messages the   *)
(* bootstrapper has sent; nobody else sends them.                            *)
PhasesFollow(k, phase) ==
  /\ \A b \in BootstrappersOf(k) :
       /\ phase[k.script[b].entry] = 0
       /\ \A t \in ThreadsOf(k) \ {b} : k.script[t].rel # k.script[b].rel
       /\ \A l \in DOMAIN k.relations[k.script[b].rel] : \A s \in k.relations[k.script[b].rel][l] :
            /\ {phase[l], phase[s.to]} \subseteq 0 .. 3
            /\ s.kind # "call"
            /\ phase[s.to] = IF IsSend(s) THEN phase[l] + 1 ELSE phase[l]
            /\ IsSend(s) => /\ phase[l] < 3
                            /\ s.arg = SystemMessage(<<"bootstrap", "finished", "green">>[phase[l] + 1])
                            /\ phase[l] < 2 => s.kind = "broadcastWait"
  /\ \A r \in DOMAIN k.relations : (\A b \in BootstrappersOf(k) : r # k.script[b].rel) =>
       \A l \in DOMAIN k.relations[r] : \A s \in k.relations[r][l] :
         IsSend(s) => s.arg.dest # "SYSTEM"

-----------------------------------------------------------------------------
WellBuiltBy(k, depth, phase) ==
  /\ OwnEntryAndExit(k) /\ StepsApart(k) /\ SectionsNest(k, depth)
  /\ RestartablePlain(k) /\ Cast(k) /\ QuietCast(k) /\ PhasesFollow(k, phase)
WellBuilt(k) == \E depth, phase : WellBuiltBy(k, depth, phase)
===============================================================================
