--------------------------- MODULE ControlScheduler ---------------------------
(***************************************************************************)
(* The interleaving of the threads of a program, as computed by            *)
(* ControlTransferRelation.abstractSucc: the thread that is RUNNING makes   *)
(* one step of its control flow, threads are triggered, put to sleep and    *)
(* woken up, and the thread that runs next is chosen.  The values of the    *)
(* program variables belong to the wrapped analyses and are abstracted:     *)
(* every branch may be taken, a condition waited for may hold or not.       *)
(***************************************************************************)
EXTENDS Integers, Sequences, FiniteSets

CONSTANT Tasks          \* the programs under analysis, see IsTask

VARIABLES
  task,             \* the program, fixed in the initial state
  threads,          \* threadStates: what every thread does
  condThreads,      \* conditionStates: the conditions somebody waits for
  lastNonObserver,  \* lastSteppedNonObserverThreadIndices
  thrown            \* the internal checks that failed; the analysis stops then

vars == <<task, threads, condThreads, lastNonObserver, thrown>>

-----------------------------------------------------------------------------
(* Programs.  Threads are numbered from 0 in the order of the thread list.  *)

CompStates == {"R", "W", "D", "Y", "F", "P"}

Unrelated == {"epsilon", "broadcast", "broadcastWait", "call", "waitSeconds"}
Ordinary  == {"epsilon", "statement", "terminate", "stopOthers", "stopThis"}
OpKinds   == Unrelated \cup Ordinary
               \cup {"beginAtomic", "endAtomic", "return", "stopAll", "signal"}

EventKinds == {"singularity", "message", "afterStatement", "termination", "never"}

(* A broadcast carries [id, dest]; dest is "self", another actor, or the     *)
(* name of a namespace.  A handler listens to [id, ns]; ns = "none" is the   *)
(* unqualified namespace.                                                    *)
BootstrapFinished == [id |-> "finished", dest |-> "SYSTEM"]

IsScript(k, sc) ==
  /\ sc.event \in EventKinds
  /\ {sc.observer, sc.program, sc.restart} \subseteq BOOLEAN
  /\ sc.rel \in DOMAIN k.relations
  /\ sc.entry \in Int
  /\ sc.event = "singularity" =>                        \* the bootstrapper is not empty
       sc.entry \in DOMAIN k.relations[sc.rel] /\ k.relations[sc.rel][sc.entry] # {}

IsTransition(k, s) ==
  /\ s.kind \in OpKinds
  /\ s.to \in Int
  /\ s.kind = "call" => s.arg \in DOMAIN k.methods

IsTask(k) ==
  /\ k.n \in Nat \ {0}
  /\ DOMAIN k.script = 0 .. k.n - 1
  /\ \A t \in 0 .. k.n - 1 : IsScript(k, k.script[t])
  /\ \A t, u \in 0 .. k.n - 1 :                         \* there is one bootstrapper
       k.script[t].event = "singularity" /\ k.script[u].event = "singularity" => t = u
  /\ \A r \in DOMAIN k.relations : \A l \in DOMAIN k.relations[r] :
       \A s \in k.relations[r][l] : IsTransition(k, s)
  /\ \A m \in DOMAIN k.methods : /\ m \in DOMAIN k.relations
                                 /\ k.methods[m].entry \in Int
                                 /\ k.methods[m].atomic \in BOOLEAN

ASSUME TasksAssumption == \A k \in Tasks : IsTask(k)

Threads   == 0 .. task.n - 1
Script(t) == task.script[t]
Observers == {t \in Threads : Script(t).observer}
Monitors  == {t \in Threads : Script(t).event = "afterStatement"}

CondOf(t)  == task.n + t    \* the condition thread that t waits for
CondIds    == {CondOf(t) : t \in Threads}

(* The transitions [kind, arg, to] that leave a location.  Location ids are   *)
(* unique in the program: a relation knows no transitions of another one.    *)
Leaving(th) ==
  LET table == task.relations[th.loc.rel]
  IN IF th.loc.at \in DOMAIN table THEN table[th.loc.at] ELSE {}
HasLeaving(th) == Leaving(th) # {}

IsTarget == \E t \in Threads : threads[t].failed

(* An internal check of the analysis that fails under a condition.           *)
When(condition, fault) == IF condition THEN {fault} ELSE {}

-----------------------------------------------------------------------------
(* Initial state: the bootstrapping thread runs, monitors and terminator are *)
(* disabled, every other script waits for its trigger.                       *)

InitialThread(t) ==
  [comp    |-> CASE Script(t).event = "singularity" -> "R"
                 [] Script(t).event \in {"afterStatement", "termination"} -> "P"
                 [] OTHER -> "D",
   loc     |-> [rel |-> Script(t).rel, at |-> Script(t).entry],
   calls   |-> <<>>,
   atomic  |-> 0,
   waiting |-> {},
   failed  |-> FALSE]

Init ==
  /\ task \in Tasks
  /\ threads = [t \in Threads |-> InitialThread(t)]
  /\ condThreads = {}
  /\ lastNonObserver = {}
  /\ thrown = {}

-----------------------------------------------------------------------------
(* Message dispatch.                                                         *)

IsHandlerFor(t, sender, m) ==
  /\ Script(t).event = "message"
  /\ Script(t).msg.id = m.id
  /\ IF Script(t).msg.ns = "none"
       THEN \/ m.dest = "self" /\ Script(t).actor = Script(sender).actor
            \/ m.dest = "USER"
       ELSE Script(t).msg.ns = m.dest

Receivers(sender, m) == {t \in Threads : IsHandlerFor(t, sender, m)}

(* A message to an actor must not carry the id of a qualified handler.       *)
Misaddressed(m) ==
  /\ m.dest \in {"self", "other"}
  /\ \E t \in Threads : /\ Script(t).event = "message"
                        /\ Script(t).msg.id = m.id
                        /\ Script(t).msg.ns # "none"

(* restartThread: the relation of the location, the call stack and the       *)
(* atomic nesting stay what they are.                                        *)
Restarted(t, th) == [th EXCEPT !.comp = "Y", !.loc.at = Script(t).entry]

(* Mutants: the test for an active receiver inverted; the attribute restart  *)
(* ignored.                                                                  *)
TriggeredMutantInverted(ths, receivers) ==
  {r \in receivers : ths[r].comp \in {"W", "Y", "R"} \/ Script(r).restart}
TriggeredMutantNoRestart(ths, receivers) ==
  {r \in receivers : ths[r].comp \notin {"W", "Y", "R"}}

(* The receivers a broadcast (re)starts.                                     *)
Triggered(ths, receivers) ==
  {r \in receivers : ths[r].comp \notin {"W", "Y", "R"} \/ Script(r).restart}

Dispatched(ths, receivers) ==
  [r \in Threads |-> IF r \in Triggered(ths, receivers)
                      THEN Restarted(r, ths[r]) ELSE ths[r]]

DispatchFaults(ths, receivers, m) ==
  When(\E r \in Triggered(ths, receivers) : ths[r].waiting # {}, "state change while waiting")
    \cup When(Misaddressed(m), "misaddressed message")

-----------------------------------------------------------------------------
(* After the operation: finish threads, activate monitors, wake up waiters.  *)

(* Mutant: threads at their end are not switched to DONE here.               *)
TerminatedMutant(ths) == ths

(* switchToTerminated *)
Terminated(ths) ==
  [t \in Threads |-> IF /\ ths[t].comp # "F"
                        /\ ths[t].waiting = {}
                        /\ ~HasLeaving(ths[t])
                     THEN [ths[t] EXCEPT !.comp = "D"] ELSE ths[t]]

(* Mutant: the test for a disabled monitor inverted.                         *)
MonitorsAfterMutant(ths, t, s) ==
  IF s.kind \in Unrelated \/ ~Script(t).program THEN {}
  ELSE {m \in Monitors : ths[m].comp = "P"}

(* The monitors to activate after step s of thread t: those that are enabled,*)
(* if the step changes the state of the program.                             *)
MonitorsAfter(ths, t, s) ==
  IF s.kind \in Unrelated \/ ~Script(t).program THEN {}
  ELSE {m \in Monitors : ths[m].comp # "P"}

(* Every restart starts from the state before all of them, so that only the  *)
(* last one has an effect.                                                   *)
Monitored(ths, t, s) ==
  [m \in Threads |-> IF /\ m \in MonitorsAfter(ths, t, s)
                        /\ \A u \in MonitorsAfter(ths, t, s) : u <= m
                     THEN Restarted(m, ths[m]) ELSE ths[m]]

(* Mutant: whoever gave up the processor counts as finished.                 *)
StillWaitingForMutantYield(ths, t) ==
  {w \in ths[t].waiting : ~(w \in Threads /\ ths[w].comp \in {"D", "Y"})}

(* Whom t still waits for: condition threads are not in the list of threads. *)
StillWaitingFor(ths, t) ==
  {w \in ths[t].waiting : ~(w \in Threads /\ ths[w].comp = "D")}

(* Wake-up; it reads the state before the monitors were activated.           *)
WokenUp(before, ths) ==
  [t \in Threads |->
     IF before[t].waiting = {} THEN ths[t]
     ELSE [ths[t] EXCEPT !.waiting = StillWaitingFor(before, t),
                         !.comp = IF StillWaitingFor(before, t) = {} THEN "Y" ELSE @]]

(* Threads that wait for a condition.                                        *)
CondWaiters(ths, conds) == {t \in Threads : ths[t].comp = "W" /\ ths[t].waiting \cap conds # {}}

ProgramCanRun(ths) == \E t \in Threads : Script(t).program /\ ths[t].comp \in {"Y", "R"}

(* Mutant: time is not advanced if nothing else can happen.                  *)
SatisfiedSetsMutant(ths, conds) == SUBSET CondWaiters(ths, conds)

(* Those whose condition may hold: any of them as long as a program thread   *)
(* can run.  Otherwise time is advanced to the only condition there is.      *)
SatisfiedSets(ths, conds) ==
  IF conds = {} THEN {{}}
  ELSE IF ProgramCanRun(ths) THEN SUBSET CondWaiters(ths, conds)
  ELSE {CondWaiters(ths, conds)}

(* Mutant: a thread whose condition holds goes on at once.                   *)
ReleasedMutant(ths, conds, satisfied) ==
  [t \in Threads |-> IF t \in satisfied
                     THEN [ths[t] EXCEPT !.waiting = @ \ conds, !.comp = "R"]
                     ELSE ths[t]]

Released(ths, conds, satisfied) ==
  [t \in Threads |-> IF t \in satisfied
                     THEN [ths[t] EXCEPT !.waiting = @ \ conds, !.comp = "Y"]
                     ELSE ths[t]]

StillNeeded(ths, conds) == {c \in conds : \E t \in Threads : c \in ths[t].waiting}

-----------------------------------------------------------------------------
(* schedule: choose the thread that runs next.                               *)

Yielding(ths) == {t \in Threads : ths[t].comp = "Y"}
Running(ths)  == {t \in Threads : ths[t].comp = "R"}

(* Mutant: one thread less is looked at.                                     *)
NextFromMutant(start, candidates) ==
  LET hits == {i \in 0 .. task.n - 2 : (start + 2 + i) % task.n \in candidates}
      first == CHOOSE i \in hits : \A j \in hits : i <= j
  IN IF hits = {} THEN -1 ELSE (start + 2 + first) % task.n

(* getNextYieldThreadFrom: the search looks at start + 2 first, and at       *)
(* start + 1 after start itself; -1 if there is no candidate.                *)
NextFrom(start, candidates) ==
  LET hits == {i \in 0 .. task.n : (start + 2 + i) % task.n \in candidates}
      first == CHOOSE i \in hits : \A j \in hits : i <= j
  IN IF hits = {} THEN -1 ELSE (start + 2 + first) % task.n

(* Mutant: observers are not preferred. *)
NextObserverMutant(ths, t) == -1
NextObserver(ths, t) == NextFrom(t, Yielding(ths) \cap Observers)

(* Mutant: every thread can go on. *)
IsSteppableMutant(th) == TRUE
IsSteppable(th) == th.comp \in {"R", "Y"}

(* determineNextThreadToStep: observers first; after the observers, go on    *)
(* from the program thread that was stepped last.                            *)
NextToStep(ths, t) ==
  LET origin == IF t \in Observers THEN CHOOSE u \in lastNonObserver : TRUE ELSE t
  IN IF NextObserver(ths, t) > -1 THEN NextObserver(ths, t)
     ELSE IF Yielding(ths) # {} THEN NextFrom(origin, Yielding(ths))
     ELSE IF IsSteppable(ths[t]) THEN t
     ELSE -1

(* Mutant: the outermost section does not count.                             *)
ContinuesAtomicallyMutantOuter(th) == HasLeaving(th) /\ th.atomic > 1 /\ th.waiting = {}

(* The stepped thread continues if it is inside an atomic block.             *)
ContinuesAtomically(th) == HasLeaving(th) /\ th.atomic > 0 /\ th.waiting = {}

(* The stepped thread gives up the processor. *)
Preempted(ths, t) ==
  [ths EXCEPT ![t].comp = IF ~HasLeaving(ths[t]) THEN "D"
                          ELSE IF @ = "R" THEN "Y" ELSE @]

(* Give the processor to a thread, or terminate if nobody can take it.       *)
GivenTo(ths, next) ==
  IF next > -1 THEN [ths EXCEPT ![next].comp = "R"]
  ELSE [t \in Threads |->
          IF Script(t).event = "termination" /\ ths[t].comp = "P"
          THEN [ths[t] EXCEPT !.comp = "R"] ELSE ths[t]]

Scheduled(ths, t) ==
  IF ContinuesAtomically(ths[t]) THEN [ths EXCEPT ![t].comp = "R"]
  ELSE GivenTo(Preempted(ths, t), NextToStep(Preempted(ths, t), t))

ScheduleFaults(ths, t) ==
  LET yielded == Preempted(ths, t)
      next    == GivenTo(yielded, NextToStep(yielded, t))
  IN IF ContinuesAtomically(ths[t]) THEN {}
     ELSE When(~HasLeaving(ths[t]) /\ ths[t].waiting # {}, "state change while waiting")
            \cup When(/\ t \in Observers
                      /\ Yielding(yielded) \cap Observers = {}
                      /\ Cardinality(lastNonObserver) # 1, "no last program thread")
            \cup When(\E u \in Running(next) : ~HasLeaving(next[u]), "running without steps")
            \cup When(Cardinality(Running(next)) > 1, "two threads run")

ConditionFaults(ths, conds) ==
  When(conds # {} /\ ~ProgramCanRun(ths) /\ Cardinality(conds) # 1,
       "several conditions to accelerate")

MonitorFaults(ths, t, s) ==
  When(\E m \in MonitorsAfter(ths, t, s) : ths[m].waiting # {}, "state change while waiting")

(* An internal check fails: an exception ends the analysis.                  *)
Abort(faults) ==
  /\ thrown' = faults
  /\ UNCHANGED <<task, threads, condThreads, lastNonObserver>>

(* The part that every step has in common: ths and conds are the threads and *)
(* the conditions after the operation of step s of thread t.                 *)
Complete(t, s, ths, conds, faults) ==
  \E ended \in {Terminated(ths)} :
  \E woken \in {WokenUp(ended, Monitored(ended, t, s))} :
    LET early == faults \cup MonitorFaults(ended, t, s) \cup ConditionFaults(woken, conds)
    IN IF early # {} THEN Abort(early)
       ELSE \E satisfied \in SatisfiedSets(woken, conds) :
            \E released \in {Released(woken, conds, satisfied)} :
              IF ScheduleFaults(released, t) # {} THEN Abort(ScheduleFaults(released, t))
              ELSE /\ threads' = Scheduled(released, t)
                   /\ condThreads' = StillNeeded(released, conds)
                   /\ lastNonObserver' = IF t \in Observers THEN lastNonObserver ELSE {t}
                   /\ UNCHANGED <<task, thrown>>

-----------------------------------------------------------------------------
(* The operations.                                                           *)

(* A step s of the running thread t; no successors after a target state.     *)
CanStep(t, s, kinds) ==
  /\ s.kind \in kinds
  /\ thrown = {}
  /\ ~IsTarget

Moved(t, s) == [threads EXCEPT ![t].loc.at = s.to]

StepOrdinary(t, s) ==
  /\ CanStep(t, s, Ordinary)
  /\ Complete(t, s, Moved(t, s), condThreads, {})

StepBeginAtomic(t, s) ==
  /\ CanStep(t, s, {"beginAtomic"})
  /\ Complete(t, s, [Moved(t, s) EXCEPT ![t].atomic = @ + 1], condThreads, {})

(* Leave an atomic block or method; the nesting depth must not be 0. *)
AtomicFaults(t, by) == When(threads[t].atomic < by, "unbalanced atomic")

StepEndAtomic(t, s) ==
  /\ CanStep(t, s, {"endAtomic"})
  /\ Complete(t, s, [Moved(t, s) EXCEPT ![t].atomic = @ - 1], condThreads, AtomicFaults(t, 1))

Depth(method) == IF task.methods[method].atomic THEN 1 ELSE 0

StepCall(t, s) ==
  /\ CanStep(t, s, {"call"})
  /\ Complete(t, s,
       [threads EXCEPT ![t].loc = [rel |-> s.arg, at |-> task.methods[s.arg].entry],
                       ![t].calls = Append(@, [threads[t].loc EXCEPT !.at = s.to]),
                       ![t].atomic = @ + Depth(s.arg)],
       condThreads, {})

(* Mutants: the nesting depth is not decreased; it is for every method.      *)
StepReturnMutantAlways(t, s) ==
  LET calls == threads[t].calls
  IN /\ CanStep(t, s, {"return"})
     /\ calls # <<>>
     /\ Complete(t, s, [threads EXCEPT ![t].loc = calls[Len(calls)],
                                       ![t].calls = SubSeq(@, 1, Len(@) - 1),
                                       ![t].atomic = @ - 1],
                 condThreads, {})

StepReturn(t, s) ==
  LET calls  == threads[t].calls
      method == threads[t].loc.rel
  IN /\ CanStep(t, s, {"return"})
     /\ Complete(t, s,
          IF calls = <<>> THEN threads
          ELSE [threads EXCEPT ![t].loc = calls[Len(calls)],
                               ![t].calls = SubSeq(@, 1, Len(@) - 1),
                               ![t].atomic = @ - Depth(method)],
          condThreads,
          When(calls = <<>>, "return without call") \cup AtomicFaults(t, Depth(method)))

StepStopAll(t, s) ==
  /\ CanStep(t, s, {"stopAll"})
  /\ Complete(t, s,
       IF Script(t).event = "termination" THEN Moved(t, s)
       ELSE [Moved(t, s) EXCEPT ![t].comp = "D"],
       condThreads, {})

StepSignal(t, s) ==
  /\ CanStep(t, s, {"signal"})
  /\ Complete(t, s, [Moved(t, s) EXCEPT ![t].comp = "F", ![t].failed = TRUE], condThreads, {})

StepWaitSeconds(t, s) ==
  /\ CanStep(t, s, {"waitSeconds"})
  /\ Complete(t, s, [Moved(t, s) EXCEPT ![t].comp = "W", ![t].waiting = @ \cup {CondOf(t)}],
              condThreads \cup {CondOf(t)}, {})

StepBroadcast(t, s) ==
  LET receivers == Receivers(t, s.arg)
  IN /\ CanStep(t, s, {"broadcast"})
     /\ Complete(t, s, Dispatched(Moved(t, s), receivers), condThreads,
                 DispatchFaults(Moved(t, s), receivers, s.arg))

(* activateAfterStepMonitoring *)
MonitorsEnabled(ths) ==
  [m \in Threads |-> IF m \in Monitors /\ ths[m].comp = "P"
                     THEN [ths[m] EXCEPT !.comp = "D"] ELSE ths[m]]

(* Mutant: the sender does not wait. *)
AsleepMutant(ths, t, receivers) == ths

(* The sender waits for the receivers, if there are any. *)
Asleep(ths, t, receivers) ==
  IF receivers = {} THEN ths
  ELSE [ths EXCEPT ![t].comp = "W", ![t].waiting = @ \cup receivers]

StepBroadcastAndWait(t, s) ==
  LET receivers == Receivers(t, s.arg)
      asleep    == Asleep(Dispatched(Moved(t, s), receivers), t, receivers)
  IN /\ CanStep(t, s, {"broadcastWait"})
     /\ Complete(t, s, IF s.arg = BootstrapFinished THEN MonitorsEnabled(asleep) ELSE asleep,
                 condThreads, DispatchFaults(Moved(t, s), receivers, s.arg))

Step(t, s) ==
  \/ StepOrdinary(t, s)
  \/ StepBeginAtomic(t, s)
  \/ StepEndAtomic(t, s)
  \/ StepCall(t, s)
  \/ StepReturn(t, s)
  \/ StepStopAll(t, s)
  \/ StepSignal(t, s)
  \/ StepWaitSeconds(t, s)
  \/ StepBroadcast(t, s)
  \/ StepBroadcastAndWait(t, s)

(* chooseThreadsToStep and resolveLeavingOps                                 *)
Next == \E t \in Running(threads) : \E s \in Leaving(threads[t]) : Step(t, s)

Spec == Init /\ [][Next]_vars

(* The worklist algorithm goes on as long as there are successors.  This is  *)
(* WF_vars(Next) with ENABLED spelled out, which TLC evaluates too slowly: the*)
(* running thread has a step, and every step has an outcome.                 *)
HasSuccessor == /\ thrown = {}
                /\ ~IsTarget
                /\ \E t \in Running(threads) : HasLeaving(threads[t])

FairSpec == Spec /\ (<>[]HasSuccessor => []<><<Next>>_vars)

-----------------------------------------------------------------------------
(* Properties.                                                               *)

(* Every part of the state has its type.                                     *)
Locations == [rel : DOMAIN task.relations, at : Int]
ThreadStates ==
  [comp : CompStates, loc : Locations, calls : Seq(Locations), atomic : Nat,
   waiting : SUBSET (Threads \cup CondIds), failed : BOOLEAN]

TypeOK ==
  /\ threads \in [Threads -> ThreadStates]
  /\ condThreads \subseteq CondIds
  /\ lastNonObserver \subseteq Threads

(* checkSchedule holds in every state, also in those that the early return   *)
(* of schedule for atomic blocks produces without calling it: "For now, we    *)
(* assume that only one thread is executed concurrently", and "A thread with *)
(* no leaving ops must NOT be in state THREAD_STATE_RUNNING".                *)
OneRunning == \A t, u \in Threads : threads[t].comp = "R" /\ threads[u].comp = "R" => t = u
ScheduleChecked ==
  /\ OneRunning
  /\ \A t \in Threads : threads[t].comp = "R" => HasLeaving(threads[t])

(* A thread is in state WAIT exactly as long as there is something it waits  *)
(* for: no thread sleeps without a reason to, none runs while it should wait.*)
WaitsForSomething == \A t \in Threads : threads[t].comp = "W" <=> threads[t].waiting # {}

(* No lost wake-up: what a thread in state WAIT waits for can still come.     *)
(* Nobody waits for a thread that has finished already, nor for a condition  *)
(* that is not checked any more.                                             *)
NoLostWakeUp ==
  /\ WaitsForSomething
  /\ \A t \in Threads : \A w \in threads[t].waiting :
       IF w \in Threads THEN threads[w].comp # "D" ELSE w \in condThreads

(* "Running specification (observer) threads become executed first": while an*)
(* observer is ready, no other thread runs, except within an atomic block.   *)
ObserversFirst ==
  \A t \in Threads \ Observers :
    threads[t].comp = "R" /\ threads[t].atomic = 0 => Yielding(threads) \cap Observers = {}

(* "Finish the atomic operations without interruptions by another thread": a *)
(* thread that is inside an atomic block is never set back to YIELD when it  *)
(* has made a step; it keeps running unless it waits.                        *)
AtomicNotPreempted ==
  [][\A t \in Threads : threads[t].comp = "R" /\ threads'[t].atomic > 0
                          => threads'[t].comp \in {"R", "W"}]_vars

(* "Wait for all triggered threads to finish": from its broadcast on, a      *)
(* thread waits for each receiver until the step in which that one is done.  *)
Moves(t, s) == /\ threads[t].comp = "R"
               /\ thrown' = {}
               /\ threads'[t].loc = [threads[t].loc EXCEPT !.at = s.to]
WaitsUntilDone ==
  [][\A t \in Threads :
       LET sent == {s \in Leaving(threads[t]) : s.kind = "broadcastWait" /\ Moves(t, s)}
           owed == (threads[t].waiting \cap Threads) \cup UNION {Receivers(t, s.arg) : s \in sent}
       IN \A w \in owed : w \in threads'[t].waiting \/ threads'[w].comp = "D"]_vars

(* The terminator is for the end of the program: when it is active, no other *)
(* program thread can make a step.                                           *)
TerminatorLast ==
  \A t \in Threads : Script(t).event = "termination" /\ threads[t].comp \in {"R", "Y"}
    => \A u \in Threads \ {t} : Script(u).program => threads[u].comp \notin {"R", "Y"}

(* No internal check of the control analysis fails.                          *)
NoInternalError == thrown = {}

Active(t) == threads[t].comp \in {"R", "Y", "W"}
Handles(t, id) == Script(t).event = "message" /\ Script(t).msg = [id |-> id, ns |-> "SYSTEM"]

(* The phases of a program do not overlap: no setup handler, startup handler *)
(* or monitor is active before all bootstrap handlers are done, and no       *)
(* startup handler before the setup handlers are done.                       *)
PhasesInOrder ==
  /\ \A t, u \in Threads :
       Active(t) /\ Handles(t, "bootstrap") /\ Active(u)
         => ~Handles(u, "finished") /\ ~Handles(u, "green") /\ u \notin Monitors
  /\ \A t, u \in Threads :
       Active(t) /\ Handles(t, "finished") /\ Active(u) => ~Handles(u, "green")

(* A step of the program that may change its state activates every enabled   *)
(* monitor, at its entry, whatever the monitor was doing.                    *)
MonitorsActivated ==
  [][\A t \in Threads : \A s \in Leaving(threads[t]) :
       Moves(t, s) /\ Script(t).program /\ s.kind \notin Unrelated
       => \A m \in Monitors : threads[m].comp # "P" =>
            /\ threads'[m].comp \in {"R", "Y"}
            /\ threads'[m].loc = [rel |-> Script(m).rel, at |-> Script(m).entry]]_vars

(* A broadcast starts every handler of the message that is idle, and one with *)
(* the attribute restart whatever it was doing, at its entry and with nothing *)
(* left of an earlier run: no method to return to, no atomic section.         *)
BroadcastReachesAll ==
  [][\A t \in Threads : \A s \in Leaving(threads[t]) :
       Moves(t, s) /\ s.kind \in {"broadcast", "broadcastWait"}
       => \A r \in Receivers(t, s.arg) :
            /\ threads'[r].comp \in {"R", "Y", "W"}
            /\ threads[r].comp \in {"D", "F", "P"} \/ Script(r).restart
                 => /\ threads'[r].loc = [rel |-> Script(r).rel, at |-> Script(r).entry]
                    /\ threads'[r].calls = <<>> /\ threads'[r].atomic = 0]_vars

(* The program comes to its end: the terminator has run, and only monitors   *)
(* that were never enabled and finished threads are left.                    *)
Terminates ==
  <>[](\A t \in Threads : threads[t].comp = "D" \/ (t \in Monitors /\ threads[t].comp = "P"))
=============================================================================
