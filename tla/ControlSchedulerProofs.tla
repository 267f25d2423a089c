----------------------- MODULE ControlSchedulerProofs -----------------------
(***************************************************************************)
(* Proofs about ControlScheduler: for every set of programs; for programs as  *)
(* AppBuilder and TransitionRelations leave them; and for the phases of a     *)
(* program, in the order in which they build on each other.                  *)
(*                                                                         *)
(* A step of the model is a pipeline: the operation, Terminated, Monitored,   *)
(* WokenUp, Released, Scheduled.  Each stage is a function from thread        *)
(* tables to thread tables, so that what an invariant says of a thread        *)
(* table is proved stage by stage, once, and not action by action.           *)
(***************************************************************************)
EXTENDS BuiltPrograms, TLAPS, FiniteSetTheorems, WellFoundedInduction, SequenceTheorems

-----------------------------------------------------------------------------
(* Types.                                                                    *)

Tables == [Threads -> ThreadStates]

(* TypeOK together with the choice of the program. *)
TypeInv == task \in Tasks /\ TypeOK

(* The parts of the assumption on programs. *)
LEMMA TaskType ==
  ASSUME task \in Tasks
  PROVE  /\ task.n \in Nat \ {0}
         /\ \A t \in Threads : IsScript(task, Script(t))
         /\ \A r \in DOMAIN task.relations : \A l \in DOMAIN task.relations[r] :
              \A s \in task.relations[r][l] : IsTransition(task, s)
         /\ \A m \in DOMAIN task.methods : /\ m \in DOMAIN task.relations
                                           /\ task.methods[m].entry \in Int
                                           /\ task.methods[m].atomic \in BOOLEAN
BY TasksAssumption DEF IsTask, Threads, Script

(* Setting one component of a thread. *)
LEMMA SetComp ==
  ASSUME NEW th \in ThreadStates, NEW c \in CompStates
  PROVE  [th EXCEPT !.comp = c] \in ThreadStates
BY DEF ThreadStates

LEMMA SetAtomic ==
  ASSUME NEW tbl \in Tables, NEW t \in Threads, NEW d \in Nat
  PROVE  [tbl EXCEPT ![t].atomic = d] \in Tables
<1>1. [tbl[t] EXCEPT !.atomic = d] \in ThreadStates
  BY DEF Tables, ThreadStates
<1> QED
  BY <1>1 DEF Tables

LEMMA RestartedType ==
  ASSUME task \in Tasks, NEW t \in Threads, NEW th \in ThreadStates
  PROVE  Restarted(t, th) \in ThreadStates
<1>1. Script(t).entry \in Int
  BY TaskType DEF IsScript
<1>2. "Y" \in CompStates
  BY DEF CompStates
<1> QED
  BY <1>1, <1>2 DEF Restarted, ThreadStates, Locations

(* Every stage of a step maps thread tables to thread tables. *)
LEMMA DispatchedType ==
  ASSUME task \in Tasks, NEW ths \in Tables, NEW receivers
  PROVE  Dispatched(ths, receivers) \in Tables
BY RestartedType DEF Dispatched, Tables

LEMMA TerminatedType ==
  ASSUME NEW ths \in Tables
  PROVE  Terminated(ths) \in Tables
BY SetComp DEF Terminated, Tables, CompStates

LEMMA MonitoredType ==
  ASSUME task \in Tasks, NEW ths \in Tables, NEW t, NEW s
  PROVE  Monitored(ths, t, s) \in Tables
BY RestartedType DEF Monitored, Tables

LEMMA WokenUpType ==
  ASSUME NEW before \in Tables, NEW ths \in Tables
  PROVE  WokenUp(before, ths) \in Tables
<1> SUFFICES ASSUME NEW t \in Threads
             PROVE  WokenUp(before, ths)[t] \in ThreadStates
  BY DEF WokenUp, Tables
<1>1. StillWaitingFor(before, t) \in SUBSET (Threads \cup CondIds)
  BY DEF StillWaitingFor, Tables, ThreadStates
<1>2. ths[t] \in ThreadStates /\ "Y" \in CompStates
  BY DEF Tables, CompStates
<1> QED
  BY <1>1, <1>2 DEF WokenUp, ThreadStates

LEMMA ReleasedType ==
  ASSUME NEW ths \in Tables, NEW conds, NEW satisfied
  PROVE  Released(ths, conds, satisfied) \in Tables
<1> SUFFICES ASSUME NEW t \in Threads
             PROVE  Released(ths, conds, satisfied)[t] \in ThreadStates
  BY DEF Released, Tables
<1>1. ths[t] \in ThreadStates /\ "Y" \in CompStates
  BY DEF Tables, CompStates
<1> QED
  BY <1>1 DEF Released, ThreadStates

LEMMA ScheduledType ==
  ASSUME NEW ths \in Tables, NEW t \in Threads
  PROVE  Scheduled(ths, t) \in Tables
<1>1. ASSUME NEW tbl \in Tables, NEW u, NEW c \in CompStates
      PROVE  [tbl EXCEPT ![u].comp = c] \in Tables
  BY <1>1, SetComp DEF Tables
<1>2. Preempted(ths, t) \in Tables
  <2>1. ths[t].comp \in CompStates
    BY DEF Tables, ThreadStates
  <2> QED
    BY <2>1, <1>1 DEF Preempted, CompStates
<1>3. ASSUME NEW tbl \in Tables, NEW next
      PROVE  GivenTo(tbl, next) \in Tables
  BY <1>1, <1>3, SetComp DEF GivenTo, Tables, CompStates
<1> QED
  BY <1>1, <1>2, <1>3 DEF Scheduled, CompStates

-----------------------------------------------------------------------------
(* What a step does, in terms of the stages.                                 *)

(* The common part of a step of t either aborts or maps the table ths, which *)
(* the operation produced, through the stages, with no fault on the way.     *)
LEMMA CompleteCases ==
  ASSUME NEW t, NEW s, NEW ths, NEW conds, NEW faults,
         Complete(t, s, ths, conds, faults)
  PROVE  \/ thrown' # {} /\ UNCHANGED <<task, threads, condThreads, lastNonObserver>>
         \/ LET ended == Terminated(ths)
                woken == WokenUp(ended, Monitored(ended, t, s))
            IN /\ faults \cup MonitorFaults(ended, t, s) = {}
               /\ \E satisfied \in SatisfiedSets(woken, conds) :
                    LET released == Released(woken, conds, satisfied)
                    IN /\ ScheduleFaults(released, t) = {}
                       /\ threads' = Scheduled(released, t)
                       /\ condThreads' = StillNeeded(released, conds)
               /\ lastNonObserver' = IF t \in Observers THEN lastNonObserver ELSE {t}
               /\ UNCHANGED <<task, thrown>>
BY Zenon DEF Complete, Abort

(* What depends on the program only. *)
LEMMA SameProgram ==
  ASSUME UNCHANGED task
  PROVE  Tables' = Tables /\ Threads' = Threads /\ CondIds' = CondIds
BY DEF Tables, Threads, ThreadStates, Locations, CondIds, CondOf

LEMMA InitType == Init => TypeInv
<1> SUFFICES ASSUME Init PROVE TypeInv
  OBVIOUS
<1>1. ASSUME NEW t \in Threads PROVE InitialThread(t) \in ThreadStates
  <2>1. Script(t).rel \in DOMAIN task.relations /\ Script(t).entry \in Int
    BY TaskType DEF Init, IsScript
  <2>2. <<>> \in Seq(Locations)
    OBVIOUS
  <2> QED
    BY <2>1, <2>2 DEF InitialThread, ThreadStates, Locations, CompStates
<1> QED
  BY <1>1 DEF TypeInv, TypeOK, Init

-----------------------------------------------------------------------------
(* One thread runs, and it has a step to make.                               *)
(*                                                                           *)
(* schedule checks this, except when it returns early for a thread inside an *)
(* atomic section; there it holds because no stage lets another thread run.  *)

NoOtherRuns(ths, t) == \A u \in Threads \ {t} : ths[u].comp # "R"

LEMMA StagesLetNobodyRun ==
  ASSUME NEW ths \in Tables, NEW t \in Threads, NEW s, NEW conds, NEW satisfied,
         task \in Tasks, NoOtherRuns(ths, t)
  PROVE  LET ended == Terminated(ths)
             woken == WokenUp(ended, Monitored(ended, t, s))
         IN NoOtherRuns(Released(woken, conds, satisfied), t)
<1> DEFINE ended == Terminated(ths)
           monitored == Monitored(ended, t, s)
           woken == WokenUp(ended, monitored)
<1>1. ended \in Tables /\ monitored \in Tables /\ woken \in Tables
  BY TerminatedType, MonitoredType, WokenUpType
<1>2. NoOtherRuns(ended, t)
  BY DEF NoOtherRuns, Terminated, Tables, ThreadStates
<1>3. NoOtherRuns(monitored, t)
  BY <1>1, <1>2 DEF NoOtherRuns, Monitored, Restarted, Tables, ThreadStates
<1>4. NoOtherRuns(woken, t)
  BY <1>1, <1>3 DEF NoOtherRuns, WokenUp, Tables, ThreadStates
<1> HIDE DEF woken
<1>5. NoOtherRuns(Released(woken, conds, satisfied), t)
  BY <1>1, <1>4 DEF NoOtherRuns, Released, Tables, ThreadStates
<1> QED
  BY <1>5 DEF woken

(* What ScheduleChecked says of a table. *)
WellScheduled(ths) ==
  /\ \A t, u \in Threads : ths[t].comp = "R" /\ ths[u].comp = "R" => t = u
  /\ \A t \in Threads : ths[t].comp = "R" => HasLeaving(ths[t])

LEMMA FewRunningIsOne ==
  ASSUME task \in Tasks, NEW ths, ~(Cardinality(Running(ths)) > 1)
  PROVE  \A t, u \in Threads : ths[t].comp = "R" /\ ths[u].comp = "R" => t = u
<1> SUFFICES ASSUME NEW t \in Threads, NEW u \in Threads,
                    ths[t].comp = "R", ths[u].comp = "R", t # u
             PROVE  FALSE
  OBVIOUS
<1>1. IsFiniteSet(Threads)
  BY TaskType, FS_Interval DEF Threads
<1>2. IsFiniteSet(Running(ths))
  BY <1>1, FS_Subset DEF Running
<1>3. {t} \cup {u} \in SUBSET Running(ths)
  BY DEF Running
<1>4. Cardinality({t} \cup {u}) = 2
  <2>1. IsFiniteSet({t}) /\ Cardinality({t}) = 1
    BY FS_Singleton
  <2>2. u \notin {t}
    OBVIOUS
  <2> QED
    BY <2>1, <2>2, FS_AddElement
<1>5. Cardinality({t} \cup {u}) <= Cardinality(Running(ths))
  BY <1>2, <1>3, FS_Subset
<1>6. Cardinality(Running(ths)) \in Nat
  BY <1>2, FS_CardinalityType
<1> QED
  BY <1>4, <1>5, <1>6

LEMMA ScheduledIsChecked ==
  ASSUME task \in Tasks, NEW ths \in Tables, NEW t \in Threads,
         NoOtherRuns(ths, t), ScheduleFaults(ths, t) = {}
  PROVE  WellScheduled(Scheduled(ths, t))
<1>1. CASE ContinuesAtomically(ths[t])
  <2> DEFINE next == [ths EXCEPT ![t].comp = "R"]
  <2>1. Scheduled(ths, t) = next
    BY <1>1 DEF Scheduled
  <2>2. \A u \in Threads : next[u].comp = "R" => u = t
    BY DEF NoOtherRuns, Tables
  <2>3. next[t].loc = ths[t].loc
    BY DEF Tables, ThreadStates
  <2>4. HasLeaving(next[t])
    BY <1>1, <2>3 DEF ContinuesAtomically, HasLeaving, Leaving
  <2> QED
    BY <2>1, <2>2, <2>4 DEF WellScheduled
<1>2. CASE ~ContinuesAtomically(ths[t])
  <2> DEFINE yielded == Preempted(ths, t)
             next == GivenTo(yielded, NextToStep(yielded, t))
  <2>1. Scheduled(ths, t) = next
    BY <1>2 DEF Scheduled
  <2>2. /\ When(\E u \in Running(next) : ~HasLeaving(next[u]), "running without steps") = {}
        /\ When(Cardinality(Running(next)) > 1, "two threads run") = {}
    BY <1>2, Zenon DEF ScheduleFaults
  <2> HIDE DEF next
  <2>3. \A u \in Running(next) : HasLeaving(next[u])
    BY <2>2 DEF When
  <2>4. ~(Cardinality(Running(next)) > 1)
    BY <2>2 DEF When
  <2> QED
    BY <2>1, <2>3, <2>4, FewRunningIsOne DEF WellScheduled, Running
<1> QED
  BY <1>1, <1>2

-----------------------------------------------------------------------------
(* A thread is in state WAIT exactly as long as it waits for something.      *)

(* The strengthening: a thread waits for threads or for a condition that is  *)
(* checked, never for both, so that the end of one wait is the end of all.   *)
Consistent(ths, conds) ==
  \A u \in Threads :
    /\ ths[u].comp = "W" <=> ths[u].waiting # {}
    /\ ths[u].waiting \subseteq Threads \/ ths[u].waiting \subseteq conds

LEMMA ThreadsAreNoConditions ==
  ASSUME task \in Tasks
  PROVE  Threads \cap CondIds = {}
BY TaskType DEF Threads, CondIds, CondOf

LEMMA TerminatedConsistent ==
  ASSUME NEW ths \in Tables, NEW conds, Consistent(ths, conds)
  PROVE  Consistent(Terminated(ths), conds)
BY DEF Consistent, Terminated, Tables, ThreadStates

LEMMA MonitoredConsistent ==
  ASSUME NEW ths \in Tables, NEW t, NEW s, NEW conds, Consistent(ths, conds),
         MonitorFaults(ths, t, s) = {}
  PROVE  Consistent(Monitored(ths, t, s), conds)
<1>1. \A m \in MonitorsAfter(ths, t, s) : ths[m].waiting = {}
  BY DEF MonitorFaults, When
<1> QED
  BY <1>1 DEF Consistent, Monitored, Restarted, Tables, ThreadStates

LEMMA WokenUpConsistent ==
  ASSUME NEW before \in Tables, NEW ths \in Tables, NEW conds, Consistent(ths, conds),
         \A u \in Threads : ths[u].waiting = before[u].waiting
  PROVE  Consistent(WokenUp(before, ths), conds)
<1> SUFFICES ASSUME NEW u \in Threads
             PROVE  LET th == WokenUp(before, ths)[u]
                    IN /\ th.comp = "W" <=> th.waiting # {}
                       /\ th.waiting \subseteq Threads \/ th.waiting \subseteq conds
  BY DEF Consistent
<1>1. ths[u] \in ThreadStates /\ before[u] \in ThreadStates
  BY DEF Tables
<1>2. StillWaitingFor(before, u) \subseteq ths[u].waiting
  BY DEF StillWaitingFor
<1>3. CASE before[u].waiting = {}
  BY <1>3 DEF WokenUp, Consistent
<1>4. CASE before[u].waiting # {}
  <2> DEFINE still == StillWaitingFor(before, u)
  <2>1. WokenUp(before, ths)[u]
          = [ths[u] EXCEPT !.waiting = still, !.comp = IF still = {} THEN "Y" ELSE @]
    BY <1>4 DEF WokenUp
  <2>2. ths[u].comp = "W"
    BY <1>4 DEF Consistent
  <2> HIDE DEF still
  <2>3. /\ WokenUp(before, ths)[u].waiting = still
        /\ WokenUp(before, ths)[u].comp = IF still = {} THEN "Y" ELSE "W"
    BY <2>1, <2>2, <1>1 DEF ThreadStates
  <2> QED
    BY <2>3, <1>2 DEF Consistent, still
<1> QED
  BY <1>3, <1>4

LEMMA ReleasedConsistent ==
  ASSUME task \in Tasks, NEW ths \in Tables, NEW conds \in SUBSET CondIds, Consistent(ths, conds),
         NEW satisfied \in SatisfiedSets(ths, conds)
  PROVE  LET released == Released(ths, conds, satisfied)
         IN Consistent(released, StillNeeded(released, conds))
<1> DEFINE released == Released(ths, conds, satisfied)
<1>1. \A u \in satisfied : ths[u].comp = "W" /\ ths[u].waiting \cap conds # {}
  BY DEF SatisfiedSets, CondWaiters
<1>2. ASSUME NEW u \in Threads
      PROVE  /\ released[u].comp = "W" <=> released[u].waiting # {}
             /\ released[u].waiting \subseteq Threads \/ released[u].waiting \subseteq conds
  <2>1. ths[u] \in ThreadStates
    BY DEF Tables
  <2>2. CASE u \in satisfied
    <3>1. ths[u].waiting \ conds = {}
      BY <1>1, <2>2, ThreadsAreNoConditions DEF Consistent
    <3>2. released[u].comp = "Y" /\ released[u].waiting = ths[u].waiting \ conds
      BY <2>1, <2>2 DEF Released, ThreadStates
    <3> QED
      BY <3>1, <3>2
  <2>3. CASE u \notin satisfied
    BY <2>3 DEF Released, Consistent
  <2> QED
    BY <2>2, <2>3
<1> HIDE DEF released
<1>3. ASSUME NEW u \in Threads, released[u].waiting \subseteq conds
      PROVE  released[u].waiting \subseteq StillNeeded(released, conds)
  BY <1>3 DEF StillNeeded
<1>4. Consistent(released, StillNeeded(released, conds))
  BY <1>2, <1>3 DEF Consistent
<1> QED
  BY <1>4 DEF released

LEMMA LeastElement ==
  ASSUME NEW S \in SUBSET Nat, S # {}
  PROVE  \E i \in S : \A j \in S : i <= j
<1>1. PICK i \in S : \A j \in S : ~(<<j, i>> \in OpToRel(<, Nat))
  BY NatLessThanWellFounded, WFMin
<1>2. \A j \in S : ~(j < i)
  BY <1>1 DEF OpToRel
<1> QED
  BY <1>2

(* getNextYieldThreadFrom returns one of the candidates, or none. *)
LEMMA NextFromIsCandidate ==
  ASSUME NEW start, NEW candidates
  PROVE  NextFrom(start, candidates) = -1 \/ NextFrom(start, candidates) \in candidates
<1> DEFINE hits == {i \in 0 .. task.n : (start + 2 + i) % task.n \in candidates}
           first == CHOOSE i \in hits : \A j \in hits : i <= j
<1>1. CASE hits = {}
  BY <1>1, Zenon DEF NextFrom
<1>2. CASE hits # {}
  <2>1. hits \in SUBSET Nat
    OBVIOUS
  <2>2. \E i \in hits : \A j \in hits : i <= j
    BY <1>2, <2>1, LeastElement
  <2>3. first \in hits
    BY <2>2
  <2>4. NextFrom(start, candidates) = (start + 2 + first) % task.n
    BY <1>2, Zenon DEF NextFrom
  <2> QED
    BY <2>3, <2>4
<1> QED
  BY <1>1, <1>2

(* The thread that is chosen does not wait. *)
LEMMA ChosenDoesNotWait ==
  ASSUME NEW ths, NEW t
  PROVE  LET next == NextToStep(ths, t)
         IN next > -1 => ths[next].comp \in {"R", "Y"}
<1>1. \/ NextToStep(ths, t) = -1
      \/ NextToStep(ths, t) = t /\ ths[t].comp \in {"R", "Y"}
      \/ NextToStep(ths, t) \in Yielding(ths)
  BY NextFromIsCandidate DEF NextToStep, NextObserver, IsSteppable
<1> QED
  BY <1>1 DEF Yielding

LEMMA ScheduledConsistent ==
  ASSUME NEW ths \in Tables, NEW t \in Threads, NEW conds, Consistent(ths, conds),
         ScheduleFaults(ths, t) = {}
  PROVE  Consistent(Scheduled(ths, t), conds)
<1>1. ASSUME NEW tbl \in Tables, NEW u, NEW c \in CompStates \ {"W"}, Consistent(tbl, conds),
             u \in Threads => tbl[u].waiting = {}
      PROVE  /\ [tbl EXCEPT ![u].comp = c] \in Tables
             /\ Consistent([tbl EXCEPT ![u].comp = c], conds)
  BY <1>1, SetComp DEF Consistent, Tables, ThreadStates
<1>2. CASE ContinuesAtomically(ths[t])
  BY <1>1, <1>2 DEF ContinuesAtomically, Scheduled, CompStates
<1>3. CASE ~ContinuesAtomically(ths[t])
  <2> DEFINE yielded == Preempted(ths, t)
             next == NextToStep(yielded, t)
  <2>1. When(~HasLeaving(ths[t]) /\ ths[t].waiting # {}, "state change while waiting") = {}
    BY <1>3, Zenon DEF ScheduleFaults
  <2>2. ~HasLeaving(ths[t]) => ths[t].waiting = {}
    BY <2>1 DEF When
  <2>3. yielded \in Tables /\ Consistent(yielded, conds)
    <3>1. CASE ~HasLeaving(ths[t])
      BY <1>1, <2>2, <3>1 DEF Preempted, CompStates
    <3>2. CASE HasLeaving(ths[t]) /\ ths[t].comp = "R"
      BY <1>1, <3>2 DEF Preempted, CompStates, Consistent
    <3>3. CASE HasLeaving(ths[t]) /\ ths[t].comp # "R"
      <4>1. yielded = ths
        BY <3>3 DEF Preempted, Tables, ThreadStates
      <4> QED
        BY <4>1
    <3> QED
      BY <3>1, <3>2, <3>3
  <2>4. Consistent(GivenTo(yielded, next), conds)
    <3> HIDE DEF yielded
    <3>1. CASE next > -1
      <4>1. yielded[next].comp \in {"R", "Y"}
        BY <3>1, ChosenDoesNotWait
      <4>2. next \in Threads => yielded[next].waiting = {}
        BY <4>1, <2>3 DEF Consistent
      <4> QED
        BY <1>1, <2>3, <3>1, <4>2 DEF GivenTo, CompStates
    <3>2. CASE ~(next > -1)
      BY <2>3, <3>2 DEF GivenTo, Consistent, Tables, ThreadStates
    <3> QED
      BY <3>1, <3>2
  <2> QED
    BY <1>3, <2>4 DEF Scheduled
<1> QED
  BY <1>2, <1>3

-----------------------------------------------------------------------------
(* The observers run first.                                                  *)
(*                                                                           *)
(* getNextYieldThreadFrom starts at start + 2, but it looks at one index     *)
(* more than there are threads, so that it goes around past start + 1.       *)

LEMMA AroundTheThreads ==
  ASSUME task \in Tasks, NEW start \in Threads, NEW c \in Threads
  PROVE  \E i \in 0 .. task.n : (start + 2 + i) % task.n = c
<1> DEFINE n == task.n
<1>1. n \in Nat \ {0} /\ start \in 0 .. n - 1 /\ c \in 0 .. n - 1
  BY TaskType DEF Threads
<1> HIDE DEF n
<1>2. c % n = c /\ (c + n) % n = c /\ (c + 2 * n) % n = c
  BY <1>1, SMTT(30)
<1>3. CASE c >= start + 2
  <2>1. c - start - 2 \in 0 .. n /\ start + 2 + (c - start - 2) = c
    BY <1>1, <1>3
  <2> QED
    BY <1>2, <2>1 DEF n
<1>4. CASE c < start + 2 /\ c + n >= start + 2
  <2>1. c + n - start - 2 \in 0 .. n /\ start + 2 + (c + n - start - 2) = c + n
    BY <1>1, <1>4
  <2> QED
    BY <1>2, <2>1 DEF n
<1>5. CASE c + n < start + 2
  <2>1. c + 2 * n - start - 2 \in 0 .. n /\ start + 2 + (c + 2 * n - start - 2) = c + 2 * n
    BY <1>1, <1>5
  <2> QED
    BY <1>2, <2>1 DEF n
<1> QED
  BY <1>1, <1>3, <1>4, <1>5

(* The search misses no candidate. *)
LEMMA NextFromFinds ==
  ASSUME task \in Tasks, NEW start \in Threads, NEW candidates \in SUBSET Threads,
         ~(NextFrom(start, candidates) > -1)
  PROVE  candidates = {}
<1> SUFFICES ASSUME candidates # {} PROVE FALSE
  OBVIOUS
<1> DEFINE hits == {i \in 0 .. task.n : (start + 2 + i) % task.n \in candidates}
<1>1. PICK c \in candidates : TRUE
  OBVIOUS
<1>2. hits # {}
  BY <1>1, AroundTheThreads
<1>3. NextFrom(start, candidates) \in candidates
  <2> DEFINE first == CHOOSE i \in hits : \A j \in hits : i <= j
  <2>1. hits \in SUBSET Nat
    OBVIOUS
  <2>2. \E i \in hits : \A j \in hits : i <= j
    BY <1>2, <2>1, LeastElement
  <2>3. first \in hits
    BY <2>2
  <2>4. NextFrom(start, candidates) = (start + 2 + first) % task.n
    BY <1>2, Zenon DEF NextFrom
  <2> QED
    BY <2>3, <2>4
<1>4. \A d \in candidates : d > -1
  BY TaskType DEF Threads
<1> QED
  BY <1>3, <1>4

(* What ObserversFirst says of a table. *)
ObserversPreferred(ths) ==
  \A u \in Threads \ Observers :
    ths[u].comp = "R" /\ ths[u].atomic = 0 => Yielding(ths) \cap Observers = {}

(* schedule establishes it, whatever the threads did before. *)
LEMMA ScheduledPrefersObservers ==
  ASSUME task \in Tasks, NEW ths \in Tables, NEW t \in Threads,
         NoOtherRuns(ths, t), ScheduleFaults(ths, t) = {}
  PROVE  ObserversPreferred(Scheduled(ths, t))
<1>1. CASE ContinuesAtomically(ths[t])
  <2>1. Scheduled(ths, t) = [ths EXCEPT ![t].comp = "R"]
    BY <1>1 DEF Scheduled
  <2>2. Scheduled(ths, t)[t].atomic = ths[t].atomic
    BY <2>1 DEF Tables, ThreadStates
  <2>3. \A u \in Threads : Scheduled(ths, t)[u].comp = "R" => u = t
    BY <2>1 DEF NoOtherRuns, Tables
  <2>4. ths[t].atomic > 0 /\ ths[t].atomic \in Nat
    BY <1>1 DEF ContinuesAtomically, Tables, ThreadStates
  <2> QED
    BY <2>2, <2>3, <2>4 DEF ObserversPreferred
<1>2. CASE ~ContinuesAtomically(ths[t])
  <2> DEFINE yielded == Preempted(ths, t)
             next == NextToStep(yielded, t)
             ready == Yielding(yielded) \cap Observers
  <2>1. Scheduled(ths, t) = GivenTo(yielded, next)
    BY <1>2 DEF Scheduled
  <2>2. yielded \in [Threads -> ThreadStates]
    <3>1. ths[t].comp \in CompStates
      BY DEF Tables, ThreadStates
    <3> QED
      BY <3>1, SetComp DEF Preempted, Tables, CompStates
  <2>3. \A u, v \in Threads :
          Scheduled(ths, t)[u].comp = "R" /\ Scheduled(ths, t)[v].comp = "R" => u = v
    BY ScheduledIsChecked DEF WellScheduled
  <2> HIDE DEF yielded
  <2>4. CASE NextObserver(yielded, t) > -1
    <3>1. next \in Observers /\ next > -1
      BY <2>4, NextFromIsCandidate DEF NextToStep, NextObserver
    <3>2. next \in Threads
      BY <3>1 DEF Observers
    <3>3. Scheduled(ths, t)[next].comp = "R"
      BY <2>1, <2>2, <3>1, <3>2 DEF GivenTo, ThreadStates
    <3> QED
      BY <2>3, <3>1, <3>2, <3>3 DEF ObserversPreferred
  <2>5. CASE ~(NextObserver(yielded, t) > -1)
    <3>1. ready = {}
      BY <2>5, NextFromFinds DEF NextObserver, Yielding
    <3>2. Yielding(GivenTo(yielded, next)) \subseteq Yielding(yielded)
      BY <2>2 DEF Yielding, GivenTo, ThreadStates
    <3> QED
      BY <2>1, <3>1, <3>2 DEF ObserversPreferred
  <2> QED
    BY <2>4, <2>5
<1> QED
  BY <1>1, <1>2

-----------------------------------------------------------------------------
(* The inductive invariant.                                                  *)

IInv == TypeInv /\ ScheduleChecked /\ Consistent(threads, condThreads) /\ ObserversFirst

(* What an operation of thread t must produce. *)
GoodTable(ths, conds, t) ==
  /\ ths \in Tables
  /\ conds \in SUBSET CondIds
  /\ NoOtherRuns(ths, t)
  /\ Consistent(ths, conds)

(* The common part of a step turns a good table into the invariant. *)
LEMMA CompleteInv ==
  ASSUME IInv, NEW t \in Threads, NEW s, NEW ths, NEW conds, NEW faults,
         faults = {} => GoodTable(ths, conds, t),
         Complete(t, s, ths, conds, faults)
  PROVE  IInv'
<1>1. CASE UNCHANGED <<task, threads, condThreads, lastNonObserver>>
  BY <1>1, SameProgram DEF IInv, TypeInv, TypeOK, Tables, ScheduleChecked, OneRunning, Consistent,
                           HasLeaving, Leaving, ObserversFirst, Observers, Script, Yielding
<1>2. CASE ~UNCHANGED <<task, threads, condThreads, lastNonObserver>>
  <2> DEFINE ended == Terminated(ths)
             monitored == Monitored(ended, t, s)
             woken == WokenUp(ended, monitored)
  <2>1. /\ faults = {} /\ MonitorFaults(ended, t, s) = {}
        /\ lastNonObserver' = (IF t \in Observers THEN lastNonObserver ELSE {t})
        /\ UNCHANGED task
    BY <1>2, CompleteCases
  <2>2. PICK satisfied \in SatisfiedSets(woken, conds) :
             /\ ScheduleFaults(Released(woken, conds, satisfied), t) = {}
             /\ threads' = Scheduled(Released(woken, conds, satisfied), t)
             /\ condThreads' = StillNeeded(Released(woken, conds, satisfied), conds)
    BY <1>2, CompleteCases
  <2> DEFINE released == Released(woken, conds, satisfied)
  <2>3. task \in Tasks /\ ths \in Tables /\ conds \in SUBSET CondIds /\ NoOtherRuns(ths, t)
          /\ Consistent(ths, conds)
    BY <2>1 DEF GoodTable, IInv, TypeInv
  <2>4. ended \in Tables /\ monitored \in Tables /\ woken \in Tables /\ released \in Tables
    BY <2>3, TerminatedType, MonitoredType, WokenUpType, ReleasedType
  <2>5. NoOtherRuns(released, t)
    BY <2>3, StagesLetNobodyRun
  <2>6. Consistent(woken, conds)
    <3>1. Consistent(ended, conds)
      BY <2>3, TerminatedConsistent
    <3>2. Consistent(monitored, conds)
      BY <2>1, <2>4, <3>1, MonitoredConsistent
    <3>3. \A u \in Threads : monitored[u].waiting = ended[u].waiting
      BY <2>4 DEF Monitored, Restarted, Tables, ThreadStates
    <3> HIDE DEF monitored, ended
    <3> QED
      BY <2>4, <3>2, <3>3, WokenUpConsistent
  <2> HIDE DEF woken
  <2>7. Consistent(released, StillNeeded(released, conds))
    BY <2>2, <2>3, <2>4, <2>6, ReleasedConsistent
  <2> HIDE DEF released
  <2>8. threads' = Scheduled(released, t) /\ condThreads' = StillNeeded(released, conds)
          /\ ScheduleFaults(released, t) = {}
    BY <2>2 DEF released, woken
  <2>9. threads' \in Tables /\ WellScheduled(threads') /\ Consistent(threads', condThreads')
    BY <2>3, <2>4, <2>5, <2>7, <2>8, ScheduledType, ScheduledIsChecked, ScheduledConsistent
  <2>10. Tables' = Tables /\ Threads' = Threads /\ CondIds' = CondIds
    BY <2>1, SameProgram
  <2>11. TypeInv'
    <3>1. condThreads' \subseteq CondIds
      BY <2>3, <2>8 DEF StillNeeded
    <3>2. lastNonObserver' \subseteq Threads
      BY <2>1 DEF IInv, TypeInv, TypeOK
    <3> QED
      BY <2>1, <2>3, <2>9, <2>10, <3>1, <3>2 DEF TypeInv, TypeOK, Tables
  <2>12. ScheduleChecked'
    BY <2>1, <2>9, <2>10 DEF ScheduleChecked, OneRunning, WellScheduled, HasLeaving, Leaving
  <2>13. Consistent(threads, condThreads)'
    BY <2>9, <2>10 DEF Consistent
  <2>14. ObserversFirst'
    <3>1. ObserversPreferred(threads')
      BY <2>3, <2>4, <2>5, <2>8, ScheduledPrefersObservers
    <3> QED
      BY <2>1, <2>10, <3>1 DEF ObserversPreferred, ObserversFirst, Observers, Script, Yielding
  <2> QED
    BY <2>11, <2>12, <2>13, <2>14 DEF IInv
<1> QED
  BY <1>1, <1>2

-----------------------------------------------------------------------------
(* The operations produce good tables.                                       *)

(* An operation that changes the stepped thread only. *)
LEMMA SteppedOnly ==
  ASSUME IInv, NEW t \in Running(threads), NEW th \in ThreadStates, NEW conds \in SUBSET CondIds,
         condThreads \subseteq conds,
         th.comp = "W" <=> th.waiting # {},
         th.waiting \subseteq conds
  PROVE  GoodTable([threads EXCEPT ![t] = th], conds, t)
BY DEF GoodTable, IInv, TypeInv, TypeOK, ScheduleChecked, OneRunning, Running, Tables, NoOtherRuns,
       Consistent

(* The thread t that is stepped along transition s. *)
MovedThread(t, s) == [threads[t] EXCEPT !.loc.at = s.to]

LEMMA MovedFacts ==
  ASSUME IInv, NEW t \in Running(threads), NEW s \in Leaving(threads[t])
  PROVE  /\ IsTransition(task, s)
         /\ threads[t] \in ThreadStates
         /\ threads[t].comp = "R"
         /\ threads[t].waiting = {}
         /\ MovedThread(t, s) \in ThreadStates
         /\ MovedThread(t, s) = [threads[t] EXCEPT !.loc = MovedThread(t, s).loc]
         /\ Moved(t, s) = [threads EXCEPT ![t] = MovedThread(t, s)]
         /\ GoodTable(Moved(t, s), condThreads, t)
<1>1. threads[t] \in ThreadStates /\ task \in Tasks /\ t \in Threads
  BY DEF IInv, TypeInv, TypeOK, Running
<1>2. IsTransition(task, s)
  BY <1>1, TaskType DEF Leaving, ThreadStates, Locations
<1>3. threads[t].comp = "R" /\ threads[t].waiting = {}
  BY <1>1 DEF Running, IInv, Consistent
<1>4. [threads[t].loc EXCEPT !.at = s.to] \in Locations
  BY <1>1, <1>2 DEF ThreadStates, Locations, IsTransition
<1>5. /\ MovedThread(t, s) \in ThreadStates
      /\ MovedThread(t, s) = [threads[t] EXCEPT !.loc = MovedThread(t, s).loc]
      /\ MovedThread(t, s).comp = "R" /\ MovedThread(t, s).waiting = {}
  BY <1>1, <1>3, <1>4 DEF MovedThread, ThreadStates
<1>6. Moved(t, s) = [threads EXCEPT ![t] = MovedThread(t, s)]
  BY DEF Moved, MovedThread
<1>7. condThreads \in SUBSET CondIds
  BY DEF IInv, TypeInv, TypeOK
<1>8. GoodTable(Moved(t, s), condThreads, t)
  BY <1>5, <1>6, <1>7, SteppedOnly
<1> QED
  BY <1>1, <1>2, <1>3, <1>5, <1>6, <1>8

(* Broadcasts trigger other threads. *)
LEMMA DispatchedGood ==
  ASSUME IInv, NEW t \in Running(threads), NEW s \in Leaving(threads[t]), NEW receivers, NEW m,
         DispatchFaults(Moved(t, s), receivers, m) = {}
  PROVE  GoodTable(Dispatched(Moved(t, s), receivers), condThreads, t)
<1> DEFINE moved == Moved(t, s)
<1>1. GoodTable(moved, condThreads, t) /\ task \in Tasks
  BY MovedFacts DEF IInv, TypeInv
<1> HIDE DEF moved
<1>2. \A r \in Triggered(moved, receivers) : moved[r].waiting = {}
  BY DEF DispatchFaults, When, moved
<1>3. Dispatched(moved, receivers) \in Tables
  BY <1>1, DispatchedType DEF GoodTable
<1>4. /\ NoOtherRuns(Dispatched(moved, receivers), t)
      /\ Consistent(Dispatched(moved, receivers), condThreads)
  BY <1>1, <1>2 DEF GoodTable, NoOtherRuns, Consistent, Dispatched, Restarted, Tables, ThreadStates
<1> QED
  BY <1>1, <1>3, <1>4 DEF GoodTable, moved

LEMMA AsleepGood ==
  ASSUME IInv, NEW t \in Threads, NEW sent, GoodTable(sent, condThreads, t),
         NEW receivers \in SUBSET Threads, sent[t].waiting = {}
  PROVE  GoodTable(Asleep(sent, t, receivers), condThreads, t)
<1>1. CASE receivers = {}
  BY <1>1 DEF Asleep
<1>2. CASE receivers # {}
  <2> DEFINE th == [sent[t] EXCEPT !.comp = "W", !.waiting = @ \cup receivers]
  <2>1. sent \in Tables /\ sent[t] \in ThreadStates
    BY DEF GoodTable, Tables
  <2>2. th \in ThreadStates /\ th.comp = "W" /\ th.waiting = receivers
    BY <2>1 DEF ThreadStates, CompStates
  <2>3. Asleep(sent, t, receivers) = [sent EXCEPT ![t] = th]
    BY <1>2, <2>1 DEF Asleep, Tables
  <2> HIDE DEF th
  <2> QED
    BY <1>2, <2>1, <2>2, <2>3 DEF GoodTable, Tables, NoOtherRuns, Consistent
<1> QED
  BY <1>1, <1>2

LEMMA MonitorsEnabledGood ==
  ASSUME NEW ths, NEW conds, NEW t, GoodTable(ths, conds, t)
  PROVE  GoodTable(MonitorsEnabled(ths), conds, t)
<1>1. MonitorsEnabled(ths) \in Tables
  BY SetComp DEF GoodTable, MonitorsEnabled, Tables, CompStates
<1>2. NoOtherRuns(MonitorsEnabled(ths), t) /\ Consistent(MonitorsEnabled(ths), conds)
  BY DEF GoodTable, MonitorsEnabled, NoOtherRuns, Consistent, Tables, ThreadStates
<1> QED
  BY <1>1, <1>2 DEF GoodTable

(* What the operations make of the table: an operation that is no send makes *)
(* th of the stepped thread t and leaves the others alone.                   *)
Sends == {"broadcast", "broadcastWait"}

SteppedBy(t, s, th) ==
  LET old == threads[t]
  IN /\ s.kind \notin {"call", "return"} => /\ th.loc = [old.loc EXCEPT !.at = s.to]
                                            /\ th.calls = old.calls
     /\ s.kind = "call" => /\ th.loc = [rel |-> s.arg, at |-> task.methods[s.arg].entry]
                           /\ th.calls = Append(old.calls, [old.loc EXCEPT !.at = s.to])
                           /\ th.atomic = old.atomic + Depth(s.arg)
     /\ s.kind = "return" => /\ old.calls # <<>>
                             /\ th.loc = old.calls[Len(old.calls)]
                             /\ th.calls = SubSeq(old.calls, 1, Len(old.calls) - 1)
                             /\ th.atomic = old.atomic - Depth(old.loc.rel)
     /\ s.kind = "beginAtomic" => th.atomic = old.atomic + 1
     /\ s.kind = "endAtomic" => th.atomic = old.atomic - 1
     /\ s.kind \notin {"call", "return", "beginAtomic", "endAtomic"} => th.atomic = old.atomic
     /\ th.comp = CASE s.kind = "signal" -> "F"
                     [] s.kind = "waitSeconds" -> "W"
                     [] s.kind = "stopAll" /\ Script(t).event # "termination" -> "D"
                     [] OTHER -> "R"
     /\ th.waiting = IF s.kind = "waitSeconds" THEN {CondOf(t)} ELSE {}
     /\ th.failed = IF s.kind = "signal" THEN TRUE ELSE old.failed

SentTable(t, s) ==
  LET receivers == Receivers(t, s.arg)
      sent      == Dispatched(Moved(t, s), receivers)
      asleep    == Asleep(sent, t, receivers)
  IN IF s.kind = "broadcast" THEN sent
     ELSE IF s.arg = BootstrapFinished THEN MonitorsEnabled(asleep) ELSE asleep

Operated(t, s, ths) ==
  /\ s.kind \notin Sends => /\ \A u \in Threads \ {t} : ths[u] = threads[u]
                            /\ SteppedBy(t, s, ths[t])
  /\ s.kind \in Sends => ths = SentTable(t, s)

CondsAfter(t, s) == IF s.kind = "waitSeconds" THEN condThreads \cup {CondOf(t)} ELSE condThreads

OperationFaults(t, s) ==
  CASE s.kind = "endAtomic" -> AtomicFaults(t, 1)
    [] s.kind = "return" -> When(threads[t].calls = <<>>, "return without call")
                              \cup AtomicFaults(t, Depth(threads[t].loc.rel))
    [] s.kind \in Sends -> DispatchFaults(Moved(t, s), Receivers(t, s.arg), s.arg)
    [] OTHER -> {}

LEMMA StepTable ==
  ASSUME IInv, NEW t \in Running(threads), NEW s \in Leaving(threads[t]), Step(t, s)
  PROVE  /\ ~IsTarget
         /\ \E ths : /\ Complete(t, s, ths, CondsAfter(t, s), OperationFaults(t, s))
                     /\ OperationFaults(t, s) = {} => /\ GoodTable(ths, CondsAfter(t, s), t)
                                                      /\ Operated(t, s, ths)
<1> DEFINE moved == Moved(t, s)
           mth == MovedThread(t, s)
           conds == CondsAfter(t, s)
           faults == OperationFaults(t, s)
           Fine(ths) == GoodTable(ths, conds, t) /\ Operated(t, s, ths)
           Done(ths) == Complete(t, s, ths, conds, faults) /\ (faults = {} => Fine(ths))
<1>1. /\ IsTransition(task, s)
      /\ threads[t] \in ThreadStates /\ threads[t].comp = "R" /\ threads[t].waiting = {}
      /\ mth \in ThreadStates /\ mth = [threads[t] EXCEPT !.loc = mth.loc]
      /\ moved = [threads EXCEPT ![t] = mth]
  BY MovedFacts
<1>2. t \in Threads /\ task \in Tasks /\ threads \in [Threads -> ThreadStates]
  BY DEF Running, IInv, TypeInv, TypeOK
<1>3. /\ mth.comp = "R" /\ mth.waiting = {} /\ mth.atomic = threads[t].atomic
      /\ mth.calls = threads[t].calls /\ mth.failed = threads[t].failed
      /\ mth.loc = [threads[t].loc EXCEPT !.at = s.to]
  BY <1>1 DEF MovedThread, ThreadStates
<1>4. condThreads \in SUBSET CondIds
  BY DEF IInv, TypeInv, TypeOK
<1> HIDE DEF moved, mth
(* An operation whose table differs in the stepped thread only. *)
<1>5. ASSUME NEW th \in ThreadStates, th.comp # "W", th.waiting = {}, SteppedBy(t, s, th),
             s.kind \notin Sends, s.kind # "waitSeconds"
      PROVE  Fine([threads EXCEPT ![t] = th])
  <2>1. conds = condThreads
    BY <1>5 DEF CondsAfter
  <2>2. GoodTable([threads EXCEPT ![t] = th], condThreads, t)
    BY <1>4, <1>5, SteppedOnly
  <2> QED
    BY <1>2, <1>5, <2>1, <2>2 DEF Operated
<1>6. ~IsTarget
  BY DEF Step, CanStep, StepOrdinary, StepBeginAtomic, StepEndAtomic, StepCall, StepReturn,
         StepStopAll, StepSignal, StepWaitSeconds, StepBroadcast, StepBroadcastAndWait
<1>7. CASE StepOrdinary(t, s)
  <2>1. s.kind \in Ordinary
    BY <1>7 DEF StepOrdinary, CanStep
  <2>2. SteppedBy(t, s, mth)
    BY <2>1, <1>3 DEF SteppedBy, Ordinary
  <2>3. Fine(moved)
    BY <2>1, <2>2, <1>1, <1>3, <1>5 DEF Ordinary, Sends
  <2>4. conds = condThreads /\ faults = {}
    BY <2>1 DEF CondsAfter, OperationFaults, Ordinary, Sends
  <2>5. Done(moved)
    BY <2>3, <2>4, <1>7 DEF StepOrdinary, moved
  <2> QED
    BY <2>5, <1>6
<1>8. CASE StepBeginAtomic(t, s)
  <2> DEFINE th == [mth EXCEPT !.atomic = @ + 1]
             table == [moved EXCEPT ![t].atomic = @ + 1]
  <2>1. s.kind = "beginAtomic"
    BY <1>8 DEF StepBeginAtomic, CanStep
  <2>2. th \in ThreadStates /\ th.comp = "R" /\ th.waiting = {} /\ SteppedBy(t, s, th)
    BY <2>1, <1>1, <1>3 DEF ThreadStates, SteppedBy
  <2>3. table = [threads EXCEPT ![t] = th]
    BY <1>1, <1>2
  <2> HIDE DEF th
  <2>4. Fine(table)
    BY <2>1, <2>2, <2>3, <1>5 DEF Sends
  <2>5. conds = condThreads /\ faults = {}
    BY <2>1 DEF CondsAfter, OperationFaults, Sends
  <2>6. Done(table)
    BY <2>4, <2>5, <1>8 DEF StepBeginAtomic, moved
  <2> QED
    BY <2>6, <1>6
<1>9. CASE StepEndAtomic(t, s)
  <2> DEFINE th == [mth EXCEPT !.atomic = @ - 1]
             table == [moved EXCEPT ![t].atomic = @ - 1]
  <2>1. s.kind = "endAtomic"
    BY <1>9 DEF StepEndAtomic, CanStep
  <2>2. conds = condThreads /\ faults = AtomicFaults(t, 1)
    BY <2>1 DEF CondsAfter, OperationFaults, Sends
  <2>3. table = [threads EXCEPT ![t] = th]
    BY <1>1, <1>2
  <2>4. ASSUME faults = {} PROVE Fine(table)
    <3>1. ~(mth.atomic < 1)
      BY <2>2, <2>4, <1>3 DEF AtomicFaults, When
    <3>2. mth.atomic - 1 \in Nat
      BY <3>1, <1>1 DEF ThreadStates
    <3>3. th \in ThreadStates /\ th.comp = "R" /\ th.waiting = {} /\ SteppedBy(t, s, th)
      BY <3>2, <2>1, <1>1, <1>3 DEF ThreadStates, SteppedBy
    <3> HIDE DEF th
    <3> QED
      BY <3>3, <2>1, <2>3, <1>5 DEF Sends
  <2>5. Done(table)
    BY <2>2, <2>4, <1>9 DEF StepEndAtomic, moved
  <2> QED
    BY <2>5, <1>6
<1>10. CASE StepCall(t, s)
  <2> DEFINE entry == [rel |-> s.arg, at |-> task.methods[s.arg].entry]
             return == [threads[t].loc EXCEPT !.at = s.to]
             th == [threads[t] EXCEPT !.loc = entry, !.calls = Append(@, return),
                                      !.atomic = @ + Depth(s.arg)]
             table == [threads EXCEPT ![t].loc = entry, ![t].calls = Append(@, return),
                                      ![t].atomic = @ + Depth(s.arg)]
  <2>1. s.kind = "call" /\ s.arg \in DOMAIN task.methods
    BY <1>1, <1>10 DEF StepCall, CanStep, IsTransition
  <2>2. entry \in Locations /\ return \in Locations
    BY <2>1, <1>1, <1>2, TaskType DEF Locations, ThreadStates, IsTransition
  <2>3. threads[t].atomic + Depth(s.arg) \in Nat
    BY <1>1 DEF Depth, ThreadStates
  <2>4. Append(threads[t].calls, return) \in Seq(Locations)
    BY <2>2, <1>1 DEF ThreadStates
  <2>5. th \in ThreadStates /\ th.comp = "R" /\ th.waiting = {} /\ SteppedBy(t, s, th)
    BY <2>1, <2>2, <2>3, <2>4, <1>1 DEF ThreadStates, SteppedBy
  <2>6. table = [threads EXCEPT ![t] = th]
    BY <1>2
  <2> HIDE DEF th
  <2>7. Fine(table)
    BY <2>1, <2>5, <2>6, <1>5 DEF Sends
  <2>8. conds = condThreads /\ faults = {}
    BY <2>1 DEF CondsAfter, OperationFaults, Sends
  <2>9. Done(table)
    BY <2>7, <2>8, <1>10 DEF StepCall
  <2> QED
    BY <2>9, <1>6
<1>11. CASE StepReturn(t, s)
  <2> DEFINE calls == threads[t].calls
             depth == Depth(threads[t].loc.rel)
             th == [threads[t] EXCEPT !.loc = calls[Len(calls)],
                                      !.calls = SubSeq(@, 1, Len(@) - 1),
                                      !.atomic = @ - depth]
             table == IF calls = <<>> THEN threads
                      ELSE [threads EXCEPT ![t].loc = calls[Len(calls)],
                                           ![t].calls = SubSeq(@, 1, Len(@) - 1),
                                           ![t].atomic = @ - depth]
  <2>1. s.kind = "return"
    BY <1>11 DEF StepReturn, CanStep
  <2>2. /\ conds = condThreads
        /\ faults = When(calls = <<>>, "return without call") \cup AtomicFaults(t, depth)
    BY <2>1 DEF CondsAfter, OperationFaults, Sends
  <2>3. ASSUME faults = {} PROVE Fine(table)
    <3>1. calls # <<>> /\ ~(threads[t].atomic < depth)
      BY <2>2, <2>3 DEF When, AtomicFaults
    <3>2. calls[Len(calls)] \in Locations /\ SubSeq(calls, 1, Len(calls) - 1) \in Seq(Locations)
      BY <3>1, <1>1 DEF ThreadStates
    <3>3. threads[t].atomic - depth \in Nat
      BY <3>1, <1>1 DEF Depth, ThreadStates
    <3>4. th \in ThreadStates /\ th.comp = "R" /\ th.waiting = {} /\ SteppedBy(t, s, th)
      BY <3>1, <3>2, <3>3, <2>1, <1>1 DEF ThreadStates, SteppedBy
    <3>5. table = [threads EXCEPT ![t] = th]
      BY <3>1, <1>2
    <3> HIDE DEF th
    <3> QED
      BY <3>4, <3>5, <2>1, <1>5 DEF Sends
  <2>4. Complete(t, s, table, conds, faults)
    BY <2>2, <1>11, Zenon DEF StepReturn
  <2>5. Done(table)
    BY <2>3, <2>4
  <2> QED
    BY <2>5, <1>6
<1>12. CASE StepStopAll(t, s)
  <2> DEFINE th == [mth EXCEPT !.comp = "D"]
             table == IF Script(t).event = "termination" THEN moved
                      ELSE [moved EXCEPT ![t].comp = "D"]
  <2>1. s.kind = "stopAll"
    BY <1>12 DEF StepStopAll, CanStep
  <2>2. conds = condThreads /\ faults = {}
    BY <2>1 DEF CondsAfter, OperationFaults, Sends
  <2>3. Complete(t, s, table, conds, faults)
    BY <2>2, <1>12 DEF StepStopAll, moved
  <2>4. Fine(table)
    <3>1. CASE Script(t).event = "termination"
      <4>1. SteppedBy(t, s, mth)
        BY <2>1, <3>1, <1>3 DEF SteppedBy
      <4>2. Fine(moved)
        BY <4>1, <2>1, <1>1, <1>3, <1>5 DEF Sends
      <4> QED
        BY <3>1, <4>2
    <3>2. CASE Script(t).event # "termination"
      <4>1. th \in ThreadStates /\ th.comp = "D" /\ th.waiting = {} /\ SteppedBy(t, s, th)
        BY <2>1, <3>2, <1>1, <1>3 DEF ThreadStates, CompStates, SteppedBy
      <4>2. table = [threads EXCEPT ![t] = th]
        BY <3>2, <1>1, <1>2
      <4> HIDE DEF th
      <4> QED
        BY <4>1, <4>2, <2>1, <1>5 DEF Sends
    <3> QED
      BY <3>1, <3>2
  <2>5. Done(table)
    BY <2>3, <2>4
  <2> QED
    BY <2>5, <1>6
<1>13. CASE StepSignal(t, s)
  <2> DEFINE th == [mth EXCEPT !.comp = "F", !.failed = TRUE]
             table == [moved EXCEPT ![t].comp = "F", ![t].failed = TRUE]
  <2>1. s.kind = "signal"
    BY <1>13 DEF StepSignal, CanStep
  <2>2. th \in ThreadStates /\ th.comp = "F" /\ th.waiting = {} /\ SteppedBy(t, s, th)
    BY <2>1, <1>1, <1>3 DEF ThreadStates, CompStates, SteppedBy
  <2>3. table = [threads EXCEPT ![t] = th]
    BY <1>1, <1>2
  <2> HIDE DEF th
  <2>4. Fine(table)
    BY <2>1, <2>2, <2>3, <1>5 DEF Sends
  <2>5. conds = condThreads /\ faults = {}
    BY <2>1 DEF CondsAfter, OperationFaults, Sends
  <2>6. Done(table)
    BY <2>4, <2>5, <1>13 DEF StepSignal, moved
  <2> QED
    BY <2>6, <1>6
<1>14. CASE StepWaitSeconds(t, s)
  <2> DEFINE th == [mth EXCEPT !.comp = "W", !.waiting = @ \cup {CondOf(t)}]
             table == [moved EXCEPT ![t].comp = "W", ![t].waiting = @ \cup {CondOf(t)}]
  <2>1. s.kind = "waitSeconds"
    BY <1>14 DEF StepWaitSeconds, CanStep
  <2>2. conds = condThreads \cup {CondOf(t)} /\ faults = {}
    BY <2>1 DEF CondsAfter, OperationFaults, Sends
  <2>3. conds \in SUBSET CondIds /\ CondOf(t) \in CondIds
    BY <2>2, <1>2, <1>4 DEF CondIds
  <2>4. /\ th \in ThreadStates /\ th.comp = "W" /\ th.waiting = {CondOf(t)}
        /\ SteppedBy(t, s, th)
    BY <2>1, <2>3, <1>1, <1>3 DEF ThreadStates, CompStates, SteppedBy
  <2>5. table = [threads EXCEPT ![t] = th]
    BY <1>1, <1>2
  <2> HIDE DEF th
  <2>6. GoodTable(table, conds, t)
    BY <2>2, <2>3, <2>4, <2>5, SteppedOnly
  <2>7. Operated(t, s, table)
    BY <2>1, <2>4, <2>5, <1>2 DEF Operated, Sends
  <2>8. Done(table)
    BY <2>2, <2>6, <2>7, <1>14 DEF StepWaitSeconds, moved
  <2> QED
    BY <2>8, <1>6
<1>15. CASE StepBroadcast(t, s)
  <2> DEFINE table == Dispatched(moved, Receivers(t, s.arg))
  <2>1. s.kind = "broadcast"
    BY <1>15 DEF StepBroadcast, CanStep
  <2>2. /\ conds = condThreads /\ faults = DispatchFaults(moved, Receivers(t, s.arg), s.arg)
        /\ Operated(t, s, table)
    BY <2>1 DEF CondsAfter, OperationFaults, Sends, Operated, SentTable, moved
  <2>3. faults = {} => GoodTable(table, conds, t)
    BY <2>2, DispatchedGood DEF moved
  <2>4. Done(table)
    BY <2>2, <2>3, <1>15 DEF StepBroadcast, moved
  <2> QED
    BY <2>4, <1>6
<1>16. CASE StepBroadcastAndWait(t, s)
  <2> DEFINE receivers == Receivers(t, s.arg)
             sent == Dispatched(moved, receivers)
             asleep == Asleep(sent, t, receivers)
             table == IF s.arg = BootstrapFinished THEN MonitorsEnabled(asleep) ELSE asleep
  <2>1. s.kind = "broadcastWait"
    BY <1>16 DEF StepBroadcastAndWait, CanStep
  <2>2. /\ conds = condThreads /\ faults = DispatchFaults(moved, receivers, s.arg)
        /\ Operated(t, s, table)
    BY <2>1 DEF CondsAfter, OperationFaults, Sends, Operated, SentTable, moved
  <2>3. receivers \in SUBSET Threads
    BY DEF Receivers
  <2>4. ASSUME faults = {} PROVE GoodTable(table, conds, t)
    <3>1. GoodTable(sent, condThreads, t)
      BY <2>2, <2>4, DispatchedGood DEF moved
    <3>2. sent[t].waiting = {}
      BY <1>1, <1>2, <1>3 DEF Dispatched, Restarted, ThreadStates
    <3>3. GoodTable(asleep, condThreads, t) /\ GoodTable(MonitorsEnabled(asleep), condThreads, t)
      BY <2>3, <3>1, <3>2, <1>2, AsleepGood, MonitorsEnabledGood
    <3> QED
      BY <2>2, <3>3
  <2>5. Complete(t, s, table, conds, faults)
    BY <2>2, <1>16 DEF StepBroadcastAndWait, moved
  <2>6. Done(table)
    BY <2>2, <2>4, <2>5
  <2> QED
    BY <2>6, <1>6
<1> QED
  BY <1>7, <1>8, <1>9, <1>10, <1>11, <1>12, <1>13, <1>14, <1>15, <1>16 DEF Step

(* Every operation preserves the invariant. *)
LEMMA StepInv ==
  ASSUME IInv, NEW t \in Running(threads), NEW s \in Leaving(threads[t]), Step(t, s)
  PROVE  IInv'
<1>1. PICK ths : /\ Complete(t, s, ths, CondsAfter(t, s), OperationFaults(t, s))
                 /\ OperationFaults(t, s) = {} => GoodTable(ths, CondsAfter(t, s), t)
  BY StepTable
<1>2. t \in Threads
  BY DEF Running
<1> QED
  BY <1>1, <1>2, CompleteInv

-----------------------------------------------------------------------------
(* The theorems.                                                             *)

LEMMA InitInv == Init => IInv
<1> SUFFICES ASSUME Init PROVE IInv
  OBVIOUS
<1>1. TypeInv
  BY InitType
<1>2. \A t \in Threads : /\ threads[t].waiting = {}
                         /\ threads[t].comp # "W"
                         /\ threads[t].comp = "R" => Script(t).event = "singularity"
                         /\ threads[t].loc = [rel |-> Script(t).rel, at |-> Script(t).entry]
  BY DEF Init, InitialThread
<1>3. \A t, u \in Threads :
        Script(t).event = "singularity" /\ Script(u).event = "singularity" => t = u
  BY <1>1, TasksAssumption DEF TypeInv, IsTask, Threads, Script
<1>4. ASSUME NEW t \in Threads, Script(t).event = "singularity"
      PROVE  HasLeaving(threads[t])
  <2>1. threads[t].loc = [rel |-> Script(t).rel, at |-> Script(t).entry]
    BY <1>2
  <2>2. IsScript(task, Script(t))
    BY <1>1, TaskType DEF TypeInv
  <2> QED
    BY <2>1, <2>2, <1>4 DEF IsScript, HasLeaving, Leaving
<1>5. ScheduleChecked
  BY <1>2, <1>3, <1>4 DEF ScheduleChecked, OneRunning
<1>6. Consistent(threads, condThreads)
  BY <1>2 DEF Consistent
<1>7. ObserversFirst
  BY DEF ObserversFirst, Yielding, Init, InitialThread
<1> QED
  BY <1>1, <1>5, <1>6, <1>7 DEF IInv

LEMMA NextInv == IInv /\ [Next]_vars => IInv'
<1> SUFFICES ASSUME IInv, [Next]_vars PROVE IInv'
  OBVIOUS
<1>1. CASE Next
  BY <1>1, StepInv DEF Next
<1>2. CASE UNCHANGED vars
  BY <1>2, SameProgram DEF vars, IInv, TypeInv, TypeOK, Tables, ScheduleChecked, OneRunning,
                           Consistent, HasLeaving, Leaving, ObserversFirst, Observers, Script,
                           Yielding
<1> QED
  BY <1>1, <1>2

LEMMA Invariance == Spec => []IInv
BY InitInv, NextInv, PTL DEF Spec

(* Type correctness: every part of the state keeps its type; in particular,  *)
(* the nesting depth of atomic sections never becomes negative.              *)
THEOREM TypeCorrect == Spec => []TypeOK
<1>1. IInv => TypeOK
  BY DEF IInv, TypeInv
<1> QED
  BY <1>1, Invariance, PTL

(* What checkSchedule checks holds in every state, also in the states that   *)
(* schedule produces without calling it: one thread runs at most, and a      *)
(* running thread has a step to make.                                        *)
THEOREM ScheduleIsChecked == Spec => []ScheduleChecked
<1>1. IInv => ScheduleChecked
  BY DEF IInv
<1> QED
  BY <1>1, Invariance, PTL

(* A thread is in state WAIT exactly as long as it waits for something, over *)
(* all triggers, restarts, wake-ups and time steps.                          *)
THEOREM NobodyWaitsForNothing == Spec => []WaitsForSomething
<1>1. IInv => WaitsForSomething
  BY DEF IInv, Consistent, WaitsForSomething
<1> QED
  BY <1>1, Invariance, PTL

(* "Running specification (observer) threads become executed first": outside *)
(* of atomic sections, no other thread runs while an observer is ready; the  *)
(* search of schedule for a ready observer misses none.                      *)
THEOREM ObserversRunFirst == Spec => []ObserversFirst
<1>1. IInv => ObserversFirst
  BY DEF IInv
<1> QED
  BY <1>1, Invariance, PTL

-----------------------------------------------------------------------------
(***************************************************************************)
(* What the scheduler of ControlScheduler guarantees for programs as        *)
(* AppBuilder and TransitionRelations leave them: a script ends with an      *)
(* epsilon, a method with a return, atomic sections are nested.  What else   *)
(* a theorem needs of a program is a premise of its own.                     *)
(***************************************************************************)

-----------------------------------------------------------------------------
(* Programs.                                                                 *)

HasStep(r, l) == l \in DOMAIN task.relations[r] /\ task.relations[r][l] # {}

(* introduceEntryExitEpsilonTransition: only an epsilon or a return leads to  *)
(* an end, and a script begins with a step.                                  *)
EndsQuietly ==
  /\ \A t \in Threads : HasStep(Script(t).rel, Script(t).entry)
  /\ \A r \in DOMAIN task.relations : \A l \in DOMAIN task.relations[r] :
       \A s \in task.relations[r][l] : s.kind \notin {"epsilon", "return"} => HasStep(r, s.to)

(* Each location is inside a number of atomic sections, a method returns     *)
(* outside of those it began, and nothing stops or ends inside of one or     *)
(* inside a method.                                                          *)
Keeps(d, r, l, s) ==
  /\ s.kind = "beginAtomic" => d[r][s.to] = d[r][l] + 1
  /\ s.kind = "endAtomic" => d[r][l] = d[r][s.to] + 1
  /\ s.kind \notin {"beginAtomic", "endAtomic", "return"} => d[r][s.to] = d[r][l]
  /\ s.kind = "return" => r \in DOMAIN task.methods /\ d[r][l] = 0
  /\ s.kind = "stopAll" => r \notin DOMAIN task.methods /\ d[r][l] = 0
  /\ s.kind # "return" /\ ~HasStep(r, s.to)
       => r \notin DOMAIN task.methods /\ d[r][s.to] = 0

IsNesting(d) ==
  /\ d \in [DOMAIN task.relations -> [Int -> Nat]]
  /\ \A t \in Threads : /\ Script(t).rel \notin DOMAIN task.methods
                        /\ d[Script(t).rel][Script(t).entry] = 0
  /\ \A m \in DOMAIN task.methods : /\ d[m][task.methods[m].entry] = 0
                                    /\ HasStep(m, task.methods[m].entry)
  /\ \A r \in DOMAIN task.relations : \A l \in DOMAIN task.relations[r] :
       \A s \in task.relations[r][l] : Keeps(d, r, l, s)

Nested  == \E d : IsNesting(d)
Nesting == CHOOSE d : IsNesting(d)
Nest(loc) == Nesting[loc.rel][loc.at]

(* What is restarted, a handler with that attribute or a monitor, neither    *)
(* waits, nor calls, nor has atomic sections.                                *)
Restarting(t) == Script(t).restart \/ t \in Monitors
PlainRestarts ==
  \A t \in Threads : Restarting(t) =>
    \A l \in DOMAIN task.relations[Script(t).rel] : \A s \in task.relations[Script(t).rel][l] :
      s.kind \notin {"call", "beginAtomic", "waitSeconds", "broadcastWait"}

Structured == EndsQuietly /\ Nested /\ PlainRestarts
-----------------------------------------------------------------------------
(* The stages of a step under names of their own.                            *)

Ended(ths)           == Terminated(ths)
Woken(ths, t, s)     == WokenUp(Ended(ths), Monitored(Ended(ths), t, s))
Freed(ths, t, s, conds, satisfied) == Released(Woken(ths, t, s), conds, satisfied)

LEMMA CompleteStages ==
  ASSUME NEW t, NEW s, NEW ths, NEW conds, NEW faults,
         Complete(t, s, ths, conds, faults)
  PROVE  \/ thrown' # {} /\ UNCHANGED <<task, threads, condThreads, lastNonObserver>>
         \/ /\ faults = {}
            /\ MonitorFaults(Ended(ths), t, s) = {}
            /\ \E satisfied \in SatisfiedSets(Woken(ths, t, s), conds) :
                 LET freed == Freed(ths, t, s, conds, satisfied)
                 IN /\ ScheduleFaults(freed, t) = {}
                    /\ threads' = Scheduled(freed, t)
                    /\ condThreads' = StillNeeded(freed, conds)
            /\ lastNonObserver' = IF t \in Observers THEN lastNonObserver ELSE {t}
            /\ UNCHANGED <<task, thrown>>
<1>1. CASE thrown' # {} /\ UNCHANGED <<task, threads, condThreads, lastNonObserver>>
  BY <1>1
<1>2. CASE ~(thrown' # {} /\ UNCHANGED <<task, threads, condThreads, lastNonObserver>>)
  BY <1>2, CompleteCases, Zenon DEF Ended, Woken, Freed
<1> QED
  BY <1>1, <1>2

(* What the invariant of all programs says of the stages. *)
LEMMA GoodStages ==
  ASSUME task \in Tasks, NEW t \in Threads, NEW s, NEW ths, NEW conds,
         GoodTable(ths, conds, t), MonitorFaults(Ended(ths), t, s) = {},
         NEW satisfied \in SatisfiedSets(Woken(ths, t, s), conds)
  PROVE  LET freed == Freed(ths, t, s, conds, satisfied)
         IN /\ Ended(ths) \in Tables /\ Monitored(Ended(ths), t, s) \in Tables
            /\ Woken(ths, t, s) \in Tables /\ freed \in Tables
            /\ Consistent(Ended(ths), conds) /\ Consistent(Woken(ths, t, s), conds)
            /\ Consistent(freed, conds)
            /\ NoOtherRuns(freed, t)
<1> DEFINE ended == Ended(ths)
           monitored == Monitored(ended, t, s)
           woken == Woken(ths, t, s)
           freed == Freed(ths, t, s, conds, satisfied)
<1>1. ths \in Tables /\ conds \in SUBSET CondIds /\ NoOtherRuns(ths, t) /\ Consistent(ths, conds)
  BY DEF GoodTable
<1>2. ended \in Tables /\ monitored \in Tables /\ woken \in Tables /\ freed \in Tables
  BY <1>1, TerminatedType, MonitoredType, WokenUpType, ReleasedType DEF Ended, Woken, Freed
<1>3. NoOtherRuns(freed, t)
  BY <1>1, StagesLetNobodyRun DEF Ended, Woken, Freed
<1>4. Consistent(ended, conds)
  BY <1>1, TerminatedConsistent DEF Ended
<1>5. Consistent(woken, conds)
  <2>1. Consistent(monitored, conds)
    BY <1>2, <1>4, MonitoredConsistent
  <2>2. \A u \in Threads : monitored[u].waiting = ended[u].waiting
    BY <1>2 DEF Monitored, Restarted, Tables, ThreadStates
  <2> HIDE DEF monitored, ended
  <2>3. woken = WokenUp(ended, monitored)
    BY DEF Woken, ended, monitored
  <2> QED
    BY <1>2, <2>1, <2>2, <2>3, WokenUpConsistent
<1>6. Consistent(freed, conds)
  <2>1. Consistent(freed, StillNeeded(freed, conds))
    BY <1>1, <1>2, <1>5, ReleasedConsistent DEF Freed
  <2>2. StillNeeded(freed, conds) \subseteq conds
    BY DEF StillNeeded
  <2> QED
    BY <2>1, <2>2 DEF Consistent
<1> QED
  BY <1>2, <1>3, <1>4, <1>5, <1>6

(* The scheduler changes computation states only, and finishes the stepped   *)
(* thread only.                                                              *)
LEMMA ScheduledChanges ==
  ASSUME NEW ths \in Tables, NEW t \in Threads, NEW u \in Threads
  PROVE  LET th == Scheduled(ths, t)[u]
         IN /\ th.loc = ths[u].loc /\ th.calls = ths[u].calls /\ th.atomic = ths[u].atomic
            /\ th.waiting = ths[u].waiting /\ th.failed = ths[u].failed
            /\ th.comp = "D" => \/ ths[u].comp = "D"
                                \/ u = t /\ ~HasLeaving(ths[t])
            /\ th.comp # "D" => th.comp \in {ths[u].comp, "R", "Y"}
<1>1. ths[u] \in ThreadStates
  BY DEF Tables
<1>2. CASE ContinuesAtomically(ths[t])
  BY <1>1, <1>2 DEF Scheduled, Tables, ThreadStates
<1>3. CASE ~ContinuesAtomically(ths[t])
  <2> DEFINE yielded == Preempted(ths, t)
             next == NextToStep(yielded, t)
  <2>1. /\ yielded \in [Threads -> ThreadStates]
        /\ yielded[u].loc = ths[u].loc /\ yielded[u].calls = ths[u].calls
        /\ yielded[u].atomic = ths[u].atomic /\ yielded[u].waiting = ths[u].waiting
        /\ yielded[u].failed = ths[u].failed
        /\ yielded[u].comp = "D" => \/ ths[u].comp = "D"
                                    \/ u = t /\ ~HasLeaving(ths[t])
        /\ yielded[u].comp # "D" => yielded[u].comp \in {ths[u].comp, "Y"}
    <3>1. ths[t].comp \in CompStates
      BY DEF Tables, ThreadStates
    <3>2. yielded \in [Threads -> ThreadStates]
      BY <3>1, SetComp DEF Preempted, Tables, CompStates
    <3> QED
      BY <1>1, <3>2 DEF Preempted, Tables, ThreadStates
  <2>2. Scheduled(ths, t) = GivenTo(yielded, next)
    BY <1>3 DEF Scheduled
  <2> HIDE DEF yielded, next
  <2>3. yielded[u] \in ThreadStates
    BY <2>1
  <2> QED
    BY <2>1, <2>2, <2>3 DEF GivenTo, ThreadStates
<1> QED
  BY <1>2, <1>3

(* The stages between change what is restarted, what waits, and who is done. *)
FreedFrom(ths, freed, u) ==
  /\ freed[u].atomic = ths[u].atomic /\ freed[u].calls = ths[u].calls
  /\ freed[u].failed = ths[u].failed
  /\ freed[u].waiting \in SUBSET ths[u].waiting
  /\ \A w \in Threads : w \in ths[u].waiting => (w \in freed[u].waiting <=> Ended(ths)[w].comp # "D")
  /\ u \notin Monitors => /\ freed[u].loc = ths[u].loc
                          /\ \/ freed[u].comp = Ended(ths)[u].comp
                             \/ freed[u].comp = "Y" /\ Ended(ths)[u].comp = "W"

LEMMA FreedChanges ==
  ASSUME task \in Tasks, NEW t \in Threads, NEW s, NEW ths, NEW conds,
         GoodTable(ths, conds, t), MonitorFaults(Ended(ths), t, s) = {},
         NEW satisfied \in SatisfiedSets(Woken(ths, t, s), conds), NEW u \in Threads
  PROVE  FreedFrom(ths, Freed(ths, t, s, conds, satisfied), u)
<1> DEFINE ended == Ended(ths)
           monitored == Monitored(ended, t, s)
           woken == Woken(ths, t, s)
           freed == Freed(ths, t, s, conds, satisfied)
<1>1. /\ ths \in Tables /\ ended \in Tables /\ monitored \in Tables /\ woken \in Tables
      /\ freed \in Tables /\ conds \in SUBSET CondIds
      /\ Consistent(ths, conds) /\ Consistent(ended, conds) /\ Consistent(woken, conds)
  BY GoodStages DEF GoodTable
<1>2. /\ ths[u] \in ThreadStates /\ ended[u] \in ThreadStates /\ monitored[u] \in ThreadStates
      /\ woken[u] \in ThreadStates /\ freed[u] \in ThreadStates
  BY <1>1 DEF Tables
<1>3. /\ ended[u].atomic = ths[u].atomic /\ ended[u].calls = ths[u].calls
      /\ ended[u].failed = ths[u].failed /\ ended[u].loc = ths[u].loc
      /\ ended[u].waiting = ths[u].waiting
  BY <1>2 DEF Ended, Terminated, ThreadStates
<1>4. /\ monitored[u].atomic = ended[u].atomic /\ monitored[u].calls = ended[u].calls
      /\ monitored[u].failed = ended[u].failed /\ monitored[u].waiting = ended[u].waiting
      /\ u \notin Monitors => monitored[u] = ended[u]
  BY <1>2 DEF Monitored, Restarted, ThreadStates, MonitorsAfter
<1> HIDE DEF monitored
<1>5. woken = WokenUp(ended, monitored)
  BY DEF Woken, monitored
<1> HIDE DEF ended, woken
<1>6. /\ woken[u].atomic = monitored[u].atomic /\ woken[u].calls = monitored[u].calls
      /\ woken[u].failed = monitored[u].failed /\ woken[u].loc = monitored[u].loc
      /\ woken[u].waiting = StillWaitingFor(ended, u)
      /\ woken[u].comp \in {monitored[u].comp, "Y"}
  BY <1>2, <1>4, <1>5 DEF WokenUp, ThreadStates, StillWaitingFor
<1>7. u \notin Monitors => \/ woken[u].comp = ended[u].comp
                           \/ woken[u].comp = "Y" /\ ended[u].comp = "W"
  <2>1. ended[u].waiting # {} => ended[u].comp = "W"
    BY <1>1 DEF Consistent
  <2> QED
    BY <1>2, <1>4, <1>5, <2>1 DEF WokenUp, ThreadStates
<1>8. /\ freed[u].atomic = woken[u].atomic /\ freed[u].calls = woken[u].calls
      /\ freed[u].failed = woken[u].failed /\ freed[u].loc = woken[u].loc
      /\ freed[u].waiting \in {woken[u].waiting, woken[u].waiting \ conds}
      /\ freed[u].comp \in {woken[u].comp, "Y"}
  BY <1>2 DEF Freed, Released, woken, ThreadStates
<1>9. \/ freed[u].comp = woken[u].comp
      \/ freed[u].comp = "Y" /\ woken[u].comp = "W"
  <2>1. u \in satisfied => woken[u].comp = "W"
    BY DEF SatisfiedSets, CondWaiters, woken
  <2> QED
    BY <1>2, <2>1 DEF Freed, Released, woken, ThreadStates
<1>10. StillWaitingFor(ended, u) \subseteq ths[u].waiting
  BY <1>3 DEF StillWaitingFor
<1>11. ASSUME NEW w \in Threads, w \in ths[u].waiting
       PROVE  w \in freed[u].waiting <=> ended[w].comp # "D"
  <2>1. w \in StillWaitingFor(ended, u) <=> ended[w].comp # "D"
    BY <1>3, <1>11 DEF StillWaitingFor
  <2>2. w \notin conds
    BY <1>1, ThreadsAreNoConditions
  <2> QED
    BY <1>6, <1>8, <2>1, <2>2
<1>12. freed[u].waiting \in SUBSET ths[u].waiting
  BY <1>6, <1>8, <1>10
<1> HIDE DEF freed
<1> QED
  BY <1>3, <1>4, <1>6, <1>7, <1>8, <1>9, <1>11, <1>12 DEF ended, freed, FreedFrom

-----------------------------------------------------------------------------
(* No wake-up is lost.                                                       *)
(*                                                                           *)
(* schedule finishes the stepped thread after the wake-up of that step.  This*)
(* does no harm to a thread that was at its end before the wake-up already;  *)
(* with quiet ends there is no other.                                        *)

(* Only handlers are waited for, and none of those that are done. *)
HandlersAwaited(ths) ==
  \A u \in Threads : \A w \in ths[u].waiting \cap Threads : Script(w).event = "message"
NoneDone(ths) == \A u \in Threads : \A w \in ths[u].waiting \cap Threads : ths[w].comp # "D"

(* A thread that goes to sleep or fails has a step left, or waits for itself. *)
EndsLater(ths, t) ==
  ths[t].waiting # {} \/ ths[t].comp = "F" => HasLeaving(ths[t]) \/ t \in ths[t].waiting

LEMMA WakeUpsKept ==
  ASSUME task \in Tasks, NEW t \in Threads, NEW s, NEW ths, NEW conds,
         GoodTable(ths, conds, t), MonitorFaults(Ended(ths), t, s) = {},
         NEW satisfied \in SatisfiedSets(Woken(ths, t, s), conds),
         ScheduleFaults(Freed(ths, t, s, conds, satisfied), t) = {},
         HandlersAwaited(ths), EndsLater(ths, t)
  PROVE  LET after == Scheduled(Freed(ths, t, s, conds, satisfied), t)
         IN HandlersAwaited(after) /\ NoneDone(after)
<1> DEFINE freed == Freed(ths, t, s, conds, satisfied)
           after == Scheduled(freed, t)
<1> SUFFICES ASSUME NEW u \in Threads, NEW w \in after[u].waiting \cap Threads
             PROVE  Script(w).event = "message" /\ after[w].comp # "D"
  BY DEF HandlersAwaited, NoneDone
<1>1. ths \in Tables /\ freed \in Tables /\ Consistent(freed, conds) /\ Consistent(ths, conds)
  BY GoodStages DEF GoodTable
<1>0. \A v \in Threads : FreedFrom(ths, freed, v)
  BY FreedChanges
<1> HIDE DEF freed
<1>2. w \in freed[u].waiting
  BY <1>1, ScheduledChanges
<1>3. w \in ths[u].waiting /\ Ended(ths)[w].comp # "D"
  BY <1>0, <1>2 DEF FreedFrom
<1>4. Script(w).event = "message" /\ w \notin Monitors
  BY <1>3 DEF HandlersAwaited, Monitors
<1>5. freed[w].comp # "D" /\ freed[w].loc = ths[w].loc
  BY <1>0, <1>3, <1>4 DEF FreedFrom
<1>6. ASSUME after[w].comp = "D" PROVE FALSE
  <2>1. w = t /\ ~HasLeaving(freed[t])
    BY <1>1, <1>5, <1>6, ScheduledChanges
  <2>2. ~HasLeaving(ths[t])
    BY <1>5, <2>1 DEF HasLeaving, Leaving
  <2>3. ths[t].waiting # {} \/ ths[t].comp = "F"
    BY <1>1, <1>3, <2>1, <2>2 DEF Ended, Terminated, Tables, ThreadStates
  <2>4. t \in ths[t].waiting
    BY <2>2, <2>3 DEF EndsLater
  <2>5. freed[t].waiting # {}
    BY <1>0, <1>3, <2>1, <2>4 DEF FreedFrom
  <2>6. ~ContinuesAtomically(freed[t])
    BY <2>5 DEF ContinuesAtomically
  <2>7. When(~HasLeaving(freed[t]) /\ freed[t].waiting # {}, "state change while waiting") = {}
    BY <2>6, Zenon DEF ScheduleFaults, freed
  <2> QED
    BY <2>1, <2>5, <2>7 DEF When
<1> QED
  BY <1>4, <1>6

(* The invariant. *)
WInv == IInv /\ EndsQuietly /\ HandlersAwaited(threads) /\ NoneDone(threads)

(* What the operation must produce in addition to a good table. *)
LEMMA CompleteWInv ==
  ASSUME WInv, IInv', NEW t \in Threads, NEW s, NEW ths, NEW conds, NEW faults,
         faults = {} => GoodTable(ths, conds, t) /\ HandlersAwaited(ths) /\ EndsLater(ths, t),
         Complete(t, s, ths, conds, faults)
  PROVE  WInv'
<1>1. CASE UNCHANGED <<task, threads, condThreads, lastNonObserver>>
  BY <1>1 DEF WInv, EndsQuietly, HasStep, HandlersAwaited, NoneDone, Threads, Script
<1>2. CASE ~UNCHANGED <<task, threads, condThreads, lastNonObserver>>
  <2>1. faults = {} /\ MonitorFaults(Ended(ths), t, s) = {} /\ UNCHANGED task
    BY <1>2, CompleteStages
  <2>2. PICK satisfied \in SatisfiedSets(Woken(ths, t, s), conds) :
          /\ ScheduleFaults(Freed(ths, t, s, conds, satisfied), t) = {}
          /\ threads' = Scheduled(Freed(ths, t, s, conds, satisfied), t)
    BY <1>2, CompleteStages
  <2>3. task \in Tasks
    BY DEF WInv, IInv, TypeInv
  <2>4. HandlersAwaited(threads') /\ NoneDone(threads')
    BY <2>1, <2>2, <2>3, WakeUpsKept
  <2>5. HandlersAwaited(threads)' /\ NoneDone(threads)'
    BY <2>1, <2>4 DEF HandlersAwaited, NoneDone, Threads, Script
  <2>6. EndsQuietly'
    BY <2>1 DEF WInv, EndsQuietly, HasStep, Threads, Script
  <2> QED
    BY <2>5, <2>6 DEF WInv
<1> QED
  BY <1>1, <1>2

(* A step leads to a step, unless it is one of those that may be the last. *)
LEMMA QuietSteps ==
  ASSUME IInv, EndsQuietly, NEW t \in Running(threads), NEW s \in Leaving(threads[t]),
         s.kind \notin {"epsilon", "return"}
  PROVE  HasStep(threads[t].loc.rel, s.to)
<1>1. threads[t].loc.rel \in DOMAIN task.relations
  BY DEF IInv, TypeInv, TypeOK, Running, ThreadStates, Locations
<1> QED
  BY <1>1 DEF EndsQuietly, Leaving

(* What a send makes of each thread. *)
FallsAsleep(t, s, u) == u = t /\ s.kind = "broadcastWait" /\ Receivers(t, s.arg) # {}
SentFrom(t, s, u, old, th) ==
  /\ th.waiting = IF FallsAsleep(t, s, u) THEN Receivers(t, s.arg) ELSE old.waiting
  /\ th.calls = old.calls /\ th.atomic = old.atomic /\ th.failed = old.failed
  /\ th.loc = IF u \in Triggered(Moved(t, s), Receivers(t, s.arg))
              THEN [old.loc EXCEPT !.at = Script(u).entry] ELSE old.loc
  /\ IF FallsAsleep(t, s, u) THEN th.comp = "W"
     ELSE IF u \in Triggered(Moved(t, s), Receivers(t, s.arg)) THEN th.comp = "Y"
     ELSE \/ th.comp = old.comp
          \/ /\ s.kind = "broadcastWait" /\ s.arg = BootstrapFinished
             /\ u \in Monitors /\ old.comp = "P" /\ th.comp = "D"

LEMMA SentChanges ==
  ASSUME IInv, NEW t \in Running(threads), NEW s \in Leaving(threads[t]), s.kind \in Sends,
         NEW u \in Threads
  PROVE  SentFrom(t, s, u, Moved(t, s)[u], SentTable(t, s)[u])
<1> DEFINE moved == Moved(t, s)
           receivers == Receivers(t, s.arg)
           triggered == Triggered(moved, receivers)
           sent == Dispatched(moved, receivers)
           asleep == Asleep(sent, t, receivers)
           enabled == MonitorsEnabled(asleep)
<1>1. /\ moved \in Tables /\ t \in Threads /\ task \in Tasks
      /\ moved[t].waiting = {}
  <2>1. t \in Threads /\ task \in Tasks /\ threads \in [Threads -> ThreadStates]
    BY DEF IInv, TypeInv, TypeOK, Running
  <2>2. moved \in Tables /\ threads[t].waiting = {}
    BY MovedFacts DEF GoodTable
  <2>3. moved[t].waiting = threads[t].waiting
    BY <2>1 DEF Moved, ThreadStates
  <2> QED
    BY <2>1, <2>2, <2>3
<1> HIDE DEF moved
<1>2. moved[u] \in ThreadStates
  BY <1>1 DEF Tables
<1>3. /\ sent \in Tables /\ sent[u].waiting = moved[u].waiting /\ sent[u].calls = moved[u].calls
      /\ sent[u].atomic = moved[u].atomic /\ sent[u].failed = moved[u].failed
      /\ sent[u].loc = IF u \in triggered THEN [moved[u].loc EXCEPT !.at = Script(u).entry]
                       ELSE moved[u].loc
      /\ sent[u].comp = IF u \in triggered THEN "Y" ELSE moved[u].comp
  BY <1>1, <1>2, DispatchedType DEF Dispatched, Restarted, ThreadStates
<1>4. sent[t].waiting = {}
  BY <1>1 DEF Dispatched, Restarted, Tables, ThreadStates
<1> HIDE DEF sent, triggered, receivers
<1>5. sent[u] \in ThreadStates
  BY <1>3 DEF Tables
<1>6. /\ asleep[u].calls = sent[u].calls /\ asleep[u].atomic = sent[u].atomic
      /\ asleep[u].failed = sent[u].failed /\ asleep[u].loc = sent[u].loc
      /\ asleep[u].waiting = IF u = t /\ receivers # {} THEN receivers ELSE sent[u].waiting
      /\ asleep[u].comp = IF u = t /\ receivers # {} THEN "W" ELSE sent[u].comp
  BY <1>1, <1>3, <1>4, <1>5 DEF Asleep, Tables, ThreadStates
<1>7. /\ enabled[u].calls = asleep[u].calls /\ enabled[u].atomic = asleep[u].atomic
      /\ enabled[u].failed = asleep[u].failed /\ enabled[u].loc = asleep[u].loc
      /\ enabled[u].waiting = asleep[u].waiting
      /\ enabled[u].comp = IF u \in Monitors /\ asleep[u].comp = "P" THEN "D" ELSE asleep[u].comp
  <2>1. asleep[u] = [sent[u] EXCEPT !.comp = asleep[u].comp, !.waiting = asleep[u].waiting]
    BY <1>1, <1>3, <1>5 DEF Asleep, Tables, ThreadStates
  <2> HIDE DEF asleep
  <2> QED
    BY <2>1, <1>5 DEF MonitorsEnabled, ThreadStates
<1> HIDE DEF asleep, enabled
<1>8. SentTable(t, s) = IF s.kind = "broadcast" THEN sent
                        ELSE IF s.arg = BootstrapFinished THEN enabled ELSE asleep
  BY DEF SentTable, sent, asleep, enabled, receivers, moved
<1>9. s.kind \in {"broadcast", "broadcastWait"}
  BY DEF Sends
<1>10. CASE s.kind = "broadcast"
  <2>1. SentTable(t, s) = sent /\ ~FallsAsleep(t, s, u)
    BY <1>8, <1>10 DEF FallsAsleep
  <2> QED
    BY <2>1, <1>3 DEF SentFrom, moved, receivers, triggered
<1>11. CASE s.kind = "broadcastWait"
  <2>1. FallsAsleep(t, s, u) <=> u = t /\ receivers # {}
    BY <1>11 DEF FallsAsleep, receivers
  <2>2. SentTable(t, s) = IF s.arg = BootstrapFinished THEN enabled ELSE asleep
    BY <1>8, <1>11
  <2> QED
    BY <2>1, <2>2, <1>3, <1>6, <1>7, <1>11 DEF SentFrom, moved, receivers, triggered
<1> QED
  BY <1>9, <1>10, <1>11

LEMMA StepWInv ==
  ASSUME WInv, IInv', NEW t \in Running(threads), NEW s \in Leaving(threads[t]), Step(t, s)
  PROVE  WInv'
<1>1. /\ IInv /\ EndsQuietly /\ t \in Threads /\ task \in Tasks
      /\ threads \in [Threads -> ThreadStates] /\ condThreads \in SUBSET CondIds
      /\ HandlersAwaited(threads)
  BY DEF WInv, IInv, TypeInv, TypeOK, Running
<1>2. threads[t] \in ThreadStates /\ threads[t].comp = "R" /\ threads[t].waiting = {}
  BY <1>1, MovedFacts
<1>3. PICK ths : /\ Complete(t, s, ths, CondsAfter(t, s), OperationFaults(t, s))
                 /\ OperationFaults(t, s) = {} => /\ GoodTable(ths, CondsAfter(t, s), t)
                                                  /\ Operated(t, s, ths)
  BY <1>1, StepTable
<1>4. ASSUME OperationFaults(t, s) = {} PROVE HandlersAwaited(ths) /\ EndsLater(ths, t)
  <2>1. CASE s.kind \notin Sends
    <3>1. (\A u \in Threads \ {t} : ths[u] = threads[u]) /\ SteppedBy(t, s, ths[t])
      BY <1>3, <1>4, <2>1 DEF Operated
    <3>2. ths[t].waiting \in SUBSET CondIds
      BY <3>1, <1>1 DEF SteppedBy, CondIds
    <3>3. HandlersAwaited(ths)
      BY <3>1, <3>2, <1>1, ThreadsAreNoConditions DEF HandlersAwaited
    <3>4. CASE s.kind \in {"signal", "waitSeconds"}
      <4>1. ths[t].loc = [threads[t].loc EXCEPT !.at = s.to]
        BY <3>1, <3>4 DEF SteppedBy
      <4>2. HasStep(threads[t].loc.rel, s.to)
        BY <3>4, <1>1, QuietSteps
      <4>3. HasLeaving(ths[t])
        BY <4>1, <4>2, <1>2 DEF HasStep, HasLeaving, Leaving, ThreadStates, Locations
      <4> QED
        BY <3>3, <4>3 DEF EndsLater
    <3>5. CASE s.kind \notin {"signal", "waitSeconds"}
      <4>1. ths[t].waiting = {} /\ ths[t].comp # "F"
        BY <3>1, <3>5 DEF SteppedBy
      <4> QED
        BY <3>3, <4>1 DEF EndsLater
    <3> QED
      BY <3>4, <3>5
  <2>2. CASE s.kind \in Sends
    <3>1. ths = SentTable(t, s)
      BY <1>3, <1>4, <2>2 DEF Operated
    <3>2. \A u \in Threads : SentFrom(t, s, u, Moved(t, s)[u], ths[u])
      BY <3>1, <1>1, <2>2, SentChanges
    <3>3. /\ \A u \in Threads : Moved(t, s)[u].waiting = threads[u].waiting
          /\ Moved(t, s)[t].comp = "R"
          /\ Moved(t, s)[t].loc = [threads[t].loc EXCEPT !.at = s.to]
      BY <1>1, <1>2 DEF Moved, ThreadStates
    <3>4. HandlersAwaited(ths)
      <4>1. \A w \in Receivers(t, s.arg) : Script(w).event = "message"
        BY DEF Receivers, IsHandlerFor
      <4>2. \A u \in Threads : ths[u].waiting \in {Receivers(t, s.arg), threads[u].waiting}
        BY <3>2, <3>3 DEF SentFrom
      <4> QED
        BY <4>1, <4>2, <1>1 DEF HandlersAwaited
    <3>5. CASE FallsAsleep(t, s, t)
      <4>1. ths[t].waiting = Receivers(t, s.arg)
        BY <3>2, <3>5, <1>1 DEF SentFrom
      <4>2. CASE t \in Receivers(t, s.arg)
        BY <4>1, <4>2, <3>4 DEF EndsLater
      <4>3. CASE t \notin Receivers(t, s.arg)
        <5>1. ths[t].loc = [threads[t].loc EXCEPT !.at = s.to]
          BY <4>3, <3>2, <3>3, <1>1 DEF SentFrom, Triggered
        <5>2. HasStep(threads[t].loc.rel, s.to)
          BY <2>2, <1>1, QuietSteps DEF Sends
        <5>3. HasLeaving(ths[t])
          BY <5>1, <5>2, <1>2 DEF HasStep, HasLeaving, Leaving, ThreadStates, Locations
        <5> QED
          BY <5>3, <3>4 DEF EndsLater
      <4> QED
        BY <4>2, <4>3
    <3>6. CASE ~FallsAsleep(t, s, t)
      <4>1. ths[t].waiting = {} /\ ths[t].comp # "F"
        BY <3>2, <3>3, <3>6, <1>1, <1>2 DEF SentFrom
      <4> QED
        BY <4>1, <3>4 DEF EndsLater
    <3> QED
      BY <3>5, <3>6
  <2> QED
    BY <2>1, <2>2
<1> QED
  BY <1>1, <1>3, <1>4, CompleteWInv

LEMMA WakeUpInvariance == Spec /\ EndsQuietly => []WInv
<1>1. Init /\ EndsQuietly => WInv
  <2> SUFFICES ASSUME Init, EndsQuietly PROVE WInv
    OBVIOUS
  <2>1. \A u \in Threads : threads[u].waiting = {}
    BY DEF Init, InitialThread
  <2> QED
    BY <2>1, InitInv DEF WInv, HandlersAwaited, NoneDone
<1>2. WInv /\ IInv' /\ [Next]_vars => WInv'
  <2> SUFFICES ASSUME WInv, IInv', [Next]_vars PROVE WInv'
    OBVIOUS
  <2>1. CASE Next
    BY <2>1, StepWInv DEF Next
  <2>2. CASE UNCHANGED vars
    BY <2>2 DEF vars, WInv, EndsQuietly, HasStep, HandlersAwaited, NoneDone, Threads, Script
  <2> QED
    BY <2>1, <2>2
<1> QED
  BY <1>1, <1>2, Invariance, PTL DEF Spec

(* For programs that end quietly, as those of AppBuilder do: a thread in      *)
(* state WAIT waits for something, but nobody waits for a thread that is      *)
(* done, or for a condition that is not checked any more                     *)
(* (the wake-up of abstractSuccSingleStep, schedule).                        *)
THEOREM NoWakeUpLost == Spec /\ EndsQuietly => []NoLostWakeUp
<1>1. WInv => NoLostWakeUp
  <2> SUFFICES ASSUME WInv, NEW t \in Threads, NEW w \in threads[t].waiting
               PROVE  IF w \in Threads THEN threads[w].comp # "D" ELSE w \in condThreads
    BY DEF NoLostWakeUp, WaitsForSomething, WInv, IInv, Consistent
  <2>1. CASE w \in Threads
    BY <2>1 DEF WInv, NoneDone
  <2>2. CASE w \notin Threads
    BY <2>2 DEF WInv, IInv, Consistent
  <2> QED
    BY <2>1, <2>2
<1> QED
  BY <1>1, WakeUpInvariance, PTL

-----------------------------------------------------------------------------
(* Where a thread is.                                                        *)
(*                                                                           *)
(* The call stack of a thread and its location form a chain, from the script *)
(* through the methods.  The atomic sections it is inside of are those of the*)
(* places in the chain and those of the atomic methods.                      *)

MayEnd(loc) == HasStep(loc.rel, loc.at) \/ (loc.rel \notin DOMAIN task.methods /\ Nest(loc) = 0)

Chain(calls, loc) == Append(calls, loc)

(* base[i] counts the sections that were begun below the i-th place. *)
IsBase(t, base, calls, loc, atomic) ==
  /\ base \in [1 .. Len(calls) + 1 -> Nat]
  /\ base[1] = 0
  /\ Chain(calls, loc)[1].rel = Script(t).rel
  /\ \A i \in 1 .. Len(calls) :
       /\ HasStep(calls[i].rel, calls[i].at)
       /\ Chain(calls, loc)[i + 1].rel \in DOMAIN task.methods
       /\ base[i + 1] = base[i] + Nest(calls[i]) + Depth(Chain(calls, loc)[i + 1].rel)
  /\ atomic = base[Len(calls) + 1] + Nest(loc)

Framed(t, calls, loc, atomic) ==
  /\ MayEnd(loc)
  /\ \E base : IsBase(t, base, calls, loc, atomic)

LEMMA NestingFacts ==
  ASSUME Nested
  PROVE  /\ IsNesting(Nesting)
         /\ \A loc \in Locations : Nest(loc) \in Nat
<1>1. IsNesting(Nesting)
  BY DEF Nested, Nesting
<1> QED
  BY <1>1 DEF IsNesting, Nest, Locations

LEMMA DepthType == \A m : Depth(m) \in {0, 1}
BY DEF Depth

(* At the entry of its script. *)
LEMMA FramedStart ==
  ASSUME task \in Tasks, Structured, NEW t \in Threads
  PROVE  Framed(t, <<>>, [rel |-> Script(t).rel, at |-> Script(t).entry], 0)
<1> DEFINE loc == [rel |-> Script(t).rel, at |-> Script(t).entry]
           base == [i \in 1 .. 1 |-> 0]
<1>1. Nest(loc) = 0
  BY NestingFacts DEF Structured, IsNesting, Nest
<1>2. MayEnd(loc)
  BY DEF Structured, EndsQuietly, MayEnd
<1>3. IsBase(t, base, <<>>, loc, 0)
  BY <1>1 DEF IsBase, Chain
<1> QED
  BY <1>2, <1>3 DEF Framed

(* A step within a relation. *)
LEMMA FramedMove ==
  ASSUME task \in Tasks, Structured, NEW t \in Threads, NEW calls \in Seq(Locations),
         NEW loc \in Locations, NEW to \in Locations, NEW atomic \in Nat, NEW after \in Nat,
         Framed(t, calls, loc, atomic), to.rel = loc.rel, MayEnd(to),
         after - atomic = Nest(to) - Nest(loc)
  PROVE  Framed(t, calls, to, after)
<1>1. PICK base : IsBase(t, base, calls, loc, atomic)
  BY DEF Framed
<1>2. Nest(to) \in Nat /\ Nest(loc) \in Nat /\ Len(calls) \in Nat
  BY NestingFacts DEF Structured
<1>3. \A i \in 1 .. Len(calls) + 1 : Chain(calls, to)[i].rel = Chain(calls, loc)[i].rel
  BY DEF Chain
<1>4. base[Len(calls) + 1] \in Nat
  BY <1>1, <1>2 DEF IsBase
<1>5. after = base[Len(calls) + 1] + Nest(to)
  <2>1. atomic = base[Len(calls) + 1] + Nest(loc)
    BY <1>1 DEF IsBase
  <2> QED
    BY <2>1, <1>2, <1>4
<1>6. ASSUME NEW i \in 1 .. Len(calls)
      PROVE  /\ HasStep(calls[i].rel, calls[i].at)
             /\ Chain(calls, to)[i + 1].rel \in DOMAIN task.methods
             /\ base[i + 1] = base[i] + Nest(calls[i]) + Depth(Chain(calls, to)[i + 1].rel)
  <2>1. i + 1 \in 1 .. Len(calls) + 1
    BY <1>2
  <2> QED
    BY <2>1, <1>1, <1>3 DEF IsBase
<1>7. 1 \in 1 .. Len(calls) + 1
  BY <1>2
<1>8. Chain(calls, to)[1].rel = Script(t).rel /\ base[1] = 0 /\ base \in [1 .. Len(calls) + 1 -> Nat]
  BY <1>1, <1>3, <1>7 DEF IsBase
<1>9. IsBase(t, base, calls, to, after)
  BY <1>5, <1>6, <1>8 DEF IsBase
<1> QED
  BY <1>9 DEF Framed

LEMMA FramedCall ==
  ASSUME task \in Tasks, Structured, NEW t \in Threads, NEW calls \in Seq(Locations),
         NEW loc \in Locations, NEW return \in Locations, NEW atomic \in Nat,
         Framed(t, calls, loc, atomic), return.rel = loc.rel,
         HasStep(return.rel, return.at), Nest(return) = Nest(loc),
         NEW m \in DOMAIN task.methods
  PROVE  Framed(t, Append(calls, return), [rel |-> m, at |-> task.methods[m].entry],
                atomic + Depth(m))
<1> DEFINE entry == [rel |-> m, at |-> task.methods[m].entry]
           n == Len(calls)
<1>1. PICK base : IsBase(t, base, calls, loc, atomic)
  BY DEF Framed
<1>2. entry \in Locations /\ n \in Nat
  BY TaskType DEF Locations
<1>3. Nest(entry) = 0 /\ MayEnd(entry)
  BY NestingFacts DEF Structured, IsNesting, Nest, MayEnd
<1>4. Nest(loc) \in Nat /\ Depth(m) \in Nat
  BY NestingFacts, DepthType DEF Structured
<1> DEFINE longer == [i \in 1 .. n + 2 |-> IF i <= n + 1 THEN base[i] ELSE atomic + Depth(m)]
<1>5. base \in [1 .. n + 1 -> Nat] /\ atomic = base[n + 1] + Nest(loc)
  BY <1>1 DEF IsBase
<1>6. longer \in [1 .. n + 2 -> Nat]
  BY <1>2, <1>4, <1>5
<1>7. Append(calls, return) \in Seq(Locations) /\ Len(Append(calls, return)) = n + 1
  BY <1>2
<1>8. /\ \A i \in 1 .. n + 1 : Chain(Append(calls, return), entry)[i].rel = Chain(calls, loc)[i].rel
      /\ Chain(Append(calls, return), entry)[n + 2].rel = m
      /\ \A i \in 1 .. n : Append(calls, return)[i] = calls[i]
      /\ Append(calls, return)[n + 1] = return
  BY <1>2, <1>7 DEF Chain
<1> HIDE DEF entry
<1>9. \A i \in 1 .. n + 1 :
        /\ HasStep(Append(calls, return)[i].rel, Append(calls, return)[i].at)
        /\ Chain(Append(calls, return), entry)[i + 1].rel \in DOMAIN task.methods
        /\ longer[i + 1] = longer[i] + Nest(Append(calls, return)[i])
                                     + Depth(Chain(Append(calls, return), entry)[i + 1].rel)
  <2> SUFFICES ASSUME NEW i \in 1 .. n + 1
               PROVE  /\ HasStep(Append(calls, return)[i].rel, Append(calls, return)[i].at)
                      /\ Chain(Append(calls, return), entry)[i + 1].rel \in DOMAIN task.methods
                      /\ longer[i + 1] = longer[i] + Nest(Append(calls, return)[i])
                                     + Depth(Chain(Append(calls, return), entry)[i + 1].rel)
    OBVIOUS
  <2>1. CASE i \in 1 .. n
    BY <2>1, <1>1, <1>2, <1>8 DEF IsBase
  <2>2. CASE i = n + 1
    BY <2>2, <1>2, <1>4, <1>5, <1>8
  <2> QED
    BY <2>1, <2>2, <1>2
<1>10. longer[1] = 0 /\ Chain(Append(calls, return), entry)[1].rel = Script(t).rel
  BY <1>1, <1>2, <1>8 DEF IsBase
<1>11. atomic + Depth(m) = longer[n + 2] + Nest(entry)
  BY <1>2, <1>3, <1>4
<1> DEFINE stack == Append(calls, return)
<1>12. IsBase(t, longer, stack, entry, atomic + Depth(m))
  <2>1. Len(stack) = n + 1 /\ (n + 1) + 1 = n + 2
    BY <1>2, <1>7
  <2> HIDE DEF stack, longer, n
  <2> QED
    BY <2>1, <1>6, <1>9, <1>10, <1>11 DEF IsBase, stack
<1>13. Framed(t, Append(calls, return), entry, atomic + Depth(m))
  BY <1>3, <1>12 DEF Framed
<1> QED
  BY <1>13 DEF entry

LEMMA FramedReturn ==
  ASSUME task \in Tasks, Structured, NEW t \in Threads, NEW calls \in Seq(Locations),
         NEW loc \in Locations, NEW atomic \in Nat,
         Framed(t, calls, loc, atomic), loc.rel \in DOMAIN task.methods, Nest(loc) = 0
  PROVE  /\ calls # <<>>
         /\ atomic >= Depth(loc.rel)
         /\ Framed(t, SubSeq(calls, 1, Len(calls) - 1), calls[Len(calls)], atomic - Depth(loc.rel))
<1> DEFINE n == Len(calls)
           rest == SubSeq(calls, 1, n - 1)
<1>1. PICK base : IsBase(t, base, calls, loc, atomic)
  BY DEF Framed
<1>2. n \in Nat
  OBVIOUS
<1>3. calls # <<>>
  <2> SUFFICES ASSUME calls = <<>> PROVE FALSE
    OBVIOUS
  <2>1. loc.rel = Script(t).rel
    BY <1>1 DEF IsBase, Chain
  <2> QED
    BY <2>1, NestingFacts DEF Structured, IsNesting
<1>4. n \in Nat \ {0} /\ n - 1 \in Nat
  BY <1>2, <1>3
<1>5. base \in [1 .. n + 1 -> Nat] /\ base[n] \in Nat /\ base[n + 1] \in Nat
  BY <1>1, <1>4 DEF IsBase
<1>6. calls[n] \in Locations /\ Nest(calls[n]) \in Nat /\ Depth(loc.rel) \in Nat
  BY <1>4, NestingFacts, DepthType DEF Structured
<1>7. Chain(calls, loc)[n + 1] = loc
  BY <1>2 DEF Chain
<1>8. atomic = base[n] + Nest(calls[n]) + Depth(loc.rel) /\ HasStep(calls[n].rel, calls[n].at)
  <2>1. n \in 1 .. n
    BY <1>4
  <2>2. base[n + 1] = base[n] + Nest(calls[n]) + Depth(loc.rel) /\ HasStep(calls[n].rel, calls[n].at)
    BY <2>1, <1>1, <1>7 DEF IsBase
  <2>3. atomic = base[n + 1] + 0
    BY <1>1 DEF IsBase
  <2> QED
    BY <2>2, <2>3, <1>5
<1> DEFINE shorter == [i \in 1 .. n |-> base[i]]
<1>9. /\ rest \in Seq(Locations) /\ Len(rest) = n - 1
      /\ \A i \in 1 .. n - 1 : rest[i] = calls[i]
  <2>1. \A i \in 1 .. n - 1 : i \in 1 .. n
    BY <1>4
  <2>2. \A i \in 1 .. n : calls[i] \in Locations
    OBVIOUS
  <2>3. \A i \in 1 .. n - 1 : calls[i] \in Locations
    BY <2>1, <2>2
  <2>4. 1 \in Int /\ n - 1 \in Int
    BY <1>4
  <2>5. /\ rest \in Seq(Locations) /\ Len(rest) = (IF 1 <= n - 1 THEN n - 1 - 1 + 1 ELSE 0)
        /\ \A i \in 1 .. n - 1 - 1 + 1 : rest[i] = calls[1 + i - 1]
    BY <2>3, <2>4, SubSeqProperties
  <2> HIDE DEF rest
  <2> HIDE DEF n
  <2>6. Len(rest) = n - 1
    <3>1. CASE n = 1
      BY <3>1, <2>5
    <3>2. CASE n # 1
      BY <3>2, <2>5, <1>4
    <3> QED
      BY <3>1, <3>2
  <2>7. ASSUME NEW i \in 1 .. n - 1 PROVE rest[i] = calls[i]
    <3>1. i \in 1 .. n - 1 - 1 + 1 /\ 1 + i - 1 = i
      BY <1>4
    <3> QED
      BY <3>1, <2>5
  <2> QED
    BY <2>5, <2>6, <2>7
<1>10. \A i \in 1 .. n : Chain(rest, calls[n])[i] = calls[i] /\ Chain(calls, loc)[i] = calls[i]
  BY <1>4, <1>9 DEF Chain
<1>11. \A i \in 1 .. n - 1 :
         /\ HasStep(rest[i].rel, rest[i].at)
         /\ Chain(rest, calls[n])[i + 1].rel \in DOMAIN task.methods
         /\ shorter[i + 1] = shorter[i] + Nest(rest[i]) + Depth(Chain(rest, calls[n])[i + 1].rel)
  <2> SUFFICES ASSUME NEW i \in 1 .. n - 1
               PROVE  /\ HasStep(rest[i].rel, rest[i].at)
                      /\ Chain(rest, calls[n])[i + 1].rel \in DOMAIN task.methods
                      /\ shorter[i + 1] = shorter[i] + Nest(rest[i])
                                                     + Depth(Chain(rest, calls[n])[i + 1].rel)
    OBVIOUS
  <2>1. i \in 1 .. n /\ i + 1 \in 1 .. n
    BY <1>4
  <2> HIDE DEF rest
  <2> QED
    BY <2>1, <1>1, <1>9, <1>10 DEF IsBase
<1>12. shorter \in [1 .. (n - 1) + 1 -> Nat] /\ shorter[1] = 0
  BY <1>1, <1>4, <1>5 DEF IsBase
<1>13. Chain(rest, calls[n])[1].rel = Script(t).rel
  BY <1>1, <1>4, <1>10 DEF IsBase
<1>14. atomic - Depth(loc.rel) = shorter[(n - 1) + 1] + Nest(calls[n])
  BY <1>4, <1>5, <1>6, <1>8
<1> HIDE DEF rest, shorter
<1>15. IsBase(t, shorter, rest, calls[n], atomic - Depth(loc.rel))
  BY <1>9, <1>11, <1>12, <1>13, <1>14 DEF IsBase
<1>16. MayEnd(calls[n])
  BY <1>8 DEF MayEnd
<1>17. Framed(t, rest, calls[n], atomic - Depth(loc.rel))
  BY <1>15, <1>16 DEF Framed
<1>18. atomic >= Depth(loc.rel)
  BY <1>5, <1>6, <1>8
<1> QED
  BY <1>3, <1>17, <1>18 DEF rest

(* What a place says of the chain. *)
LEMMA FramedFacts ==
  ASSUME task \in Tasks, Structured, NEW t \in Threads, NEW calls \in Seq(Locations),
         NEW loc \in Locations, NEW atomic \in Nat, Framed(t, calls, loc, atomic)
  PROVE  /\ calls = <<>> => loc.rel = Script(t).rel
         /\ loc.rel \notin DOMAIN task.methods => calls = <<>> /\ atomic = Nest(loc)
         /\ ~HasStep(loc.rel, loc.at) => calls = <<>> /\ atomic = 0
         /\ atomic >= Nest(loc)
<1>1. PICK base : IsBase(t, base, calls, loc, atomic)
  BY DEF Framed
<1>2. Len(calls) \in Nat /\ Nest(loc) \in Nat
  BY NestingFacts DEF Structured
<1>3. calls = <<>> => Len(calls) = 0 /\ Chain(calls, loc)[1] = loc
  BY DEF Chain
<1>4. calls # <<>> => loc.rel \in DOMAIN task.methods
  <2> SUFFICES ASSUME calls # <<>> PROVE loc.rel \in DOMAIN task.methods
    OBVIOUS
  <2>1. Len(calls) \in 1 .. Len(calls) /\ Chain(calls, loc)[Len(calls) + 1] = loc
    BY <1>2 DEF Chain
  <2> QED
    BY <2>1, <1>1 DEF IsBase
<1>5. base[Len(calls) + 1] \in Nat /\ atomic = base[Len(calls) + 1] + Nest(loc)
  BY <1>1, <1>2 DEF IsBase
<1>6. calls = <<>> => base[Len(calls) + 1] = 0
  BY <1>1, <1>3 DEF IsBase
<1>7. calls = <<>> => loc.rel = Script(t).rel
  BY <1>1, <1>3 DEF IsBase
<1>8. ~HasStep(loc.rel, loc.at) => loc.rel \notin DOMAIN task.methods /\ Nest(loc) = 0
  BY DEF Framed, MayEnd
<1> QED
  BY <1>2, <1>4, <1>5, <1>6, <1>7, <1>8

-----------------------------------------------------------------------------
(* What holds of each thread: it is idle outside of methods and atomic       *)
(* sections only, it sleeps or fails before its end, and what is restarted   *)
(* is never in the middle of something.                                      *)

Quiet(th) == th.calls = <<>> /\ th.atomic = 0

Placed(u, th) ==
  /\ Framed(u, th.calls, th.loc, th.atomic)
  /\ th.comp \in {"D", "P"} => Quiet(th)
  /\ th.comp = "P" => th.loc.at = Script(u).entry
  /\ th.waiting # {} \/ th.comp = "F" => HasLeaving(th)
  /\ th.comp = "F" => th.failed
  /\ Restarting(u) => Quiet(th) /\ th.waiting = {}

AllPlaced(ths) == \A u \in Threads : Placed(u, ths[u])
Going(ths) == \A u \in Threads : ths[u].comp \in {"R", "Y", "W"} => HasLeaving(ths[u])

LEMMA LeavingIsStep ==
  ASSUME NEW th PROVE HasLeaving(th) <=> HasStep(th.loc.rel, th.loc.at)
BY DEF HasLeaving, Leaving, HasStep

(* A change of the computation state, and of what is waited for. *)
Changed(th, new) ==
  /\ new.loc = th.loc /\ new.calls = th.calls /\ new.atomic = th.atomic /\ new.failed = th.failed
  /\ new.waiting \subseteq th.waiting
  /\ new.comp \in {th.comp, "Y", "R"} \/ (new.comp = "D" /\ Quiet(th))

LEMMA ChangedPlaced ==
  ASSUME NEW u, NEW th, NEW new, Placed(u, th), Changed(th, new)
  PROVE  Placed(u, new) /\ (HasLeaving(new) <=> HasLeaving(th))
<1>1. HasLeaving(new) <=> HasLeaving(th)
  BY DEF HasLeaving, Leaving, Changed
<1> QED
  BY <1>1 DEF Placed, Changed, Quiet

(* A thread without a step is outside of everything. *)
LEMMA EndIsQuiet ==
  ASSUME task \in Tasks, Structured, NEW u \in Threads, NEW th \in ThreadStates,
         Placed(u, th), ~HasLeaving(th)
  PROVE  Quiet(th)
<1>1. ~HasStep(th.loc.rel, th.loc.at)
  BY LeavingIsStep
<1>2. th.calls \in Seq(Locations) /\ th.loc \in Locations /\ th.atomic \in Nat
  BY DEF ThreadStates
<1> QED
  BY <1>1, <1>2, FramedFacts DEF Placed, Quiet

(* An idle thread has the relation of its script, and restarts at its entry. *)
EntryOf(u) == [rel |-> Script(u).rel, at |-> Script(u).entry]

LEMMA RestartedPlaced ==
  ASSUME task \in Tasks, Structured, NEW u \in Threads, NEW th \in ThreadStates,
         Placed(u, th), Quiet(th)
  PROVE  /\ Restarted(u, th).loc = EntryOf(u)
         /\ HasLeaving(Restarted(u, th))
         /\ Placed(u, Restarted(u, th))
<1>1. th.calls \in Seq(Locations) /\ th.loc \in Locations /\ th.atomic \in Nat
  BY DEF ThreadStates
<1>2. th.loc.rel = Script(u).rel
  BY <1>1, FramedFacts DEF Placed, Quiet
<1>3. /\ Restarted(u, th).loc = EntryOf(u) /\ Restarted(u, th).comp = "Y"
      /\ Restarted(u, th).calls = <<>> /\ Restarted(u, th).atomic = 0
      /\ Restarted(u, th).waiting = th.waiting
  BY <1>1, <1>2 DEF Restarted, EntryOf, ThreadStates, Locations, Quiet
<1>4. Framed(u, <<>>, EntryOf(u), 0)
  BY FramedStart DEF EntryOf
<1>5. HasLeaving(Restarted(u, th))
  BY <1>3, LeavingIsStep DEF EntryOf, Structured, EndsQuietly
<1>6. Restarting(u) => th.waiting = {}
  BY DEF Placed
<1> HIDE DEF EntryOf
<1> QED
  BY <1>3, <1>4, <1>5, <1>6 DEF Placed, Quiet

LEMMA EndedPlaced ==
  ASSUME task \in Tasks, Structured, NEW ths \in Tables, AllPlaced(ths)
  PROVE  AllPlaced(Ended(ths)) /\ Going(Ended(ths))
<1> SUFFICES ASSUME NEW u \in Threads
             PROVE  /\ Placed(u, Ended(ths)[u])
                    /\ Ended(ths)[u].comp \in {"R", "Y", "W"} => HasLeaving(Ended(ths)[u])
  BY DEF AllPlaced, Going
<1>1. ths[u] \in ThreadStates /\ Placed(u, ths[u])
  BY DEF Tables, AllPlaced
<1>2. CASE ths[u].comp # "F" /\ ths[u].waiting = {} /\ ~HasLeaving(ths[u])
  <2>1. Ended(ths)[u] = [ths[u] EXCEPT !.comp = "D"]
    BY <1>2 DEF Ended, Terminated
  <2>2. Changed(ths[u], Ended(ths)[u]) /\ Ended(ths)[u].comp = "D"
    BY <2>1, <1>1, <1>2, EndIsQuiet DEF Changed, ThreadStates
  <2> QED
    BY <2>2, <1>1, ChangedPlaced
<1>3. CASE ~(ths[u].comp # "F" /\ ths[u].waiting = {} /\ ~HasLeaving(ths[u]))
  <2>1. Ended(ths)[u] = ths[u]
    BY <1>3 DEF Ended, Terminated
  <2> QED
    BY <2>1, <1>1, <1>3 DEF Placed
<1> QED
  BY <1>2, <1>3

LEMMA FreedPlaced ==
  ASSUME task \in Tasks, Structured, NEW t \in Threads, NEW s, NEW ths, NEW conds,
         GoodTable(ths, conds, t), MonitorFaults(Ended(ths), t, s) = {},
         NEW satisfied \in SatisfiedSets(Woken(ths, t, s), conds), AllPlaced(ths)
  PROVE  /\ AllPlaced(Freed(ths, t, s, conds, satisfied))
         /\ Going(Freed(ths, t, s, conds, satisfied))
<1> DEFINE ended == Ended(ths)
           monitored == Monitored(ended, t, s)
           woken == Woken(ths, t, s)
           freed == Freed(ths, t, s, conds, satisfied)
<1>1. /\ ths \in Tables /\ ended \in Tables /\ monitored \in Tables /\ woken \in Tables
      /\ freed \in Tables
  BY GoodStages DEF GoodTable
<1>2. AllPlaced(ended) /\ Going(ended)
  BY <1>1, EndedPlaced
<1> SUFFICES ASSUME NEW u \in Threads
             PROVE  /\ Placed(u, freed[u])
                    /\ freed[u].comp \in {"R", "Y", "W"} => HasLeaving(freed[u])
  BY DEF AllPlaced, Going
<1>3. /\ ended[u] \in ThreadStates /\ monitored[u] \in ThreadStates /\ woken[u] \in ThreadStates
      /\ freed[u] \in ThreadStates /\ Placed(u, ended[u])
      /\ ended[u].comp \in {"R", "Y", "W"} => HasLeaving(ended[u])
  BY <1>1, <1>2 DEF Tables, AllPlaced, Going
<1> HIDE DEF ended
<1>4. /\ Placed(u, monitored[u]) /\ monitored[u].waiting = ended[u].waiting
      /\ monitored[u].comp \in {"R", "Y", "W"} => HasLeaving(monitored[u])
  <2>1. CASE monitored[u] = ended[u]
    BY <2>1, <1>3
  <2>2. CASE monitored[u] # ended[u]
    <3>1. monitored[u] = Restarted(u, ended[u]) /\ u \in Monitors
      BY <2>2 DEF Monitored, MonitorsAfter
    <3>2. Quiet(ended[u])
      BY <3>1, <1>3 DEF Placed, Restarting
    <3>3. Restarted(u, ended[u]).waiting = ended[u].waiting
      BY <1>3 DEF Restarted, ThreadStates
    <3> QED
      BY <3>1, <3>2, <3>3, <1>3, RestartedPlaced
  <2> QED
    BY <2>1, <2>2
<1> HIDE DEF monitored
<1>5. woken = WokenUp(ended, monitored)
  BY DEF Woken, monitored, ended
<1> HIDE DEF woken
<1>6. /\ Placed(u, woken[u])
      /\ woken[u].comp \in {"R", "Y", "W"} => HasLeaving(woken[u])
  <2>1. CASE ended[u].waiting = {}
    <3>1. woken[u] = monitored[u]
      BY <2>1, <1>5 DEF WokenUp
    <3> QED
      BY <3>1, <1>4
  <2>2. CASE ended[u].waiting # {}
    <3>1. Changed(monitored[u], woken[u])
      BY <2>2, <1>3, <1>4, <1>5 DEF WokenUp, Changed, ThreadStates, StillWaitingFor
    <3>2. HasLeaving(monitored[u])
      BY <2>2, <1>4 DEF Placed
    <3> QED
      BY <3>1, <3>2, <1>4, ChangedPlaced
  <2> QED
    BY <2>1, <2>2
<1>7. CASE u \in satisfied
  <2>1. woken[u].comp = "W"
    BY <1>7 DEF SatisfiedSets, CondWaiters, woken
  <2>2. Changed(woken[u], freed[u])
    BY <1>3, <1>7 DEF Freed, Released, Changed, ThreadStates, woken
  <2> QED
    BY <2>1, <2>2, <1>6, ChangedPlaced
<1>8. CASE u \notin satisfied
  <2>1. freed[u] = woken[u]
    BY <1>8 DEF Freed, Released, woken
  <2> QED
    BY <2>1, <1>6
<1> QED
  BY <1>7, <1>8

LEMMA ScheduledPlaced ==
  ASSUME task \in Tasks, Structured, NEW ths \in Tables, NEW t \in Threads,
         AllPlaced(ths), Going(ths)
  PROVE  AllPlaced(Scheduled(ths, t)) /\ Going(Scheduled(ths, t))
<1> DEFINE after == Scheduled(ths, t)
<1> SUFFICES ASSUME NEW u \in Threads
             PROVE  /\ Placed(u, after[u])
                    /\ after[u].comp \in {"R", "Y", "W"} => HasLeaving(after[u])
  BY DEF AllPlaced, Going
<1>1. /\ ths[u] \in ThreadStates /\ ths[t] \in ThreadStates
      /\ Placed(u, ths[u]) /\ Placed(t, ths[t])
  BY DEF Tables, AllPlaced
<1>2. Placed(u, after[u]) /\ (HasLeaving(after[u]) <=> HasLeaving(ths[u]))
  <2>1. Changed(ths[u], after[u])
    <3>1. ths[u].comp = "D" => Quiet(ths[u])
      BY <1>1 DEF Placed
    <3>2. ~HasLeaving(ths[t]) => Quiet(ths[t])
      BY <1>1, EndIsQuiet
    <3> QED
      BY <3>1, <3>2, ScheduledChanges DEF Changed
  <2> QED
    BY <2>1, <1>1, ChangedPlaced
<1> HIDE DEF after
<1>3. ASSUME after[u].comp \in {"R", "Y", "W"} PROVE HasLeaving(ths[u])
  <2>1. CASE ths[u].comp \in {"R", "Y", "W"}
    BY <2>1 DEF Going
  <2>2. CASE ths[u].comp = "P"
    <3>1. Quiet(ths[u]) /\ ths[u].loc.at = Script(u).entry
      BY <1>1, <2>2 DEF Placed
    <3>2. ths[u].loc.rel = Script(u).rel
      BY <3>1, <1>1, FramedFacts DEF Placed, Quiet, ThreadStates
    <3> QED
      BY <3>1, <3>2, LeavingIsStep DEF Structured, EndsQuietly
  <2>3. CASE ths[u].comp = "F"
    BY <1>1, <2>3 DEF Placed
  <2>4. CASE ths[u].comp = "D"
    <3>1. ~HasLeaving(ths[u]) => u # t \/ ~ContinuesAtomically(ths[t])
      BY DEF ContinuesAtomically
    <3>2. CASE ContinuesAtomically(ths[t])
      <4>1. after = [ths EXCEPT ![t].comp = "R"]
        BY <3>2 DEF Scheduled, after
      <4>2. u # t => after[u].comp = "D"
        BY <4>1, <2>4 DEF Tables
      <4> QED
        BY <4>2, <3>2, <1>3 DEF ContinuesAtomically
    <3>3. CASE ~ContinuesAtomically(ths[t])
      <4> DEFINE yielded == Preempted(ths, t)
                 next == NextToStep(yielded, t)
      <4>1. yielded[u].comp = "D" /\ yielded \in [Threads -> ThreadStates]
        <5>1. ths[t].comp \in CompStates
          BY <1>1 DEF ThreadStates
        <5>2. yielded \in [Threads -> ThreadStates]
          BY <5>1, SetComp DEF Preempted, Tables, CompStates
        <5>3. yielded[u].comp = "D"
          BY <2>4, <1>1 DEF Preempted, Tables, ThreadStates
        <5> QED
          BY <5>2, <5>3
      <4>2. after = GivenTo(yielded, next)
        BY <3>3 DEF Scheduled, after
      <4>3. next > -1 => yielded[next].comp \in {"R", "Y"}
        BY ChosenDoesNotWait
      <4> HIDE DEF yielded, next
      <4>4. after[u].comp = "D"
        BY <4>1, <4>2, <4>3 DEF GivenTo, ThreadStates
      <4> QED
        BY <4>4, <1>3
    <3> QED
      BY <3>2, <3>3
  <2> QED
    BY <2>1, <2>2, <2>3, <2>4, <1>1 DEF ThreadStates, CompStates
<1> QED
  BY <1>2, <1>3

-----------------------------------------------------------------------------
(* Every step keeps the threads in their places.                             *)

(* A step of a structured program. *)
LEMMA StepFacts ==
  ASSUME IInv, Structured, NEW t \in Running(threads), NEW s \in Leaving(threads[t])
  PROVE  LET r == threads[t].loc.rel
             l == threads[t].loc.at
         IN /\ r \in DOMAIN task.relations /\ s \in task.relations[r][l] /\ l \in DOMAIN task.relations[r]
            /\ Keeps(Nesting, r, l, s)
            /\ [threads[t].loc EXCEPT !.at = s.to] \in Locations
            /\ [threads[t].loc EXCEPT !.at = s.to] = [rel |-> r, at |-> s.to]
            /\ threads[t].loc = [rel |-> r, at |-> l]
            /\ s.kind \in OpKinds
<1>1. threads[t].loc \in Locations /\ IsTransition(task, s)
  BY MovedFacts DEF ThreadStates
<1>2. /\ threads[t].loc.rel \in DOMAIN task.relations
      /\ threads[t].loc.at \in DOMAIN task.relations[threads[t].loc.rel]
      /\ s \in task.relations[threads[t].loc.rel][threads[t].loc.at]
  BY <1>1 DEF Locations, Leaving
<1>3. Keeps(Nesting, threads[t].loc.rel, threads[t].loc.at, s)
  BY <1>2, NestingFacts DEF Structured, IsNesting
<1>4. s.to \in Int /\ s.kind \in OpKinds
  BY <1>1 DEF IsTransition
<1> QED
  BY <1>1, <1>2, <1>3, <1>4 DEF Locations

LEMMA OperatedPlaced ==
  ASSUME IInv, Structured, AllPlaced(threads), Going(threads), ~IsTarget,
         NEW t \in Running(threads), NEW s \in Leaving(threads[t]),
         NEW ths, GoodTable(ths, CondsAfter(t, s), t), Operated(t, s, ths)
  PROVE  AllPlaced(ths)
<1> DEFINE old == threads[t]
           to == [old.loc EXCEPT !.at = s.to]
           r == old.loc.rel
           l == old.loc.at
<1>1. /\ t \in Threads /\ task \in Tasks /\ old \in ThreadStates /\ Placed(t, old)
      /\ old.comp = "R" /\ old.waiting = {} /\ HasLeaving(old) /\ ~old.failed
  <2>1. t \in Threads /\ task \in Tasks
    BY DEF Running, IInv, TypeInv
  <2>2. old.comp = "R" /\ old \in ThreadStates /\ old.waiting = {}
    BY MovedFacts
  <2> QED
    BY <2>1, <2>2 DEF AllPlaced, Going, IsTarget
<1>2. /\ r \in DOMAIN task.relations /\ s \in task.relations[r][l] /\ l \in DOMAIN task.relations[r]
      /\ Keeps(Nesting, r, l, s)
      /\ to \in Locations /\ to = [rel |-> r, at |-> s.to] /\ old.loc = [rel |-> r, at |-> l]
      /\ s.kind \in OpKinds
  BY StepFacts
<1>3. old.calls \in Seq(Locations) /\ old.loc \in Locations /\ old.atomic \in Nat
  BY <1>1 DEF ThreadStates
<1>4. Framed(t, old.calls, old.loc, old.atomic)
  BY <1>1 DEF Placed
<1>5. ths \in Tables /\ ths[t] \in ThreadStates
  BY <1>1 DEF GoodTable, Tables
<1>6. Restarting(t) => r = Script(t).rel /\ Quiet(old)
  BY <1>1, <1>3, <1>4, FramedFacts DEF Placed, Quiet
<1>7. Restarting(t) => s.kind \notin {"call", "beginAtomic", "waitSeconds", "broadcastWait"}
  BY <1>1, <1>2, <1>6 DEF Structured, PlainRestarts
<1>8. ASSUME s.kind # "return" PROVE MayEnd(to)
  BY <1>2, <1>8 DEF MayEnd, Keeps, Nest
<1>9. ASSUME s.kind \notin {"epsilon", "return"} PROVE HasStep(to.rel, to.at)
  BY <1>2, <1>9 DEF Structured, EndsQuietly
<1>10. Nest(to) \in Nat /\ Nest(old.loc) \in Nat
  BY <1>2, <1>3, NestingFacts DEF Structured
<1>11. Nest(to) = Nesting[r][s.to] /\ Nest(old.loc) = Nesting[r][l]
  BY <1>2 DEF Nest
<1> HIDE DEF old, to, r, l
<1>12. CASE s.kind \notin Sends
  <2>1. (\A u \in Threads \ {t} : ths[u] = threads[u]) /\ SteppedBy(t, s, ths[t])
    BY <1>12 DEF Operated
  <2>2. SUFFICES Placed(t, ths[t])
    BY <2>1 DEF AllPlaced
  <2>3. ths[t].atomic \in Nat
    BY <1>5 DEF ThreadStates
  <2>4. Framed(t, ths[t].calls, ths[t].loc, ths[t].atomic)
    <3>1. CASE s.kind = "call"
      <4>1. s.arg \in DOMAIN task.methods
        BY <3>1, MovedFacts DEF IsTransition
      <4>2. to.rel = old.loc.rel /\ HasStep(to.rel, to.at) /\ Nest(to) = Nest(old.loc)
        BY <3>1, <1>2, <1>9, <1>11 DEF Keeps
      <4>3. Framed(t, Append(old.calls, to), [rel |-> s.arg, at |-> task.methods[s.arg].entry],
                   old.atomic + Depth(s.arg))
        BY <4>1, <4>2, <1>1, <1>2, <1>3, <1>4, FramedCall
      <4> QED
        BY <4>3, <3>1, <2>1 DEF SteppedBy, old, to
    <3>2. CASE s.kind = "return"
      <4>1. r \in DOMAIN task.methods /\ Nest(old.loc) = 0 /\ old.loc.rel = r
        BY <3>2, <1>2, <1>11 DEF Keeps
      <4>2. Framed(t, SubSeq(old.calls, 1, Len(old.calls) - 1), old.calls[Len(old.calls)],
                   old.atomic - Depth(old.loc.rel))
        BY <4>1, <1>1, <1>3, <1>4, FramedReturn
      <4> QED
        BY <4>2, <3>2, <2>1 DEF SteppedBy, old
    <3>3. CASE s.kind \notin {"call", "return"}
      <4>1. ths[t].loc = to /\ ths[t].calls = old.calls
        BY <3>3, <2>1 DEF SteppedBy, old, to
      <4>2. ths[t].atomic - old.atomic = Nest(to) - Nest(old.loc)
        <5>1. CASE s.kind = "beginAtomic"
          BY <5>1, <2>1, <1>2, <1>3, <1>10, <1>11 DEF SteppedBy, Keeps, old
        <5>2. CASE s.kind = "endAtomic"
          BY <5>2, <2>1, <1>2, <1>3, <1>10, <1>11 DEF SteppedBy, Keeps, old
        <5>3. CASE s.kind \notin {"beginAtomic", "endAtomic"}
          BY <5>3, <3>3, <2>1, <1>2, <1>3, <1>10, <1>11 DEF SteppedBy, Keeps, old
        <5> QED
          BY <5>1, <5>2, <5>3
      <4>3. MayEnd(to) /\ to.rel = old.loc.rel
        BY <3>3, <1>2, <1>8
      <4> QED
        BY <4>1, <4>2, <4>3, <2>3, <1>1, <1>2, <1>3, <1>4, FramedMove
    <3> QED
      BY <3>1, <3>2, <3>3
  <2>5. ths[t].comp = "D" => Quiet(ths[t])
    <3> SUFFICES ASSUME ths[t].comp = "D" PROVE Quiet(ths[t])
      OBVIOUS
    <3>1. s.kind = "stopAll"
      BY <2>1 DEF SteppedBy
    <3>2. old.loc.rel \notin DOMAIN task.methods /\ Nest(old.loc) = 0
      BY <3>1, <1>2, <1>11 DEF Keeps
    <3>3. old.calls = <<>> /\ old.atomic = 0
      BY <3>2, <1>1, <1>3, <1>4, FramedFacts
    <3> QED
      BY <3>1, <3>3, <2>1 DEF SteppedBy, Quiet, old
  <2>6. ths[t].comp # "P"
    BY <2>1 DEF SteppedBy
  <2>7. ths[t].waiting # {} \/ ths[t].comp = "F" => HasLeaving(ths[t])
    <3> SUFFICES ASSUME ths[t].waiting # {} \/ ths[t].comp = "F" PROVE HasLeaving(ths[t])
      OBVIOUS
    <3>1. s.kind \in {"waitSeconds", "signal"}
      BY <2>1 DEF SteppedBy
    <3>2. ths[t].loc = to /\ HasStep(to.rel, to.at)
      BY <3>1, <2>1, <1>9 DEF SteppedBy, to, old
    <3> QED
      BY <3>2, LeavingIsStep
  <2>8. ths[t].comp = "F" => ths[t].failed
    BY <2>1 DEF SteppedBy
  <2>9. Restarting(t) => Quiet(ths[t]) /\ ths[t].waiting = {}
    <3> SUFFICES ASSUME Restarting(t) PROVE Quiet(ths[t]) /\ ths[t].waiting = {}
      OBVIOUS
    <3>1. r = Script(t).rel /\ Quiet(old)
          /\ s.kind \notin {"call", "beginAtomic", "waitSeconds", "broadcastWait"}
      BY <1>6, <1>7
    <3>2. r \notin DOMAIN task.methods
      BY <3>1, <1>1, NestingFacts DEF Structured, IsNesting
    <3>3. s.kind # "return"
      BY <3>2, <1>2 DEF Keeps
    <3>4. s.kind # "endAtomic"
      <4>1. old.atomic >= Nest(old.loc)
        BY <1>1, <1>3, <1>4, FramedFacts
      <4>2. ~(Nest(old.loc) = Nest(to) + 1)
        BY <4>1, <3>1, <1>10 DEF Quiet
      <4> QED
        BY <4>2, <1>2, <1>11 DEF Keeps
    <3> QED
      BY <3>1, <3>3, <3>4, <2>1 DEF SteppedBy, Quiet, old
  <2> QED
    BY <2>4, <2>5, <2>6, <2>7, <2>8, <2>9 DEF Placed
<1>13. CASE s.kind \in Sends
  <2> SUFFICES ASSUME NEW u \in Threads PROVE Placed(u, ths[u])
    BY DEF AllPlaced
  <2> DEFINE moved == Moved(t, s)[u]
             hit == u \in Triggered(Moved(t, s), Receivers(t, s.arg))
  <2>1. SentFrom(t, s, u, moved, ths[u])
    BY <1>13, SentChanges DEF Operated
  <2>2. /\ threads[u] \in ThreadStates /\ Placed(u, threads[u])
        /\ threads[u].comp # "F"
    BY DEF AllPlaced, Placed, IsTarget, IInv, TypeInv, TypeOK
  <2>3. /\ moved.calls = threads[u].calls /\ moved.atomic = threads[u].atomic
        /\ moved.comp = threads[u].comp /\ moved.waiting = threads[u].waiting
        /\ moved.failed = threads[u].failed
        /\ moved.loc.rel = threads[u].loc.rel
        /\ u # t => moved = threads[u]
        /\ u = t => moved.loc = to
    BY <2>2 DEF Moved, ThreadStates, to, old, IInv, TypeInv, TypeOK
  <2> HIDE DEF moved
  <2>4. CASE hit
    <3>1. Quiet(threads[u])
      BY <2>2, <2>3, <2>4 DEF Triggered, Placed, Restarting, ThreadStates, CompStates, moved
    <3>2. threads[u].loc.rel = Script(u).rel
      BY <3>1, <2>2, <1>1, FramedFacts DEF Placed, Quiet, ThreadStates
    <3>3. ths[u].loc = EntryOf(u) /\ ths[u].calls = <<>> /\ ths[u].atomic = 0
      <4>1. moved.loc \in Locations
        BY <2>2, <2>3, <1>2 DEF ThreadStates
      <4> QED
        BY <4>1, <3>1, <3>2, <2>1, <2>3, <2>4 DEF SentFrom, EntryOf, Quiet, Locations
    <3>4. Framed(u, ths[u].calls, ths[u].loc, ths[u].atomic)
      BY <3>3, <1>1, FramedStart DEF EntryOf
    <3>5. HasLeaving(ths[u])
      BY <3>3, LeavingIsStep DEF EntryOf, Structured, EndsQuietly
    <3>6. ths[u].comp \in {"W", "Y"}
      BY <2>1, <2>4 DEF SentFrom
    <3>7. Restarting(u) => ths[u].waiting = {}
      BY <2>1, <2>2, <2>3, <1>7 DEF SentFrom, FallsAsleep, Placed
    <3> QED
      BY <3>3, <3>4, <3>5, <3>6, <3>7 DEF Placed, Quiet
  <2>5. CASE ~hit /\ u # t
    <3>1. Changed(threads[u], ths[u])
      BY <2>1, <2>2, <2>3, <2>5 DEF SentFrom, FallsAsleep, Changed, Placed
    <3> QED
      BY <3>1, <2>2, ChangedPlaced
  <2>6. CASE ~hit /\ u = t
    <3>1. ths[u].loc = to /\ ths[u].calls = old.calls /\ ths[u].atomic = old.atomic
          /\ ths[u].comp \in {"R", "W"}
      BY <2>1, <2>3, <2>6, <1>1 DEF SentFrom, old
    <3>2. Nest(to) = Nest(old.loc) /\ MayEnd(to) /\ to.rel = old.loc.rel /\ HasStep(to.rel, to.at)
      BY <1>2, <1>8, <1>9, <1>11, <1>13 DEF Keeps, Sends
    <3>3. old.atomic - old.atomic = Nest(to) - Nest(old.loc)
      BY <3>2, <1>3, <1>10
    <3>4. Framed(t, old.calls, to, old.atomic)
      BY <3>2, <3>3, <1>1, <1>2, <1>3, <1>4, FramedMove
    <3>5. HasLeaving(ths[u])
      BY <3>1, <3>2, LeavingIsStep
    <3>6. Restarting(t) => Quiet(ths[u]) /\ ths[u].waiting = {}
      BY <2>1, <2>2, <2>3, <2>6, <1>7, <3>1 DEF SentFrom, FallsAsleep, Placed, Quiet, old
    <3> QED
      BY <2>6, <3>1, <3>4, <3>5, <3>6 DEF Placed
  <2> QED
    BY <2>4, <2>5, <2>6
<1> QED
  BY <1>12, <1>13
(* The program is fixed, and so is all that is said of it. *)
LEMMA SameNesting == 
  ASSUME task' = task PROVE Nesting' = Nesting
BY DEF Nesting, IsNesting, Keeps, Threads, Script, HasStep

LEMMA SameStructured ==
  ASSUME task' = task, Structured PROVE Structured'
<1>1. Nested'
  <2>1. IsNesting(Nesting)
    BY NestingFacts DEF Structured
  <2>2. \E d : IsNesting(d)'
    <3>1. PICK d : d = Nesting
      OBVIOUS
    <3>2. IsNesting(d)
      BY <2>1, <3>1
    <3>3. IsNesting(d)'
      BY <3>2 DEF IsNesting, Keeps, Threads, Script, HasStep
    <3> QED
      BY <3>3
  <2> QED
    BY <2>2 DEF Nested
<1> QED
  BY <1>1 DEF Structured, EndsQuietly, HasStep, PlainRestarts, Restarting, Monitors, Threads, Script

LEMMA SamePlaced ==
  ASSUME task' = task, NEW ths, ths = threads', AllPlaced(ths), Going(ths)
  PROVE  AllPlaced(threads)' /\ Going(threads)'
<1>1. Nesting' = Nesting
  BY SameNesting
<1>2. AllPlaced(threads)'
  <2> SUFFICES ASSUME NEW u \in Threads PROVE Placed(u, threads[u])'
    BY DEF AllPlaced, Threads
  <2> DEFINE th == ths[u]
  <2>1. Placed(u, th)
    BY DEF AllPlaced
  <2>2. Framed(u, th.calls, th.loc, th.atomic)'
    BY <1>1, <2>1 DEF Placed, Framed, MayEnd, IsBase, Chain, Nest, Depth, HasStep, Script
  <2> QED
    BY <2>1, <2>2 DEF Placed, Quiet, HasLeaving, Leaving, Restarting, Monitors, Threads, Script
<1>3. Going(threads)'
  BY DEF Going, HasLeaving, Leaving, Threads
<1> QED
  BY <1>2, <1>3

(* The invariant. *)
PInv == IInv /\ Structured /\ AllPlaced(threads) /\ Going(threads)

(* A step that is not aborted: the operation leaves the threads as in ths, and *)
(* the scheduler takes over from freed.                                      *)
Outcome(t, s, ths, freed) ==
  /\ OperationFaults(t, s) = {}
  /\ GoodTable(ths, CondsAfter(t, s), t) /\ Operated(t, s, ths) /\ AllPlaced(ths)
  /\ MonitorFaults(Ended(ths), t, s) = {}
  /\ \E satisfied \in SatisfiedSets(Woken(ths, t, s), CondsAfter(t, s)) :
       freed = Freed(ths, t, s, CondsAfter(t, s), satisfied)
  /\ freed \in Tables /\ AllPlaced(freed) /\ Going(freed)
  /\ \A u \in Threads : FreedFrom(ths, freed, u)
  /\ ScheduleFaults(freed, t) = {}
  /\ threads' = Scheduled(freed, t)
  /\ lastNonObserver' = IF t \in Observers THEN lastNonObserver ELSE {t}
  /\ UNCHANGED <<task, thrown>>

LEMMA StepOutcome ==
  ASSUME PInv, NEW t \in Running(threads), NEW s \in Leaving(threads[t]), Step(t, s)
  PROVE  \/ thrown' # {} /\ UNCHANGED <<task, threads, condThreads, lastNonObserver>>
         \/ \E ths, freed : Outcome(t, s, ths, freed)
<1> DEFINE conds == CondsAfter(t, s)
<1>1. /\ IInv /\ Structured /\ AllPlaced(threads) /\ Going(threads) /\ t \in Threads
      /\ task \in Tasks
  BY DEF PInv, IInv, TypeInv, Running
<1>2. ~IsTarget
  BY <1>1, StepTable
<1>3. PICK ths : /\ Complete(t, s, ths, conds, OperationFaults(t, s))
                 /\ OperationFaults(t, s) = {} => GoodTable(ths, conds, t) /\ Operated(t, s, ths)
  BY <1>1, StepTable
<1> HIDE DEF conds
<1>4. CASE thrown' # {} /\ UNCHANGED <<task, threads, condThreads, lastNonObserver>>
  BY <1>4
<1>5. CASE ~(thrown' # {} /\ UNCHANGED <<task, threads, condThreads, lastNonObserver>>)
  <2>1. /\ OperationFaults(t, s) = {} /\ MonitorFaults(Ended(ths), t, s) = {}
        /\ lastNonObserver' = IF t \in Observers THEN lastNonObserver ELSE {t}
        /\ UNCHANGED <<task, thrown>>
    BY <1>3, <1>5, CompleteStages
  <2>2. PICK satisfied \in SatisfiedSets(Woken(ths, t, s), conds) :
          /\ ScheduleFaults(Freed(ths, t, s, conds, satisfied), t) = {}
          /\ threads' = Scheduled(Freed(ths, t, s, conds, satisfied), t)
    BY <1>3, <1>5, CompleteStages
  <2>3. GoodTable(ths, conds, t) /\ Operated(t, s, ths)
    BY <1>3, <2>1
  <2>4. AllPlaced(ths)
    BY <1>1, <1>2, <2>3, OperatedPlaced DEF conds
  <2> DEFINE freed == Freed(ths, t, s, conds, satisfied)
  <2>5. AllPlaced(freed) /\ Going(freed)
    BY <1>1, <2>1, <2>3, <2>4, FreedPlaced
  <2>6. freed \in Tables
    BY <1>1, <2>1, <2>3, GoodStages
  <2>7. \A u \in Threads : FreedFrom(ths, freed, u)
    BY <1>1, <2>1, <2>3, FreedChanges
  <2>8. \E sat \in SatisfiedSets(Woken(ths, t, s), conds) : freed = Freed(ths, t, s, conds, sat)
    OBVIOUS
  <2>9. ScheduleFaults(freed, t) = {} /\ threads' = Scheduled(freed, t)
    BY <2>2
  <2> HIDE DEF freed
  <2>10. Outcome(t, s, ths, freed)
    BY <2>1, <2>3, <2>4, <2>5, <2>6, <2>7, <2>8, <2>9 DEF Outcome, conds
  <2> QED
    BY <2>10
<1> QED
  BY <1>4, <1>5

LEMMA StepPInv ==
  ASSUME PInv, IInv', NEW t \in Running(threads), NEW s \in Leaving(threads[t]), Step(t, s)
  PROVE  PInv'
<1>1. CASE UNCHANGED <<task, threads>>
  BY <1>1, SameStructured, SamePlaced DEF PInv
<1>2. CASE ~UNCHANGED <<task, threads>>
  <2>1. PICK ths, freed : Outcome(t, s, ths, freed)
    BY <1>2, StepOutcome
  <2>2. /\ task \in Tasks /\ Structured /\ t \in Threads
        /\ freed \in Tables /\ AllPlaced(freed) /\ Going(freed)
        /\ threads' = Scheduled(freed, t) /\ task' = task
    BY <2>1 DEF Outcome, PInv, IInv, TypeInv, Running
  <2>3. AllPlaced(threads') /\ Going(threads')
    BY <2>2, ScheduledPlaced
  <2>4. AllPlaced(threads)' /\ Going(threads)'
    BY <2>2, <2>3, SamePlaced
  <2> QED
    BY <2>2, <2>4, SameStructured DEF PInv
<1> QED
  BY <1>1, <1>2

LEMMA PlacedInvariance == Spec /\ Structured => []PInv
<1>1. Init /\ Structured => PInv
  <2> SUFFICES ASSUME Init, Structured PROVE PInv
    OBVIOUS
  <2>1. IInv /\ task \in Tasks
    BY InitInv DEF Init
  <2>2. ASSUME NEW u \in Threads
        PROVE  Placed(u, threads[u]) /\ HasLeaving(threads[u])
    <3>1. threads[u] = InitialThread(u)
      BY DEF Init
    <3>2. /\ threads[u].loc = EntryOf(u) /\ threads[u].calls = <<>> /\ threads[u].atomic = 0
          /\ threads[u].waiting = {} /\ threads[u].comp # "F"
      BY <3>1 DEF InitialThread, EntryOf
    <3>3. Framed(u, <<>>, EntryOf(u), 0)
      BY <2>1, FramedStart DEF EntryOf
    <3>4. HasLeaving(threads[u])
      BY <3>2, LeavingIsStep DEF EntryOf, Structured, EndsQuietly
    <3>5. EntryOf(u).at = Script(u).entry
      BY DEF EntryOf
    <3> QED
      BY <3>2, <3>3, <3>4, <3>5 DEF Placed, Quiet
  <2> QED
    BY <2>1, <2>2 DEF PInv, AllPlaced, Going
<1>2. PInv /\ IInv' /\ [Next]_vars => PInv'
  <2> SUFFICES ASSUME PInv, IInv', [Next]_vars PROVE PInv'
    OBVIOUS
  <2>1. CASE Next
    BY <2>1, StepPInv DEF Next
  <2>2. CASE UNCHANGED vars
    BY <2>2, SameStructured, SamePlaced DEF vars, PInv
  <2> QED
    BY <2>1, <2>2
<1> QED
  BY <1>1, <1>2, Invariance, PTL DEF Spec
-----------------------------------------------------------------------------
(* What the scheduler makes of a thread that waits, or that is done.         *)

LEMMA ScheduledWaits ==
  ASSUME task \in Tasks, NEW ths \in Tables, NEW t \in Threads, NEW u \in Threads,
         ths[u].comp = "W", u # t \/ ths[t].waiting # {}, HasLeaving(ths[u])
  PROVE  Scheduled(ths, t)[u].comp = "W"
<1>1. ths[u] \in ThreadStates /\ ths[t] \in ThreadStates
  BY DEF Tables
<1>2. CASE ContinuesAtomically(ths[t])
  <2>1. u # t
    BY <1>2 DEF ContinuesAtomically
  <2> QED
    BY <2>1, <1>2 DEF Scheduled, Tables
<1>3. CASE ~ContinuesAtomically(ths[t])
  <2> DEFINE yielded == Preempted(ths, t)
             next == NextToStep(yielded, t)
  <2>1. yielded \in [Threads -> ThreadStates]
    <3>1. ths[t].comp \in CompStates
      BY <1>1 DEF ThreadStates
    <3> QED
      BY <3>1, SetComp DEF Preempted, Tables, CompStates
  <2>2. yielded[u].comp = "W"
    BY <1>1 DEF Preempted, Tables, ThreadStates
  <2>3. Scheduled(ths, t) = GivenTo(yielded, next)
    BY <1>3 DEF Scheduled
  <2>4. next > -1 => yielded[next].comp \in {"R", "Y"}
    BY ChosenDoesNotWait
  <2> HIDE DEF yielded, next
  <2> QED
    BY <2>1, <2>2, <2>3, <2>4 DEF GivenTo, ThreadStates
<1> QED
  BY <1>2, <1>3

LEMMA ScheduledDone ==
  ASSUME task \in Tasks, NEW ths \in Tables, NEW t \in Threads, NEW u \in Threads,
         ths[u].comp = "D", Placed(u, ths[u])
  PROVE  Scheduled(ths, t)[u].comp = "D"
<1>1. ths[u] \in ThreadStates /\ ths[t] \in ThreadStates /\ ths[u].atomic = 0
  BY DEF Tables, Placed, Quiet
<1>2. CASE ContinuesAtomically(ths[t])
  <2>1. u # t
    BY <1>1, <1>2 DEF ContinuesAtomically
  <2> QED
    BY <2>1, <1>2 DEF Scheduled, Tables
<1>3. CASE ~ContinuesAtomically(ths[t])
  <2> DEFINE yielded == Preempted(ths, t)
             next == NextToStep(yielded, t)
  <2>1. yielded \in [Threads -> ThreadStates]
    <3>1. ths[t].comp \in CompStates
      BY <1>1 DEF ThreadStates
    <3> QED
      BY <3>1, SetComp DEF Preempted, Tables, CompStates
  <2>2. yielded[u].comp = "D"
    BY <1>1 DEF Preempted, Tables, ThreadStates
  <2>3. Scheduled(ths, t) = GivenTo(yielded, next)
    BY <1>3 DEF Scheduled
  <2>4. next > -1 => yielded[next].comp \in {"R", "Y"}
    BY ChosenDoesNotWait
  <2> HIDE DEF yielded, next
  <2> QED
    BY <2>1, <2>2, <2>3, <2>4 DEF GivenTo, ThreadStates
<1> QED
  BY <1>2, <1>3

(* The program under analysis does not change. *)
LEMMA ProgramFixed == [Next]_vars => task' = task
<1>1. ASSUME NEW t, NEW s, NEW ths, NEW conds, NEW faults, Complete(t, s, ths, conds, faults)
      PROVE  task' = task
  BY <1>1, CompleteStages
<1>2. ASSUME NEW t, NEW s, Step(t, s) PROVE task' = task
  BY <1>1, <1>2 DEF Step, StepOrdinary, StepBeginAtomic, StepEndAtomic, StepCall, StepReturn,
     StepStopAll, StepSignal, StepWaitSeconds, StepBroadcast, StepBroadcastAndWait
<1> QED
  BY <1>2 DEF Next, vars

(* One thread runs. *)
LEMMA RunningOne ==
  ASSUME PInv, NEW t \in Running(threads), NEW u \in Threads, threads[u].comp = "R"
  PROVE  u = t
BY DEF PInv, IInv, ScheduleChecked, OneRunning, Running

-----------------------------------------------------------------------------
(* The theorems on steps.                                                    *)

(* In structured programs, a thread that is inside an atomic section keeps    *)
(* the processor until it waits (schedule returns early for it): it is not   *)
(* at an end inside the section, where the early return does not apply.      *)
THEOREM AtomicSections == Spec /\ Structured => AtomicNotPreempted
<1>1. PInv /\ [Next]_vars => [\A t \in Threads : threads[t].comp = "R" /\ threads'[t].atomic > 0
                                        => threads'[t].comp \in {"R", "W"}]_vars
  <2> SUFFICES ASSUME PInv, NEW t \in Running(threads), NEW s \in Leaving(threads[t]), Step(t, s),
                      NEW u \in Threads, threads[u].comp = "R", threads'[u].atomic > 0
               PROVE  threads'[u].comp \in {"R", "W"}
    BY DEF Next
  <2>1. u = t /\ task \in Tasks /\ Structured
    BY RunningOne DEF PInv, IInv, TypeInv
  <2>2. CASE UNCHANGED threads
    BY <2>2
  <2>3. ASSUME NEW ths, NEW freed, Outcome(t, s, ths, freed)
        PROVE  threads'[t].comp \in {"R", "W"}
    <3>1. /\ freed \in Tables /\ freed[t] \in ThreadStates /\ Placed(t, freed[t])
          /\ threads' = Scheduled(freed, t)
      BY <2>1, <2>3 DEF Outcome, AllPlaced, Tables
    <3>2. freed[t].atomic > 0
      BY <2>1, <3>1, ScheduledChanges
    <3>3. HasLeaving(freed[t])
      BY <2>1, <3>1, <3>2, EndIsQuiet DEF Quiet
    <3>4. CASE freed[t].waiting = {}
      <4>1. ContinuesAtomically(freed[t])
        BY <3>2, <3>3, <3>4 DEF ContinuesAtomically
      <4> QED
        BY <4>1, <3>1, <2>1 DEF Scheduled, Tables, ThreadStates
    <3>5. CASE freed[t].waiting # {}
      <4>1. Consistent(freed, CondsAfter(t, s))
        BY <2>1, <2>3, GoodStages DEF Outcome
      <4>2. freed[t].comp = "W"
        BY <4>1, <3>5, <2>1 DEF Consistent
      <4> QED
        BY <4>2, <3>1, <3>3, <3>5, <2>1, ScheduledWaits
    <3> QED
      BY <3>4, <3>5
  <2> QED
    BY <2>1, <2>2, <2>3, StepOutcome
<1> QED
  BY <1>1, PlacedInvariance, PTL DEF Spec, AtomicNotPreempted

-----------------------------------------------------------------------------
(* Broadcasts.                                                               *)

(* A location with a broadcast has no other step. *)
SoleSends ==
  \A r \in DOMAIN task.relations : \A l \in DOMAIN task.relations[r] :
    \A s, u \in task.relations[r][l] : s.kind \in Sends => u = s

LEMMA SoleSendTaken ==
  ASSUME IInv, SoleSends, NEW t \in Running(threads), NEW s \in Leaving(threads[t]),
         NEW u \in Leaving(threads[t]), u.kind \in Sends
  PROVE  s = u
<1>1. threads[t].loc.rel \in DOMAIN task.relations
  BY DEF IInv, TypeInv, TypeOK, Running, ThreadStates, Locations
<1> QED
  BY <1>1 DEF SoleSends, Leaving

LEMMA SoleSendsStay == SoleSends /\ [Next]_vars => SoleSends'
BY ProgramFixed DEF SoleSends, Sends

(* Whoever is waited for when the stages begin is waited for afterwards, or  *)
(* done.                                                                     *)
LEMMA AwaitedOrDone ==
  ASSUME task \in Tasks, NEW t \in Threads, NEW s, NEW ths, NEW freed, Outcome(t, s, ths, freed),
         NEW u \in Threads, NEW w \in ths[u].waiting \cap Threads, Script(w).event = "message"
  PROVE  w \in threads'[u].waiting \/ threads'[w].comp = "D"
<1>1. /\ freed \in Tables /\ threads' = Scheduled(freed, t) /\ Placed(w, freed[w])
      /\ FreedFrom(ths, freed, u) /\ FreedFrom(ths, freed, w)
  BY DEF Outcome, AllPlaced
<1>2. CASE Ended(ths)[w].comp # "D"
  <2>1. w \in freed[u].waiting
    BY <1>1, <1>2 DEF FreedFrom
  <2> QED
    BY <2>1, <1>1, ScheduledChanges
<1>3. CASE Ended(ths)[w].comp = "D"
  <2>1. w \notin Monitors
    BY DEF Monitors
  <2>2. freed[w].comp = "D"
    BY <2>1, <1>1, <1>3 DEF FreedFrom
  <2> QED
    BY <2>2, <1>1, ScheduledDone
<1> QED
  BY <1>2, <1>3

(* In structured programs, a sender waits for each receiver until the step in *)
(* which that one is done: a receiver that is done is not restarted in the    *)
(* same step, so that the sender sees it as done.                            *)
THEOREM SendersWait == Spec /\ Structured /\ SoleSends => WaitsUntilDone
<1>1. PInv /\ WInv /\ SoleSends /\ [Next]_vars =>
      [\A t \in Threads :
         LET sent == {s \in Leaving(threads[t]) : s.kind = "broadcastWait" /\ Moves(t, s)}
             owed == (threads[t].waiting \cap Threads) \cup UNION {Receivers(t, s.arg) : s \in sent}
         IN \A w \in owed : w \in threads'[t].waiting \/ threads'[w].comp = "D"]_vars
  <2> SUFFICES ASSUME PInv, WInv, SoleSends, NEW t \in Running(threads),
                      NEW s \in Leaving(threads[t]), Step(t, s), NEW u \in Threads, NEW w \in Threads,
                      \/ w \in threads[u].waiting
                      \/ \E v \in Leaving(threads[u]) : /\ v.kind = "broadcastWait" /\ Moves(u, v)
                                                        /\ w \in Receivers(u, v.arg)
               PROVE  w \in threads'[u].waiting \/ threads'[w].comp = "D"
    BY DEF Next, Receivers
  <2>1. /\ IInv /\ Structured /\ task \in Tasks /\ t \in Threads
        /\ threads \in [Threads -> ThreadStates]
    BY DEF PInv, IInv, TypeInv, TypeOK, Running
  <2>2. w \in threads[u].waiting => Script(w).event = "message"
    BY DEF WInv, HandlersAwaited
  <2>3. ASSUME w \notin threads[u].waiting
        PROVE  /\ u = t /\ thrown' = {} /\ s.kind = "broadcastWait" /\ w \in Receivers(t, s.arg)
               /\ Script(w).event = "message"
    <3>1. PICK v \in Leaving(threads[u]) : /\ v.kind = "broadcastWait" /\ Moves(u, v)
                                           /\ w \in Receivers(u, v.arg)
      BY <2>3
    <3>2. u = t
      BY <3>1, RunningOne DEF Moves
    <3>3. s = v
      BY <3>1, <3>2, <2>1, SoleSendTaken DEF Sends
    <3> QED
      BY <3>1, <3>2, <3>3 DEF Moves, Receivers, IsHandlerFor
  <2>4. CASE thrown' # {} /\ UNCHANGED threads
    BY <2>3, <2>4
  <2>5. ASSUME NEW ths, NEW freed, Outcome(t, s, ths, freed)
        PROVE  w \in threads'[u].waiting \/ threads'[w].comp = "D"
    <3>1. w \in ths[u].waiting
      <4>1. CASE w \in threads[u].waiting
        <5>1. u # t
          BY <4>1, <2>1, MovedFacts
        <5>2. CASE s.kind \notin Sends
          BY <5>1, <5>2, <4>1, <2>5 DEF Outcome, Operated
        <5>3. CASE s.kind \in Sends
          <6>1. SentFrom(t, s, u, Moved(t, s)[u], ths[u])
            BY <5>3, <2>1, <2>5, SentChanges DEF Outcome, Operated
          <6>2. Moved(t, s)[u] = threads[u]
            BY <5>1 DEF Moved
          <6> QED
            BY <6>1, <6>2, <5>1, <4>1 DEF SentFrom, FallsAsleep
        <5> QED
          BY <5>2, <5>3
      <4>2. CASE w \notin threads[u].waiting
        <5>1. u = t /\ s.kind = "broadcastWait" /\ w \in Receivers(t, s.arg)
          BY <4>2, <2>3
        <5>2. SentFrom(t, s, t, Moved(t, s)[t], ths[t])
          BY <5>1, <2>1, <2>5, SentChanges DEF Outcome, Operated, Sends
        <5> QED
          BY <5>1, <5>2 DEF SentFrom, FallsAsleep
      <4> QED
        BY <4>1, <4>2
    <3> QED
      BY <3>1, <2>1, <2>2, <2>3, <2>5, AwaitedOrDone
  <2> QED
    BY <2>4, <2>5, StepOutcome
<1>2. SoleSends /\ [Next]_vars => SoleSends'
  BY SoleSendsStay
<1>3. Structured => EndsQuietly
  BY DEF Structured
<1> QED
  BY <1>1, <1>2, <1>3, PlacedInvariance, WakeUpInvariance, PTL DEF Spec, WaitsUntilDone

(* An active thread with a step to make remains active in the stages. *)
LEMMA ActiveStays ==
  ASSUME task \in Tasks, NEW t \in Threads, NEW s, NEW ths, NEW freed, Outcome(t, s, ths, freed),
         NEW r \in Threads, r \notin Monitors, ths[r].comp \in {"R", "Y", "W"}, HasLeaving(ths[r])
  PROVE  /\ threads'[r].comp \in {"R", "Y", "W"} /\ threads'[r].loc = ths[r].loc
         /\ threads'[r].calls = ths[r].calls /\ threads'[r].atomic = ths[r].atomic
<1>1. /\ freed \in Tables /\ threads' = Scheduled(freed, t) /\ FreedFrom(ths, freed, r)
      /\ ths \in Tables
  BY DEF Outcome, GoodTable
<1>2. Ended(ths)[r].comp = ths[r].comp
  BY <1>1 DEF Ended, Terminated
<1>3. /\ freed[r].loc = ths[r].loc /\ freed[r].comp \in {"R", "Y", "W"}
      /\ freed[r].calls = ths[r].calls /\ freed[r].atomic = ths[r].atomic
  BY <1>1, <1>2 DEF FreedFrom
<1>4. HasLeaving(freed[r])
  BY <1>3 DEF HasLeaving, Leaving
<1> QED
  BY <1>1, <1>3, <1>4, ScheduledChanges

(* In structured programs, a broadcast starts every idle handler of its       *)
(* message at its entry, and those with the attribute restart whatever they   *)
(* were doing, with an empty call stack and outside of atomic sections; no    *)
(* handler that it finds active is finished in that step.                     *)
THEOREM BroadcastsReach == Spec /\ Structured /\ SoleSends => BroadcastReachesAll
<1>1. PInv /\ SoleSends /\ [Next]_vars =>
      [\A t \in Threads : \A s \in Leaving(threads[t]) :
         Moves(t, s) /\ s.kind \in {"broadcast", "broadcastWait"}
         => \A r \in Receivers(t, s.arg) :
              /\ threads'[r].comp \in {"R", "Y", "W"}
              /\ threads[r].comp \in {"D", "F", "P"} \/ Script(r).restart
                   => /\ threads'[r].loc = [rel |-> Script(r).rel, at |-> Script(r).entry]
                      /\ threads'[r].calls = <<>> /\ threads'[r].atomic = 0]_vars
  <2> SUFFICES ASSUME PInv, SoleSends, NEW t \in Running(threads),
                      NEW v \in Leaving(threads[t]), Step(t, v),
                      NEW u \in Threads, NEW s \in Leaving(threads[u]), Moves(u, s),
                      s.kind \in Sends, NEW r \in Receivers(u, s.arg)
               PROVE  /\ threads'[r].comp \in {"R", "Y", "W"}
                      /\ threads[r].comp \in {"D", "F", "P"} \/ Script(r).restart
                           => threads'[r].loc = EntryOf(r) /\ Quiet(threads'[r])
    BY DEF Next, Sends, EntryOf, Quiet
  <2>1. /\ IInv /\ Structured /\ task \in Tasks /\ t \in Threads /\ AllPlaced(threads)
        /\ Going(threads) /\ threads \in [Threads -> ThreadStates]
    BY DEF PInv, IInv, TypeInv, TypeOK, Running
  <2>2. u = t
    BY RunningOne DEF Moves
  <2>3. v = s /\ thrown' = {}
    BY <2>1, <2>2, SoleSendTaken DEF Moves
  <2>4. r \in Threads /\ r \in Receivers(t, s.arg) /\ r \notin Monitors
    BY <2>2 DEF Receivers, IsHandlerFor, Monitors
  <2>5. PICK ths, freed : Outcome(t, s, ths, freed)
    BY <2>2, <2>3, StepOutcome
  <2>6. ~IsTarget
    BY <2>1, <2>2, <2>3, StepTable
  <2> DEFINE moved == Moved(t, s)[r]
             hit == r \in Triggered(Moved(t, s), Receivers(t, s.arg))
  <2>7. SentFrom(t, s, r, moved, ths[r])
    BY <2>1, <2>2, <2>4, <2>5, SentChanges DEF Outcome, Operated
  <2>8. /\ threads[r] \in ThreadStates /\ Placed(r, threads[r]) /\ threads[r].comp # "F"
        /\ ths[r] \in ThreadStates /\ Placed(r, ths[r])
    BY <2>1, <2>4, <2>5, <2>6 DEF AllPlaced, Placed, IsTarget, Outcome, GoodTable, Tables
  <2>9. /\ moved.calls = threads[r].calls /\ moved.atomic = threads[r].atomic
        /\ moved.comp = threads[r].comp
        /\ moved.loc = IF r = t THEN [threads[t].loc EXCEPT !.at = s.to] ELSE threads[r].loc
    BY <2>1, <2>8 DEF Moved, ThreadStates
  <2> HIDE DEF moved
  <2>10. CASE hit
    <3>1. Quiet(threads[r])
      BY <2>4, <2>8, <2>9, <2>10 DEF Triggered, Placed, Restarting, ThreadStates, CompStates, moved
    <3>2. /\ Quiet(ths[r]) /\ ths[r].comp \in {"W", "Y"}
          /\ ths[r].loc = [moved.loc EXCEPT !.at = Script(r).entry]
      BY <3>1, <2>7, <2>9, <2>10 DEF SentFrom, Quiet
    <3>3. ths[r].loc.rel = Script(r).rel /\ ths[r].loc \in Locations
      <4>1. ths[r].calls = <<>>
        BY <3>2 DEF Quiet
      <4> QED
        BY <4>1, <2>1, <2>4, <2>8, FramedFacts DEF Placed, ThreadStates
    <3>4. ths[r].loc = EntryOf(r)
      BY <3>2, <3>3 DEF EntryOf, Locations
    <3>5. HasLeaving(ths[r])
      BY <3>4, <2>1, <2>4, LeavingIsStep DEF EntryOf, Structured, EndsQuietly
    <3> QED
      BY <3>2, <3>4, <3>5, <2>1, <2>4, <2>5, ActiveStays DEF Quiet
  <2>11. CASE ~hit
    <3>1. moved.comp \in {"W", "Y", "R"} /\ ~Script(r).restart
      BY <2>4, <2>11 DEF Triggered, moved
    <3>2. ths[r].comp \in {"R", "Y", "W"} /\ ths[r].loc = moved.loc
      BY <3>1, <2>7, <2>11 DEF SentFrom
    <3>3. HasLeaving(ths[r])
      <4>1. CASE r = t
        <5>1. HasStep(threads[t].loc.rel, s.to)
          BY <2>1, <2>2, QuietSteps DEF Structured, Sends
        <5>2. ths[r].loc.rel = threads[t].loc.rel /\ ths[r].loc.at = s.to
          BY <4>1, <3>2, <2>1, <2>9 DEF ThreadStates, Locations
        <5> QED
          BY <5>1, <5>2, LeavingIsStep
      <4>2. CASE r # t
        <5>1. HasLeaving(threads[r])
          BY <3>1, <2>4, <2>9, <2>1 DEF Going
        <5> QED
          BY <5>1, <4>2, <3>2, <2>9 DEF HasLeaving, Leaving
      <4> QED
        BY <4>1, <4>2
    <3>4. ~(threads[r].comp \in {"D", "F", "P"} \/ Script(r).restart)
      BY <3>1, <2>9
    <3> QED
      BY <3>2, <3>3, <3>4, <2>1, <2>4, <2>5, ActiveStays
  <2> QED
    BY <2>10, <2>11
<1>2. SoleSends /\ [Next]_vars => SoleSends'
  BY SoleSendsStay
<1> QED
  BY <1>1, <1>2, PlacedInvariance, PTL DEF Spec, BroadcastReachesAll

-----------------------------------------------------------------------------
(* Monitors.                                                                 *)

OneMonitor == \A m, n \in Monitors : m = n

(* introduceEntryExitEpsilonTransition: no step leads to the entry of a script*)
(* or method.                                                                *)
FreshEntries ==
  \A r \in DOMAIN task.relations : \A l \in DOMAIN task.relations[r] : \A s \in task.relations[r][l] :
    /\ \A t \in Threads : Script(t).rel = r => s.to # Script(t).entry
    /\ \A m \in DOMAIN task.methods : m = r => s.to # task.methods[m].entry

(* Steps that lead from one location to the same other one are alike: both    *)
(* change the state of the program, or none does.                            *)
AlikeSteps ==
  \A r \in DOMAIN task.relations : \A l \in DOMAIN task.relations[r] :
    \A s, u \in task.relations[r][l] : s.to = u.to => (s.kind \in Unrelated <=> u.kind \in Unrelated)

Observable == OneMonitor /\ FreshEntries /\ AlikeSteps

LEMMA ObservableStays == Observable /\ [Next]_vars => Observable'
BY ProgramFixed DEF Observable, OneMonitor, FreshEntries, AlikeSteps, Monitors, Threads, Script

(* The place where a thread is after a step tells what the step was like. *)
LEMMA StepByPlace ==
  ASSUME PInv, Observable, NEW t \in Running(threads),
         NEW v \in Leaving(threads[t]), NEW s \in Leaving(threads[t]),
         NEW ths, NEW freed, Outcome(t, v, ths, freed), Moves(t, s), s.kind \notin Unrelated
  PROVE  v.kind \notin Unrelated
<1> SUFFICES ASSUME v.kind \in Unrelated PROVE FALSE
  OBVIOUS
<1> DEFINE r == threads[t].loc.rel
           l == threads[t].loc.at
<1>1. /\ IInv /\ Structured /\ task \in Tasks /\ t \in Threads /\ threads[t] \in ThreadStates
      /\ Placed(t, threads[t]) /\ threads[t].comp = "R"
  BY DEF PInv, IInv, TypeInv, TypeOK, Running, AllPlaced
<1>2. /\ r \in DOMAIN task.relations /\ l \in DOMAIN task.relations[r] /\ v \in task.relations[r][l]
      /\ [threads[t].loc EXCEPT !.at = v.to] = [rel |-> r, at |-> v.to]
  BY <1>1, StepFacts
<1>3. s \in task.relations[r][l] /\ [threads[t].loc EXCEPT !.at = s.to] = [rel |-> r, at |-> s.to]
  BY <1>1, StepFacts
<1>4. v.to # s.to
  BY <1>2, <1>3 DEF Observable, AlikeSteps
<1>5. /\ \A u \in Threads : Script(u).rel = r => s.to # Script(u).entry
      /\ \A m \in DOMAIN task.methods : m = r => s.to # task.methods[m].entry
  BY <1>2, <1>3 DEF Observable, FreshEntries
<1>6. threads'[t].loc = [rel |-> r, at |-> s.to]
  BY <1>3 DEF Moves
<1> HIDE DEF r, l
<1>7. /\ freed \in Tables /\ ths \in Tables /\ threads' = Scheduled(freed, t)
      /\ Operated(t, v, ths) /\ Placed(t, ths[t])
  BY <1>1 DEF Outcome, GoodTable, AllPlaced
<1>8. threads'[t].loc = ths[t].loc
  <2>1. PICK satisfied \in SatisfiedSets(Woken(ths, t, v), CondsAfter(t, v)) :
          freed = Freed(ths, t, v, CondsAfter(t, v), satisfied)
    BY DEF Outcome
  <2>2. MonitorsAfter(Ended(ths), t, v) = {}
    BY DEF MonitorsAfter
  <2>3. Monitored(Ended(ths), t, v)[t] = Ended(ths)[t]
    BY <2>2, <1>1 DEF Monitored
  <2>4. Ended(ths)[t].loc = ths[t].loc /\ Ended(ths)[t] \in ThreadStates
    BY <1>1, <1>7 DEF Ended, Terminated, Tables, ThreadStates, CompStates
  <2>5. Woken(ths, t, v)[t].loc = ths[t].loc /\ Woken(ths, t, v)[t] \in ThreadStates
    <3>1. Woken(ths, t, v) \in Tables
      BY <1>1, GoodStages DEF Outcome
    <3>2. Woken(ths, t, v)[t] \in ThreadStates
      BY <3>1, <1>1 DEF Tables
    <3> QED
      BY <3>2, <2>3, <2>4, <1>1 DEF Woken, WokenUp, ThreadStates
  <2>6. freed[t].loc = ths[t].loc
    BY <2>1, <2>5, <1>1 DEF Freed, Released, ThreadStates
  <2> QED
    BY <2>6, <1>1, <1>7, ScheduledChanges
<1>9. CASE v.kind \in Sends
  <2> DEFINE moved == Moved(t, v)[t]
  <2>1. SentFrom(t, v, t, moved, ths[t])
    BY <1>1, <1>7, <1>9, SentChanges DEF Operated
  <2>2. /\ moved.loc = [rel |-> r, at |-> v.to] /\ moved.comp = "R"
        /\ moved.calls = threads[t].calls /\ moved.atomic = threads[t].atomic
    BY <1>1, <1>2 DEF Moved, ThreadStates, IInv, TypeInv, TypeOK
  <2> HIDE DEF moved
  <2>3. CASE t \in Triggered(Moved(t, v), Receivers(t, v.arg))
    <3>1. ths[t].loc = [rel |-> r, at |-> Script(t).entry]
      BY <2>1, <2>2, <2>3 DEF SentFrom
    <3>2. Script(t).restart
      BY <2>2, <2>3 DEF Triggered, moved
    <3>3. threads[t].calls = <<>> /\ threads[t].loc.rel = Script(t).rel
      BY <3>2, <1>1, FramedFacts DEF Placed, Restarting, Quiet, ThreadStates
    <3> QED
      BY <3>1, <3>3, <1>1, <1>5, <1>6, <1>8 DEF r
  <2>4. CASE t \notin Triggered(Moved(t, v), Receivers(t, v.arg))
    <3>1. ths[t].loc = [rel |-> r, at |-> v.to]
      BY <2>1, <2>2, <2>4 DEF SentFrom
    <3> QED
      BY <3>1, <1>4, <1>6, <1>8
  <2> QED
    BY <2>3, <2>4
<1>10. CASE v.kind = "call"
  <2>1. ths[t].loc = [rel |-> v.arg, at |-> task.methods[v.arg].entry]
    BY <1>7, <1>10 DEF Operated, SteppedBy, Sends
  <2>2. v.arg \in DOMAIN task.methods
    BY <1>1, <1>10, MovedFacts DEF IsTransition
  <2> QED
    BY <2>1, <2>2, <1>5, <1>6, <1>8
<1>11. CASE v.kind \notin Sends \cup {"call"}
  <2>1. ths[t].loc = [rel |-> r, at |-> v.to]
    BY <1>2, <1>7, <1>11 DEF Operated, SteppedBy, Sends, Unrelated, r
  <2> QED
    BY <2>1, <1>4, <1>6, <1>8
<1> QED
  BY <1>9, <1>10, <1>11

(* In structured programs with one monitor, each step of the program that may *)
(* change its state activates the monitor at its entry, unless it was never   *)
(* enabled; no stage of the step after the activation takes that back.        *)
THEOREM MonitorsSeeSteps == Spec /\ Structured /\ Observable => MonitorsActivated
<1>1. PInv /\ Observable /\ [Next]_vars =>
      [\A t \in Threads : \A s \in Leaving(threads[t]) :
         Moves(t, s) /\ Script(t).program /\ s.kind \notin Unrelated
         => \A m \in Monitors : threads[m].comp # "P" =>
              /\ threads'[m].comp \in {"R", "Y"}
              /\ threads'[m].loc = [rel |-> Script(m).rel, at |-> Script(m).entry]]_vars
  <2> SUFFICES ASSUME PInv, Observable, NEW t \in Running(threads),
                      NEW v \in Leaving(threads[t]), Step(t, v),
                      NEW u \in Threads, NEW s \in Leaving(threads[u]), Moves(u, s),
                      Script(u).program, s.kind \notin Unrelated,
                      NEW m \in Monitors, threads[m].comp # "P"
               PROVE  threads'[m].comp \in {"R", "Y"} /\ threads'[m].loc = EntryOf(m)
    BY DEF Next, EntryOf
  <2>1. /\ IInv /\ Structured /\ task \in Tasks /\ t \in Threads /\ m \in Threads
        /\ threads \in [Threads -> ThreadStates] /\ \A n \in Monitors : n = m
    BY DEF PInv, IInv, TypeInv, TypeOK, Running, Monitors, Observable, OneMonitor
  <2>2. u = t /\ thrown' = {}
    BY RunningOne DEF Moves
  <2>3. PICK ths, freed : Outcome(t, v, ths, freed)
    BY <2>2, StepOutcome
  <2>4. v.kind \notin Unrelated /\ Script(t).program
    BY <2>2, <2>3, StepByPlace
  <2> DEFINE ended == Ended(ths)
             monitored == Monitored(ended, t, v)
             woken == Woken(ths, t, v)
  <2>5. /\ ths \in Tables /\ freed \in Tables /\ AllPlaced(ths) /\ threads' = Scheduled(freed, t)
        /\ MonitorFaults(ended, t, v) = {} /\ Operated(t, v, ths) /\ Going(freed)
        /\ GoodTable(ths, CondsAfter(t, v), t)
    BY <2>3 DEF Outcome, GoodTable
  <2>6. PICK satisfied \in SatisfiedSets(woken, CondsAfter(t, v)) :
          freed = Freed(ths, t, v, CondsAfter(t, v), satisfied)
    BY <2>3 DEF Outcome
  <2>7. ths[m].comp # "P"
    <3>1. v.kind \notin Sends
      BY <2>4 DEF Sends, Unrelated
    <3> QED
      BY <3>1, <2>5, <2>1 DEF Operated, SteppedBy
  <2>8. ended[m].comp # "P" /\ ended[m] \in ThreadStates /\ Placed(m, ended[m])
    <3>1. AllPlaced(ended)
      BY <2>1, <2>5, EndedPlaced
    <3>2. ended \in Tables
      BY <2>1, <2>5, <2>6, GoodStages
    <3>3. ended[m].comp # "P"
      BY <2>1, <2>5, <2>7 DEF Ended, Terminated, Tables, ThreadStates
    <3> QED
      BY <3>1, <3>2, <3>3, <2>1 DEF AllPlaced, Tables
  <2>9. MonitorsAfter(ended, t, v) = {m}
    BY <2>1, <2>4, <2>8 DEF MonitorsAfter
  <2>10. ended[m].waiting = {} /\ Quiet(ended[m])
    BY <2>8 DEF Placed, Restarting
  <2>11. monitored[m] = Restarted(m, ended[m])
    <3>1. m <= m
      BY <2>1, TaskType DEF Threads
    <3> QED
      BY <2>1, <2>9, <3>1 DEF Monitored
  <2>12. /\ Restarted(m, ended[m]).loc = EntryOf(m) /\ Restarted(m, ended[m]).comp = "Y"
    BY <2>1, <2>8, <2>10, RestartedPlaced DEF Restarted, ThreadStates
  <2> HIDE DEF ended, monitored
  <2>13. woken[m] = monitored[m]
    BY <2>1, <2>10 DEF Woken, WokenUp, ended, monitored
  <2> HIDE DEF woken
  <2>14. freed[m] = woken[m]
    <3>1. m \in satisfied => woken[m].comp = "W"
      BY DEF SatisfiedSets, CondWaiters
    <3>2. m \notin satisfied
      BY <3>1, <2>11, <2>12, <2>13
    <3> QED
      BY <3>2, <2>1, <2>6 DEF Freed, Released, woken
  <2>15. freed[m].comp = "Y" /\ freed[m].loc = EntryOf(m)
    BY <2>11, <2>12, <2>13, <2>14
  <2>16. HasLeaving(freed[m])
    BY <2>1, <2>5, <2>15 DEF Going
  <2> QED
    BY <2>1, <2>5, <2>15, <2>16, ScheduledChanges
<1> QED
  BY <1>1, ObservableStays, PlacedInvariance, PTL DEF Spec, MonitorsActivated

-----------------------------------------------------------------------------
(* No internal check fails.                                                  *)

(* The bootstrapper is no observer, there is one terminator, and no message to *)
(* an actor has the id of a qualified handler.                               *)
Assembled ==
  /\ \A t \in Threads : Script(t).event = "singularity" => ~Script(t).observer
  /\ \A t, u \in Threads :
       Script(t).event = "termination" /\ Script(u).event = "termination" => t = u
  /\ \A r \in DOMAIN task.relations : \A l \in DOMAIN task.relations[r] : \A s \in task.relations[r][l] :
       s.kind \in Sends => ~Misaddressed(s.arg)

(* Time is waited for in one script only. *)
WaitsIn(r) == \E l \in DOMAIN task.relations[r] : \E s \in task.relations[r][l] : s.kind = "waitSeconds"
Timers     == {t \in Threads : WaitsIn(Script(t).rel)}
OneTimer ==
  /\ \A t, u \in Timers : t = u
  /\ \A m \in DOMAIN task.methods : ~WaitsIn(m)

(* The program thread that was stepped last is known from the first step on. *)
LastKnown ==
  \/ lastNonObserver = {} /\ \A t \in Running(threads) : t \notin Observers
  \/ \E t \in Threads : lastNonObserver = {t}

OnlyTimers == \A c \in condThreads : \E t \in Timers : c = CondOf(t)

Acceleration == "several conditions to accelerate"
EInv ==
  /\ PInv /\ Assembled /\ LastKnown
  /\ thrown \subseteq {Acceleration}
  /\ OneTimer => OnlyTimers /\ thrown = {}

(* What an aborted step reports. *)
LEMMA CompleteFaults ==
  ASSUME NEW t, NEW s, NEW ths, NEW conds, NEW faults,
         Complete(t, s, ths, conds, faults)
  PROVE  \/ thrown' = thrown
         \/ thrown' = faults \cup MonitorFaults(Ended(ths), t, s)
                             \cup ConditionFaults(Woken(ths, t, s), conds)
         \/ /\ faults \cup MonitorFaults(Ended(ths), t, s) = {}
            /\ \E satisfied \in SatisfiedSets(Woken(ths, t, s), conds) :
                 thrown' = ScheduleFaults(Freed(ths, t, s, conds, satisfied), t)
BY Zenon DEF Complete, Abort, Ended, Woken, Freed

(* A return leaves an atomic method that was entered. *)
LEMMA ReturnBalanced ==
  ASSUME task \in Tasks, Structured, NEW t \in Threads, NEW calls \in Seq(Locations),
         NEW loc \in Locations, NEW atomic \in Nat,
         Framed(t, calls, loc, atomic), loc.rel \in DOMAIN task.methods
  PROVE  calls # <<>> /\ atomic >= Depth(loc.rel)
<1>1. PICK base : IsBase(t, base, calls, loc, atomic)
  BY DEF Framed
<1>2. calls # <<>>
  BY FramedFacts, NestingFacts DEF Structured, IsNesting
<1>3. Len(calls) \in Nat /\ Len(calls) >= 1 /\ Len(calls) \in 1 .. Len(calls)
  BY <1>2
<1>4. Chain(calls, loc)[Len(calls) + 1] = loc
  BY DEF Chain
<1>5. /\ base[Len(calls) + 1] = base[Len(calls)] + Nest(calls[Len(calls)]) + Depth(loc.rel)
      /\ atomic = base[Len(calls) + 1] + Nest(loc)
      /\ base[Len(calls)] \in Nat
  BY <1>1, <1>3, <1>4 DEF IsBase
<1>6. Nest(calls[Len(calls)]) \in Nat /\ Nest(loc) \in Nat
  BY <1>3, NestingFacts DEF Structured
<1> QED
  BY <1>2, <1>5, <1>6, DepthType

LEMMA OperationSound ==
  ASSUME PInv, Assembled, ~IsTarget, NEW t \in Running(threads), NEW s \in Leaving(threads[t])
  PROVE  OperationFaults(t, s) = {}
<1> DEFINE r == threads[t].loc.rel
           l == threads[t].loc.at
<1>1. /\ IInv /\ Structured /\ task \in Tasks /\ t \in Threads /\ threads[t] \in ThreadStates
      /\ Placed(t, threads[t]) /\ AllPlaced(threads) /\ threads \in [Threads -> ThreadStates]
  BY DEF PInv, IInv, TypeInv, TypeOK, Running, AllPlaced
<1>2. /\ Keeps(Nesting, r, l, s) /\ r \in DOMAIN task.relations /\ l \in DOMAIN task.relations[r]
      /\ s \in task.relations[r][l] /\ [threads[t].loc EXCEPT !.at = s.to] \in Locations
      /\ [threads[t].loc EXCEPT !.at = s.to] = [rel |-> r, at |-> s.to]
      /\ threads[t].loc = [rel |-> r, at |-> l]
  BY <1>1, StepFacts
<1>3. /\ threads[t].calls \in Seq(Locations) /\ threads[t].loc \in Locations
      /\ threads[t].atomic \in Nat
      /\ Framed(t, threads[t].calls, threads[t].loc, threads[t].atomic)
  BY <1>1 DEF ThreadStates, Placed
<1>4. ASSUME s.kind = "endAtomic" PROVE AtomicFaults(t, 1) = {}
  <2>1. Nest(threads[t].loc) = Nest([rel |-> r, at |-> s.to]) + 1
    BY <1>2, <1>4 DEF Keeps, Nest
  <2>2. Nest([rel |-> r, at |-> s.to]) \in Nat /\ threads[t].atomic >= Nest(threads[t].loc)
    BY <1>1, <1>2, <1>3, FramedFacts, NestingFacts DEF Structured
  <2> HIDE DEF r
  <2>3. ~(threads[t].atomic < 1)
    BY <2>1, <2>2, <1>3
  <2> QED
    BY <2>3 DEF AtomicFaults, When
<1>5. ASSUME s.kind = "return"
      PROVE  /\ When(threads[t].calls = <<>>, "return without call") = {}
             /\ AtomicFaults(t, Depth(r)) = {}
  <2>1. r \in DOMAIN task.methods
    BY <1>2, <1>5 DEF Keeps
  <2>2. threads[t].calls # <<>> /\ threads[t].atomic >= Depth(r)
    BY <1>1, <1>3, <2>1, ReturnBalanced
  <2>3. ~(threads[t].atomic < Depth(r))
    BY <2>2, <1>3, DepthType
  <2> QED
    BY <2>2, <2>3 DEF AtomicFaults, When
<1>6. ASSUME s.kind \in Sends
      PROVE  DispatchFaults(Moved(t, s), Receivers(t, s.arg), s.arg) = {}
  <2>1. ~Misaddressed(s.arg)
    BY <1>2, <1>6 DEF Assembled
  <2>2. ASSUME NEW u \in Triggered(Moved(t, s), Receivers(t, s.arg))
        PROVE  Moved(t, s)[u].waiting = {}
    <3>1. u \in Threads
      BY DEF Triggered, Receivers
    <3>2. Moved(t, s)[u].waiting = threads[u].waiting /\ Moved(t, s)[u].comp = threads[u].comp
      BY <1>1, <3>1 DEF Moved, ThreadStates
    <3>3. CASE Script(u).restart
      BY <3>1, <3>2, <3>3, <1>1 DEF AllPlaced, Placed, Restarting
    <3>4. CASE ~Script(u).restart
      BY <3>1, <3>2, <3>4, <1>1 DEF Triggered, IInv, Consistent
    <3> QED
      BY <3>3, <3>4
  <2> QED
    BY <2>1, <2>2 DEF DispatchFaults, When
<1> QED
  BY <1>4, <1>5, <1>6 DEF OperationFaults, Sends

(* The scheduler finds its state as it expects it. *)
LEMMA ScheduleSound ==
  ASSUME PInv, Assembled, LastKnown, NEW t \in Running(threads),
         NEW ths \in Tables, AllPlaced(ths), Going(ths), NoOtherRuns(ths, t)
  PROVE  ScheduleFaults(ths, t) = {}
<1> DEFINE yielded == Preempted(ths, t)
           next == GivenTo(yielded, NextToStep(yielded, t))
<1>1. /\ task \in Tasks /\ Structured /\ t \in Threads /\ ths[t] \in ThreadStates
      /\ Placed(t, ths[t])
  BY DEF PInv, IInv, TypeInv, Running, Tables, AllPlaced
<1>2. CASE ContinuesAtomically(ths[t])
  BY <1>2 DEF ScheduleFaults
<1>3. CASE ~ContinuesAtomically(ths[t])
  <2>1. ~(~HasLeaving(ths[t]) /\ ths[t].waiting # {})
    BY <1>1 DEF Placed
  <2>2. ~(t \in Observers /\ Cardinality(lastNonObserver) # 1)
    <3>1. ASSUME t \in Observers PROVE Cardinality(lastNonObserver) = 1
      <4>1. PICK u \in Threads : lastNonObserver = {u}
        BY <3>1 DEF LastKnown
      <4> QED
        BY <4>1, FS_Singleton
    <3> QED
      BY <3>1
  <2>3. next = Scheduled(ths, t)
    BY <1>3 DEF Scheduled
  <2>4. ~(\E u \in Running(next) : ~HasLeaving(next[u]))
    <3>1. Going(next)
      BY <1>1, <2>3, ScheduledPlaced
    <3> QED
      BY <3>1 DEF Going, Running
  <2>5. ~(Cardinality(Running(next)) > 1)
    <3>1. yielded \in [Threads -> ThreadStates] /\ \A u \in Threads : yielded[u].comp # "R"
      <4>1. ths[t].comp \in CompStates
        BY <1>1 DEF ThreadStates
      <4>2. yielded \in [Threads -> ThreadStates]
        BY <4>1, SetComp DEF Preempted, Tables, CompStates
      <4>3. \A u \in Threads : yielded[u].comp # "R"
        BY <1>1 DEF Preempted, NoOtherRuns, Tables, ThreadStates
      <4> QED
        BY <4>2, <4>3
    <3> HIDE DEF yielded
    <3>2. \A u, v \in Running(next) : u = v
      BY <3>1 DEF GivenTo, Running, ThreadStates, Assembled
    <3>3. Running(next) = {} \/ \E u : Running(next) = {u}
      BY <3>2
    <3> HIDE DEF next
    <3>4. Cardinality(Running(next)) \in {0, 1}
      BY <3>3, FS_EmptySet, FS_Singleton
    <3> QED
      BY <3>4
  <2> HIDE DEF yielded, next
  <2>6. ScheduleFaults(ths, t) =
          When(~HasLeaving(ths[t]) /\ ths[t].waiting # {}, "state change while waiting")
            \cup When(/\ t \in Observers
                      /\ Yielding(yielded) \cap Observers = {}
                      /\ Cardinality(lastNonObserver) # 1, "no last program thread")
            \cup When(\E u \in Running(next) : ~HasLeaving(next[u]), "running without steps")
            \cup When(Cardinality(Running(next)) > 1, "two threads run")
    BY <1>3, Zenon DEF ScheduleFaults, yielded, next
  <2>7. /\ When(~HasLeaving(ths[t]) /\ ths[t].waiting # {}, "state change while waiting") = {}
        /\ When(/\ t \in Observers
                /\ Yielding(yielded) \cap Observers = {}
                /\ Cardinality(lastNonObserver) # 1, "no last program thread") = {}
        /\ When(\E u \in Running(next) : ~HasLeaving(next[u]), "running without steps") = {}
        /\ When(Cardinality(Running(next)) > 1, "two threads run") = {}
    BY <2>1, <2>2, <2>4, <2>5, Zenon DEF When
  <2> QED
    BY <2>6, <2>7
<1> QED
  BY <1>2, <1>3

LEMMA MonitorSound ==
  ASSUME task \in Tasks, Structured, NEW ths \in Tables, AllPlaced(ths), NEW t, NEW s
  PROVE  MonitorFaults(Ended(ths), t, s) = {}
<1>1. AllPlaced(Ended(ths))
  BY EndedPlaced
<1>2. \A m \in MonitorsAfter(Ended(ths), t, s) : Ended(ths)[m].waiting = {}
  BY <1>1 DEF MonitorsAfter, AllPlaced, Placed, Restarting, Monitors
<1> QED
  BY <1>2 DEF MonitorFaults, When

(* Time is accelerated for one condition only. *)
LEMMA TimersStay ==
  ASSUME PInv, OneTimer, OnlyTimers, NEW t \in Running(threads), NEW s \in Leaving(threads[t])
  PROVE  \A c \in CondsAfter(t, s) : \E u \in Timers : c = CondOf(u)
<1>1. CASE s.kind # "waitSeconds"
  BY <1>1 DEF CondsAfter, OnlyTimers
<1>2. CASE s.kind = "waitSeconds"
  <2> DEFINE r == threads[t].loc.rel
             l == threads[t].loc.at
  <2>1. /\ IInv /\ Structured /\ task \in Tasks /\ t \in Threads /\ threads[t] \in ThreadStates
        /\ Placed(t, threads[t])
    BY DEF PInv, IInv, TypeInv, TypeOK, Running, AllPlaced
  <2>2. r \in DOMAIN task.relations /\ l \in DOMAIN task.relations[r] /\ s \in task.relations[r][l]
    BY <2>1, StepFacts
  <2>3. WaitsIn(r)
    BY <1>2, <2>2 DEF WaitsIn
  <2>4. r \notin DOMAIN task.methods
    BY <2>3 DEF OneTimer
  <2>5. r = Script(t).rel
    BY <2>1, <2>4, FramedFacts DEF Placed, ThreadStates
  <2>6. t \in Timers
    BY <2>1, <2>3, <2>5 DEF Timers
  <2> QED
    BY <2>6 DEF CondsAfter, OnlyTimers
<1> QED
  BY <1>1, <1>2

LEMMA AccelerationSound ==
  ASSUME OneTimer, NEW ths, NEW conds, \A c \in conds : \E u \in Timers : c = CondOf(u)
  PROVE  ConditionFaults(ths, conds) = {}
<1>1. \A c, d \in conds : c = d
  BY DEF OneTimer
<1>2. conds = {} \/ \E c : conds = {c}
  BY <1>1
<1>3. conds = {} \/ Cardinality(conds) = 1
  BY <1>2, FS_Singleton
<1> QED
  BY <1>3 DEF ConditionFaults, When

LEMMA StepThrown ==
  ASSUME EInv, NEW t \in Running(threads), NEW s \in Leaving(threads[t]), Step(t, s)
  PROVE  /\ thrown' \subseteq {Acceleration}
         /\ OneTimer => thrown' = {}
<1> DEFINE conds == CondsAfter(t, s)
<1>1. /\ PInv /\ IInv /\ Structured /\ task \in Tasks /\ t \in Threads /\ Assembled /\ LastKnown
      /\ AllPlaced(threads) /\ Going(threads)
  BY DEF EInv, PInv, IInv, TypeInv, Running
<1>2. PICK ths : /\ Complete(t, s, ths, conds, OperationFaults(t, s))
                 /\ OperationFaults(t, s) = {} => GoodTable(ths, conds, t) /\ Operated(t, s, ths)
  BY <1>1, StepTable
<1>3. ~IsTarget
  BY <1>1, StepTable
<1>4. OperationFaults(t, s) = {}
  BY <1>1, <1>3, OperationSound
<1>5. GoodTable(ths, conds, t) /\ AllPlaced(ths) /\ ths \in Tables
  BY <1>1, <1>2, <1>3, <1>4, OperatedPlaced DEF GoodTable
<1>6. MonitorFaults(Ended(ths), t, s) = {}
  BY <1>1, <1>5, MonitorSound
<1>7. OneTimer => ConditionFaults(Woken(ths, t, s), conds) = {}
  BY <1>1, TimersStay, AccelerationSound DEF EInv
<1> HIDE DEF conds
<1>8. ASSUME NEW satisfied \in SatisfiedSets(Woken(ths, t, s), conds)
      PROVE  ScheduleFaults(Freed(ths, t, s, conds, satisfied), t) = {}
  <2> DEFINE freed == Freed(ths, t, s, conds, satisfied)
  <2>1. freed \in Tables /\ NoOtherRuns(freed, t)
    BY <1>1, <1>5, <1>6, GoodStages
  <2>2. AllPlaced(freed) /\ Going(freed)
    BY <1>1, <1>5, <1>6, FreedPlaced
  <2> QED
    BY <1>1, <2>1, <2>2, ScheduleSound
<1>9. ConditionFaults(Woken(ths, t, s), conds) \subseteq {Acceleration}
  BY DEF ConditionFaults, When, Acceleration
<1>10. \/ thrown' = thrown
       \/ thrown' = ConditionFaults(Woken(ths, t, s), conds)
       \/ thrown' = {}
  <2>1. \/ thrown' = thrown
        \/ thrown' = OperationFaults(t, s) \cup MonitorFaults(Ended(ths), t, s)
                             \cup ConditionFaults(Woken(ths, t, s), conds)
        \/ \E satisfied \in SatisfiedSets(Woken(ths, t, s), conds) :
             thrown' = ScheduleFaults(Freed(ths, t, s, conds, satisfied), t)
    BY <1>2, CompleteFaults DEF conds
  <2> QED
    BY <2>1, <1>4, <1>6, <1>8
<1> QED
  BY <1>7, <1>9, <1>10 DEF EInv

LEMMA StepEInv ==
  ASSUME EInv, PInv', NEW t \in Running(threads), NEW s \in Leaving(threads[t]), Step(t, s)
  PROVE  EInv'
<1>1. task' = task
  BY ProgramFixed DEF Next
<1>2. /\ PInv /\ IInv /\ Structured /\ task \in Tasks /\ t \in Threads /\ Assembled /\ LastKnown
  BY DEF EInv, PInv, IInv, TypeInv, Running
<1>3. Assembled' /\ (OneTimer' <=> OneTimer) /\ Timers' = Timers /\ Observers' = Observers
  BY <1>1, <1>2 DEF Assembled, OneTimer, Timers, WaitsIn, Sends, Misaddressed, Observers, Threads, Script
<1>4. LastKnown' /\ (OneTimer /\ OnlyTimers => OnlyTimers')
  <2>1. CASE UNCHANGED <<threads, condThreads, lastNonObserver>>
    BY <2>1, <1>1, <1>2, <1>3 DEF LastKnown, OnlyTimers, Running, Threads, CondOf
  <2>2. CASE ~UNCHANGED <<threads, condThreads, lastNonObserver>>
    <3>1. PICK ths, conds, faults : /\ Complete(t, s, ths, conds, faults)
                                    /\ conds = CondsAfter(t, s)
      BY <1>2, StepTable
    <3>2. /\ lastNonObserver' = IF t \in Observers THEN lastNonObserver ELSE {t}
          /\ condThreads' \subseteq conds
      BY <2>2, <3>1, CompleteStages DEF StillNeeded
    <3>3. LastKnown'
      <4>1. \E u \in Threads : lastNonObserver' = {u}
        BY <1>2, <3>2 DEF LastKnown
      <4> QED
        BY <4>1, <1>1 DEF LastKnown, Threads
    <3>4. ASSUME OneTimer, OnlyTimers PROVE OnlyTimers'
      <4>1. \A c \in condThreads' : \E u \in Timers : c = CondOf(u)
        BY <1>2, <3>1, <3>2, <3>4, TimersStay
      <4> QED
        BY <4>1, <1>1, <1>3 DEF OnlyTimers, CondOf
    <3> QED
      BY <3>3, <3>4
  <2> QED
    BY <2>1, <2>2
<1>5. thrown' \subseteq {Acceleration} /\ (OneTimer => thrown' = {})
  BY StepThrown
<1> QED
  BY <1>3, <1>4, <1>5 DEF EInv

LEMMA NoErrors == Spec /\ Structured /\ Assembled => []EInv
<1>1. Init /\ PInv /\ Assembled => EInv
  <2> SUFFICES ASSUME Init, PInv, Assembled PROVE EInv
    OBVIOUS
  <2>1. ASSUME NEW t \in Running(threads) PROVE t \notin Observers
    <3>1. t \in Threads /\ InitialThread(t).comp = "R"
      BY DEF Running, Init
    <3>2. Script(t).event = "singularity"
      BY <3>1 DEF InitialThread
    <3> QED
      BY <3>1, <3>2 DEF Assembled, Observers
  <2>2. LastKnown /\ OnlyTimers /\ thrown = {}
    BY <2>1 DEF LastKnown, OnlyTimers, Init
  <2> QED
    BY <2>2 DEF EInv
<1>2. EInv /\ PInv' /\ [Next]_vars => EInv'
  <2> SUFFICES ASSUME EInv, PInv', [Next]_vars PROVE EInv'
    OBVIOUS
  <2>1. CASE Next
    BY <2>1, StepEInv DEF Next
  <2>2. CASE UNCHANGED vars
    <3>1. UNCHANGED <<task, threads, condThreads, lastNonObserver, thrown>>
      BY <2>2 DEF vars
    <3>2. Assembled' /\ (OneTimer' <=> OneTimer) /\ Timers' = Timers /\ Observers' = Observers
      BY <3>1 DEF EInv, Assembled, OneTimer, Timers, WaitsIn, Sends, Misaddressed, Observers, Threads, Script
    <3> QED
      BY <3>1, <3>2 DEF EInv, LastKnown, OnlyTimers, Running, Threads, CondOf
  <2> QED
    BY <2>1, <2>2
<1> QED
  BY <1>1, <1>2, PlacedInvariance, PTL DEF Spec

(* Of the internal checks of the control analysis, only the one for several   *)
(* conditions to accelerate can fail for a structured program.               *)
THEOREM OnlyTimeFails == Spec /\ Structured /\ Assembled => [](thrown \subseteq {Acceleration})
<1>1. EInv => thrown \subseteq {Acceleration}
  BY DEF EInv
<1> QED
  BY <1>1, NoErrors, PTL

(* And that one cannot, if only one script waits for time: no internal check  *)
(* fails in a structured program with one timer.                             *)
THEOREM NoCheckFails == Spec /\ Structured /\ Assembled /\ OneTimer => []NoInternalError
<1>1. EInv /\ OneTimer => NoInternalError
  BY DEF EInv, NoInternalError
<1>2. OneTimer /\ [Next]_vars => OneTimer'
  BY ProgramFixed DEF OneTimer, Timers, WaitsIn, Threads, Script
<1> QED
  BY <1>1, <1>2, NoErrors, PTL DEF Spec

-----------------------------------------------------------------------------
(***************************************************************************)
(* The phases of a program: bootstrap, setup and startup follow each other,  *)
(* and the terminator runs when nothing else of the program can run any more.*)
(***************************************************************************)

-----------------------------------------------------------------------------
(* Programs.                                                                 *)

Terminators == {t \in Threads : Script(t).event = "termination"}

(* Nothing is sent from the relations in q, nor from what is called there. *)
SendsNothing(q) ==
  \A r \in q : \A l \in DOMAIN task.relations[r] : \A s \in task.relations[r][l] :
    s.kind \notin Sends /\ (s.kind = "call" => s.arg \in q)
Silent(r) == \E q \in SUBSET DOMAIN task.relations : SendsNothing(q) /\ r \in q

(* Monitors are no part of the program; neither they nor the terminator send. *)
EndsAlone ==
  /\ \A x \in Terminators : Silent(Script(x).rel)
  /\ \A m \in Monitors : Silent(Script(m).rel) /\ ~Script(m).program

LEMMA SilentStep ==
  ASSUME NEW r, Silent(r), NEW l \in DOMAIN task.relations[r], NEW s \in task.relations[r][l]
  PROVE  s.kind \notin Sends /\ (s.kind = "call" => Silent(s.arg))
BY DEF Silent, SendsNothing

-----------------------------------------------------------------------------
(* The invariant.                                                            *)

(* The terminator is in relations that send nothing. *)
Hushed(ths) ==
  \A x \in Terminators :
    /\ Silent(ths[x].loc.rel)
    /\ \A i \in 1 .. Len(ths[x].calls) : Silent(ths[x].calls[i].rel)

DisabledOnly(ths) == \A u \in Threads : ths[u].comp = "P" => u \in Monitors \cup Terminators

(* Apart from x and the monitors, threads are finished, or wait for each     *)
(* other.                                                                    *)
Others(x) == Threads \ ({x} \cup Monitors)
Stuck(ths, x) ==
  \A u \in Others(x) :
    /\ ths[u].comp \in {"W", "D", "F"}
    /\ ths[u].comp = "W" =>
         \A w \in ths[u].waiting : w \in Others(x) /\ ths[w].comp \in {"W", "F"}
NothingLeft(ths) == \A x \in Terminators : ths[x].comp # "P" => Stuck(ths, x)

TInv == /\ EInv /\ WInv /\ EndsAlone
        /\ Hushed(threads) /\ DisabledOnly(threads) /\ NothingLeft(threads)

-----------------------------------------------------------------------------
(* The stages.                                                               *)

(* What the operation does to a thread that is not stepped, and what it does *)
(* if it is no send.                                                         *)
LEMMA OperatedOthers ==
  ASSUME IInv, NEW t \in Running(threads), NEW s \in Leaving(threads[t]),
         NEW ths, Operated(t, s, ths), NEW u \in Threads
  PROVE  /\ u # t /\ s.kind \notin Sends => ths[u] = threads[u]
         /\ s.kind \in Sends => ths[u].loc.rel = threads[u].loc.rel /\ ths[u].calls = threads[u].calls
         /\ ths[u].comp = "P" => threads[u].comp = "P"
         /\ u \notin Monitors /\ Script(u).event # "message" /\ u # t =>
              ths[u].comp = threads[u].comp
<1>1. /\ threads \in [Threads -> ThreadStates] /\ threads[u] \in ThreadStates
      /\ t \in Threads /\ threads[t].comp = "R"
  BY DEF IInv, TypeInv, TypeOK, Running
<1>2. CASE s.kind \notin Sends
  BY <1>1, <1>2 DEF Operated, SteppedBy
<1>3. CASE s.kind \in Sends
  <2> DEFINE moved == Moved(t, s)[u]
             hit == u \in Triggered(Moved(t, s), Receivers(t, s.arg))
  <2>1. SentFrom(t, s, u, moved, ths[u])
    BY <1>3, SentChanges DEF Operated
  <2>3. moved.loc.rel = threads[u].loc.rel /\ moved.calls = threads[u].calls
        /\ moved.comp = threads[u].comp
    BY <1>1 DEF Moved, ThreadStates, Locations
  <2>4. [moved.loc EXCEPT !.at = Script(u).entry].rel = moved.loc.rel
    <3>1. moved.loc = IF u = t THEN [threads[t].loc EXCEPT !.at = s.to] ELSE threads[u].loc
      BY <1>1 DEF Moved, ThreadStates
    <3>2. moved.loc.rel = threads[u].loc.rel /\ threads[u].loc \in Locations
          /\ threads[t].loc \in Locations
      BY <1>1, <2>3 DEF ThreadStates
    <3> HIDE DEF moved
    <3> QED
      BY <3>1, <3>2 DEF Locations
  <2> HIDE DEF moved
  <2>5. hit => Script(u).event = "message"
    BY DEF Triggered, Receivers, IsHandlerFor
  <2> QED
    BY <1>1, <1>3, <2>1, <2>3, <2>4, <2>5 DEF SentFrom, FallsAsleep
<1> QED
  BY <1>2, <1>3

LEMMA HushedStep ==
  ASSUME PInv, EndsAlone, Hushed(threads), NEW t \in Running(threads),
         NEW s \in Leaving(threads[t]), NEW ths, NEW freed, Outcome(t, s, ths, freed)
  PROVE  Hushed(threads')
<1>1. /\ IInv /\ Structured /\ task \in Tasks /\ t \in Threads
      /\ threads \in [Threads -> ThreadStates] /\ AllPlaced(threads)
      /\ Operated(t, s, ths) /\ threads' = Scheduled(freed, t) /\ freed \in Tables
  BY DEF PInv, IInv, TypeInv, TypeOK, Running, Outcome
<1> SUFFICES ASSUME NEW x \in Terminators
             PROVE  /\ Silent(threads'[x].loc.rel)
                    /\ \A i \in 1 .. Len(threads'[x].calls) : Silent(threads'[x].calls[i].rel)
  BY DEF Hushed
<1>2. x \in Threads /\ x \notin Monitors /\ Script(x).event = "termination"
  BY DEF Terminators, Monitors
<1>3. threads'[x].loc = ths[x].loc /\ threads'[x].calls = ths[x].calls
  <2>1. FreedFrom(ths, freed, x)
    BY <1>2 DEF Outcome
  <2> QED
    BY <2>1, <1>1, <1>2, ScheduledChanges DEF FreedFrom
<1>4. Silent(threads[x].loc.rel) /\ \A i \in 1 .. Len(threads[x].calls) : Silent(threads[x].calls[i].rel)
  BY DEF Hushed
<1>5. CASE s.kind \in Sends
  BY <1>1, <1>2, <1>3, <1>4, <1>5, OperatedOthers
<1>6. CASE s.kind \notin Sends /\ x # t
  BY <1>1, <1>2, <1>3, <1>4, <1>6, OperatedOthers
<1>7. CASE s.kind \notin Sends /\ x = t
  <2> DEFINE r == threads[t].loc.rel
             l == threads[t].loc.at
             calls == threads[t].calls
             to == [threads[t].loc EXCEPT !.at = s.to]
  <2>1. /\ r \in DOMAIN task.relations /\ l \in DOMAIN task.relations[r] /\ s \in task.relations[r][l]
        /\ to.rel = r /\ to \in Locations /\ calls \in Seq(Locations)
    <3>1. to \in Locations /\ to = [rel |-> r, at |-> s.to]
      BY <1>1, StepFacts
    <3> QED
      BY <3>1, <1>1, StepFacts DEF ThreadStates
  <2>2. SteppedBy(t, s, ths[t])
    BY <1>1, <1>7 DEF Operated
  <2> HIDE DEF to
  <2>3. CASE s.kind = "call"
    <3>1. Silent(s.arg)
      BY <1>4, <1>7, <2>1, <2>3, SilentStep
    <3>2. ths[t].loc.rel = s.arg /\ ths[t].calls = Append(calls, to)
      BY <2>2, <2>3 DEF SteppedBy, to
    <3>3. \A i \in 1 .. Len(Append(calls, to)) : Silent(Append(calls, to)[i].rel)
      <4>1. \A i \in 1 .. Len(Append(calls, to)) :
              (i \in 1 .. Len(calls) /\ Append(calls, to)[i] = calls[i]) \/ Append(calls, to)[i] = to
        BY <2>1
      <4> QED
        BY <4>1, <1>4, <1>7, <2>1
    <3> QED
      BY <3>1, <3>2, <3>3, <1>3, <1>7
  <2>4. CASE s.kind = "return"
    <3>1. calls # <<>> /\ ths[t].loc = calls[Len(calls)] /\ ths[t].calls = SubSeq(calls, 1, Len(calls) - 1)
      BY <2>2, <2>4 DEF SteppedBy
    <3>2. Len(calls) \in 1 .. Len(calls)
      BY <3>1, <2>1
    <3>3. \A i \in 1 .. Len(SubSeq(calls, 1, Len(calls) - 1)) :
            i \in 1 .. Len(calls) /\ SubSeq(calls, 1, Len(calls) - 1)[i] = calls[i]
      <4>1. Len(calls) \in Nat /\ Len(calls) - 1 \in 0 .. Len(calls)
        BY <3>2
      <4> HIDE DEF calls
      <4> QED
        BY <4>1, <2>1, SubSeqProperties
    <3> QED
      BY <3>1, <3>2, <3>3, <1>3, <1>4, <1>7
  <2>5. CASE s.kind \notin {"call", "return"}
    <3>1. ths[t].loc = to /\ ths[t].calls = calls
      BY <2>2, <2>5 DEF SteppedBy, to
    <3> QED
      BY <3>1, <1>3, <1>4, <1>7, <2>1
  <2> QED
    BY <2>3, <2>4, <2>5
<1> QED
  BY <1>5, <1>6, <1>7

LEMMA DisabledStep ==
  ASSUME PInv, DisabledOnly(threads), NEW t \in Running(threads),
         NEW s \in Leaving(threads[t]), NEW ths, NEW freed, Outcome(t, s, ths, freed)
  PROVE  DisabledOnly(freed) /\ DisabledOnly(threads')
<1>1. /\ IInv /\ t \in Threads /\ Operated(t, s, ths) /\ ths \in Tables
      /\ threads' = Scheduled(freed, t) /\ freed \in Tables
  BY DEF PInv, Running, Outcome, GoodTable
<1> SUFFICES ASSUME NEW u \in Threads, u \notin Monitors \cup Terminators
             PROVE  freed[u].comp # "P" /\ threads'[u].comp # "P"
  BY DEF DisabledOnly
<1>2. ths[u].comp # "P"
  BY <1>1, OperatedOthers DEF DisabledOnly
<1>3. Ended(ths)[u].comp # "P"
  BY <1>1, <1>2 DEF Ended, Terminated, Tables, ThreadStates
<1>4. freed[u].comp # "P"
  <2>1. FreedFrom(ths, freed, u)
    BY DEF Outcome
  <2> QED
    BY <2>1, <1>3 DEF FreedFrom
<1> QED
  BY <1>1, <1>4, ScheduledChanges

(* Who is stuck stays so while terminator and monitors run. *)
LEMMA StuckStays ==
  ASSUME PInv, WInv, EndsAlone, Hushed(threads), NEW t \in Running(threads), ~IsTarget,
         NEW s \in Leaving(threads[t]), NEW ths, NEW freed, Outcome(t, s, ths, freed),
         NEW x \in Terminators, Stuck(threads, x)
  PROVE  Stuck(threads', x)
<1>1. /\ IInv /\ Structured /\ task \in Tasks /\ t \in Threads /\ x \in Threads
      /\ threads \in [Threads -> ThreadStates] /\ AllPlaced(threads) /\ Going(threads)
      /\ Operated(t, s, ths) /\ threads' = Scheduled(freed, t) /\ freed \in Tables
      /\ ths \in Tables /\ AllPlaced(freed) /\ threads[t].comp = "R"
  BY DEF PInv, IInv, TypeInv, TypeOK, Running, Outcome, Terminators, GoodTable
<1>2. t \notin Others(x)
  BY <1>1 DEF Stuck
<1>3. s.kind \notin Sends
  <2> DEFINE r == threads[t].loc.rel
  <2>1. r \in DOMAIN task.relations /\ threads[t].loc.at \in DOMAIN task.relations[r]
        /\ s \in task.relations[r][threads[t].loc.at]
    BY <1>1, StepFacts
  <2>2. Silent(r)
    <3>1. CASE t = x
      BY <3>1 DEF Hushed
    <3>2. CASE t \in Monitors
      <4>1. Placed(t, threads[t]) /\ threads[t] \in ThreadStates
        BY <1>1 DEF AllPlaced
      <4>2. threads[t].calls = <<>>
        BY <4>1, <3>2 DEF Placed, Restarting, Quiet
      <4>3. r = Script(t).rel
        BY <4>1, <4>2, <1>1, FramedFacts DEF Placed, ThreadStates
      <4> QED
        BY <4>3, <3>2 DEF EndsAlone
    <3> QED
      BY <3>1, <3>2, <1>1, <1>2 DEF Others
  <2> QED
    BY <2>1, <2>2, SilentStep
<1>4. ASSUME NEW u \in Others(x)
      PROVE  /\ u \in Threads /\ u \notin Monitors /\ u # t /\ ths[u] = threads[u]
             /\ threads[u].comp \in {"W", "D"}
  <2>1. u \in Threads /\ u \notin Monitors /\ u # t
    BY <1>2, <1>4 DEF Others
  <2>2. ths[u] = threads[u]
    BY <1>1, <1>3, <2>1, OperatedOthers
  <2>3. threads[u].comp # "F"
    BY <1>1, <2>1 DEF AllPlaced, Placed, IsTarget
  <2> QED
    BY <2>1, <2>2, <2>3, <1>4 DEF Stuck
<1>5. ASSUME NEW u \in Others(x), threads[u].comp = "W"
      PROVE  /\ Ended(ths)[u].comp = "W"
             /\ \A w \in threads[u].waiting : w \in Others(x) /\ threads[w].comp = "W"
  <2>1. threads[u].waiting # {}
    BY <1>1, <1>4, <1>5 DEF IInv, Consistent
  <2>2. Ended(ths)[u] = ths[u]
    BY <2>1, <1>4 DEF Ended, Terminated
  <2>3. \A w \in threads[u].waiting : w \in Others(x) /\ threads[w].comp = "W"
    BY <1>4, <1>5 DEF Stuck
  <2> QED
    BY <2>2, <2>3, <1>4, <1>5
<1>6. ASSUME NEW u \in Others(x), threads[u].comp = "W"
      PROVE  freed[u].comp = "W" /\ freed[u].waiting = threads[u].waiting /\ threads'[u].comp = "W"
  <2>1. FreedFrom(ths, freed, u) /\ Consistent(freed, CondsAfter(t, s))
    BY <1>1, <1>4, GoodStages DEF Outcome
  <2>2. ASSUME NEW w \in ths[u].waiting PROVE w \in freed[u].waiting
    <3>1. w \in Others(x) /\ threads[w].comp = "W"
      BY <1>4, <1>5, <1>6, <2>2
    <3>2. w \in Threads /\ Ended(ths)[w].comp = "W"
      BY <3>1, <1>4, <1>5
    <3> QED
      BY <3>2, <2>1, <2>2 DEF FreedFrom
  <2>3. freed[u].waiting = ths[u].waiting
    BY <2>1, <2>2 DEF FreedFrom
  <2>4. freed[u].waiting # {}
    BY <2>3, <1>1, <1>4, <1>6 DEF IInv, Consistent
  <2>5. freed[u].comp = "W"
    BY <2>1, <2>4, <1>4 DEF Consistent
  <2>6. HasLeaving(freed[u])
    BY <1>1, <1>4, <2>4 DEF AllPlaced, Placed
  <2>7. threads'[u].comp = "W"
    BY <1>1, <1>4, <2>5, <2>6, ScheduledWaits
  <2> QED
    BY <2>3, <2>5, <2>7, <1>4
<1>7. ASSUME NEW u \in Others(x), threads[u].comp = "D"
      PROVE  threads'[u].comp = "D"
  <2>1. Ended(ths)[u].comp = "D"
    BY <1>1, <1>4, <1>7 DEF Ended, Terminated, Tables, ThreadStates
  <2>2. freed[u].comp = "D" /\ Placed(u, freed[u])
    BY <2>1, <1>1, <1>4 DEF Outcome, FreedFrom, AllPlaced
  <2> QED
    BY <2>2, <1>1, <1>4, ScheduledDone
<1>8. ASSUME NEW u \in Others(x), threads'[u].comp = "W"
      PROVE  \A w \in threads'[u].waiting : w \in Others(x) /\ threads'[w].comp = "W"
  <2>1. threads[u].comp = "W"
    BY <1>4, <1>7, <1>8
  <2>2. threads'[u].waiting = threads[u].waiting
    BY <2>1, <1>1, <1>4, <1>6, ScheduledChanges
  <2> QED
    BY <2>1, <2>2, <1>5, <1>6
<1>9. \A u \in Others(x) : threads'[u].comp \in {"W", "D"}
  BY <1>4, <1>6, <1>7
<1> QED
  BY <1>8, <1>9 DEF Stuck

(* The scheduler activates the terminator when it finds nothing else. *)
LEMMA FirstEnding ==
  ASSUME PInv, LastKnown, NEW t \in Running(threads), NEW ths \in Tables, Going(ths), AllPlaced(ths),
         NoOtherRuns(ths, t), ScheduleFaults(ths, t) = {},
         NEW x \in Threads \ {t}, ths[x].comp = "P", Scheduled(ths, t)[x].comp # "P"
  PROVE  \A u \in Threads :
           /\ ths[u].comp \notin {"R", "Y"}
           /\ u \notin Terminators => Scheduled(ths, t)[u].comp \in {ths[u].comp, "D"}
<1> DEFINE yielded == Preempted(ths, t)
           next == NextToStep(yielded, t)
           origin == IF t \in Observers THEN CHOOSE u \in lastNonObserver : TRUE ELSE t
<1>1. t \in Threads /\ task \in Tasks /\ ths[x] \in ThreadStates /\ ths[t] \in ThreadStates
  BY DEF PInv, IInv, TypeInv, Running, Tables
<1>2. ~ContinuesAtomically(ths[t])
  <2>1. ContinuesAtomically(ths[t]) => Scheduled(ths, t)[x] = ths[x]
    BY <1>1 DEF Scheduled, Tables
  <2> QED
    BY <2>1
<1>3. Scheduled(ths, t) = GivenTo(yielded, next)
  BY <1>2 DEF Scheduled
<1>4. /\ yielded \in [Threads -> ThreadStates]
      /\ \A u \in Threads : \/ u # t /\ yielded[u] = ths[u]
                            \/ /\ u = t /\ ~HasLeaving(ths[t]) /\ yielded[u].comp = "D"
                            \/ /\ u = t /\ HasLeaving(ths[t])
                               /\ yielded[u].comp = IF ths[u].comp = "R" THEN "Y" ELSE ths[u].comp
  <2>1. ths[t].comp \in CompStates
    BY <1>1 DEF ThreadStates
  <2>2. yielded \in [Threads -> ThreadStates]
    BY <2>1, SetComp DEF Preempted, Tables, CompStates
  <2> QED
    BY <2>2, <1>1 DEF Preempted, Tables, ThreadStates
<1>5. next > -1 => yielded[next].comp \in {"R", "Y"}
  BY ChosenDoesNotWait
<1>6. ASSUME next > -1 PROVE FALSE
  <2>1. next # x
    BY <1>4, <1>5, <1>6
  <2> HIDE DEF yielded, next
  <2>2. GivenTo(yielded, next)[x] = yielded[x]
    BY <1>4, <1>6, <2>1 DEF GivenTo
  <2> QED
    BY <2>2, <1>3, <1>4
<1>7. origin \in Threads
  <2>1. CASE t \in Observers
    <3>1. lastNonObserver # {} /\ lastNonObserver \subseteq Threads
      BY <2>1 DEF LastKnown
    <3> QED
      BY <2>1, <3>1
  <2>2. CASE t \notin Observers
    BY <2>2, <1>1
  <2> QED
    BY <2>1, <2>2
<1>8. Yielding(yielded) = {}
  <2> HIDE DEF yielded, origin
  <2>1. ASSUME Yielding(yielded) # {} PROVE FALSE
    <3>1. ~(NextFrom(origin, Yielding(yielded)) > -1)
      <4>1. next = IF NextObserver(yielded, t) > -1 THEN NextObserver(yielded, t)
                   ELSE NextFrom(origin, Yielding(yielded))
        BY <2>1 DEF NextToStep, origin
      <4> QED
        BY <4>1, <1>6
    <3>2. Yielding(yielded) \in SUBSET Threads
      BY DEF Yielding
    <3> QED
      BY <1>1, <1>7, <2>1, <3>1, <3>2, NextFromFinds
  <2> QED
    BY <2>1
<1>9. \A u \in Threads : yielded[u].comp # "Y"
  BY <1>8 DEF Yielding
<1> HIDE DEF yielded, next
<1>10. ASSUME NEW u \in Threads PROVE ths[u].comp \notin {"R", "Y"}
  <2>1. CASE u # t
    BY <2>1, <1>4, <1>9 DEF NoOtherRuns
  <2>2. CASE u = t
    <3>1. ths[u].comp \in {"R", "Y"} => HasLeaving(ths[t])
      BY <2>2, <1>1 DEF Going
    <3> QED
      BY <2>2, <3>1, <1>1, <1>4, <1>9
  <2> QED
    BY <2>1, <2>2
<1>11. ASSUME NEW u \in Threads, u \notin Terminators
       PROVE  Scheduled(ths, t)[u].comp \in {ths[u].comp, "D"}
  <2>1. GivenTo(yielded, next)[u] = yielded[u]
    BY <1>4, <1>6, <1>11 DEF GivenTo, Terminators
  <2>2. yielded[u].comp \in {ths[u].comp, "D"}
    BY <1>4, <1>10
  <2> QED
    BY <2>1, <2>2, <1>3
<1> QED
  BY <1>10, <1>11

(* Then nobody waits for time any more: if no program thread can run, time is *)
(* advanced before.                                                          *)
LEMMA NobodyWaitsForTime ==
  ASSUME task \in Tasks, NEW t \in Threads, NEW s \in Leaving(threads[t]), NEW ths, NEW freed,
         Outcome(t, s, ths, freed),
         \A u \in Threads : freed[u].comp \notin {"R", "Y"}
  PROVE  \A u \in Threads : freed[u].waiting \subseteq Threads
<1> DEFINE conds == CondsAfter(t, s)
           woken == Woken(ths, t, s)
<1>1. PICK satisfied \in SatisfiedSets(woken, conds) : freed = Released(woken, conds, satisfied)
  BY DEF Outcome, Freed
<1>2. Consistent(freed, conds) /\ woken \in Tables /\ freed \in Tables
  BY GoodStages DEF Outcome
<1> HIDE DEF woken, conds
<1>3. satisfied \in SUBSET Threads
  BY DEF SatisfiedSets, CondWaiters
<1>4. ASSUME NEW u \in Threads PROVE freed[u] = woken[u] /\ u \notin satisfied
  <2>1. woken[u] \in ThreadStates
    BY <1>2 DEF Tables
  <2>2. u \in satisfied => freed[u].comp = "Y"
    BY <1>1, <2>1 DEF Released, ThreadStates
  <2> QED
    BY <2>2, <1>1 DEF Released
<1>5. ~ProgramCanRun(woken)
  BY <1>4 DEF ProgramCanRun
<1>6. CASE conds = {}
  BY <1>2, <1>6 DEF Consistent
<1>7. CASE conds # {}
  <2>1. satisfied = CondWaiters(woken, conds)
    BY <1>5, <1>7 DEF SatisfiedSets
  <2>2. ASSUME NEW u \in Threads PROVE freed[u].waiting \subseteq Threads
    <3>1. u \notin CondWaiters(woken, conds)
      BY <1>4, <2>1
    <3>2. freed[u].comp = "W" => freed[u].waiting \cap conds = {}
      BY <3>1, <1>4 DEF CondWaiters
    <3> QED
      BY <3>2, <1>2 DEF Consistent
  <2> QED
    BY <2>2
<1> QED
  BY <1>6, <1>7

LEMMA NothingLeftStep ==
  ASSUME TInv, WInv', NEW t \in Running(threads), NEW s \in Leaving(threads[t]), ~IsTarget,
         NEW ths, NEW freed, Outcome(t, s, ths, freed)
  PROVE  NothingLeft(threads')
<1>1. /\ PInv /\ IInv /\ Structured /\ task \in Tasks /\ t \in Threads /\ WInv /\ EndsAlone /\ LastKnown
      /\ Assembled /\ threads \in [Threads -> ThreadStates] /\ AllPlaced(threads)
      /\ Operated(t, s, ths) /\ threads' = Scheduled(freed, t) /\ freed \in Tables /\ ths \in Tables
      /\ AllPlaced(freed) /\ AllPlaced(ths) /\ Going(freed) /\ ScheduleFaults(freed, t) = {}
      /\ threads[t].comp = "R" /\ task' = task
  BY DEF TInv, EInv, PInv, IInv, TypeInv, TypeOK, Running, Outcome, GoodTable
<1> SUFFICES ASSUME NEW x \in Terminators, threads'[x].comp # "P"
             PROVE  Stuck(threads', x)
  BY DEF NothingLeft
<1>3. x \in Threads /\ x \notin Monitors /\ Script(x).event = "termination"
      /\ \A y \in Terminators : y = x
  BY <1>1 DEF Terminators, Monitors, Assembled
<1>4. CASE threads[x].comp # "P"
  <2>1. Stuck(threads, x)
    BY <1>4 DEF TInv, NothingLeft
  <2> QED
    BY <2>1, <1>1, StuckStays DEF TInv
<1>5. CASE threads[x].comp = "P"
  <2>1. x # t /\ ths[x].comp = "P"
    BY <1>1, <1>3, <1>5, OperatedOthers
  <2>2. freed[x].comp = "P"
    <3>1. HasLeaving(ths[x])
      <4>1. Placed(x, ths[x]) /\ ths[x] \in ThreadStates
        BY <1>1, <1>3 DEF AllPlaced, Tables
      <4>2. ths[x].loc.at = Script(x).entry /\ ths[x].calls = <<>>
        BY <4>1, <2>1 DEF Placed, Quiet
      <4>3. ths[x].loc.rel = Script(x).rel
        BY <4>1, <4>2, <1>1, <1>3, FramedFacts DEF Placed, ThreadStates
      <4> QED
        BY <4>2, <4>3, <1>1, <1>3, LeavingIsStep DEF Structured, EndsQuietly
    <3>2. Ended(ths)[x].comp = "P"
      BY <3>1, <2>1, <1>3 DEF Ended, Terminated
    <3> QED
      BY <3>2, <1>3 DEF Outcome, FreedFrom
  <2>3. NoOtherRuns(freed, t)
    BY <1>1, GoodStages DEF Outcome
  <2>4. \A u \in Threads :
          /\ freed[u].comp \notin {"R", "Y"}
          /\ u \notin Terminators => threads'[u].comp \in {freed[u].comp, "D"}
    BY <1>1, <1>3, <2>1, <2>2, <2>3, FirstEnding
  <2>5. \A u \in Threads : freed[u].waiting \subseteq Threads
    BY <1>1, <2>4, NobodyWaitsForTime
  <2>6. DisabledOnly(freed)
    BY <1>1, DisabledStep DEF TInv
  <2>7. ASSUME NEW u \in Others(x)
        PROVE  threads'[u].comp \in {"W", "D", "F"}
    <3>1. u \in Threads /\ u \notin Monitors /\ u \notin Terminators
      BY <1>3 DEF Others
    <3>2. freed[u].comp \in {"W", "D", "F"}
      BY <1>1, <2>4, <2>6, <3>1 DEF DisabledOnly, Tables, ThreadStates, CompStates
    <3> QED
      BY <2>4, <3>1, <3>2
  <2>8. ASSUME NEW u \in Others(x), NEW w \in threads'[u].waiting
        PROVE  w \in Others(x) /\ threads'[w].comp \in {"W", "F"}
    <3>1. u \in Threads
      BY DEF Others
    <3>2. w \in Threads
      BY <1>1, <2>5, <3>1, ScheduledChanges
    <3>3. Script(w).event = "message" /\ threads'[w].comp # "D"
      BY <1>1, <3>1, <3>2 DEF WInv, HandlersAwaited, NoneDone, Threads, Script
    <3>4. w \in Others(x)
      BY <1>3, <3>2, <3>3 DEF Others, Monitors
    <3> QED
      BY <3>3, <3>4, <2>7
  <2> QED
    BY <2>7, <2>8 DEF Stuck
<1> QED
  BY <1>4, <1>5

-----------------------------------------------------------------------------
(* The theorem.                                                              *)

LEMMA SameTerminators ==
  ASSUME task' = task, EndsAlone, NEW ths, ths = threads',
         Hushed(ths), DisabledOnly(ths), NothingLeft(ths)
  PROVE  EndsAlone' /\ Hushed(threads)' /\ DisabledOnly(threads)' /\ NothingLeft(threads)'
<1>1. \A r : Silent(r) <=> Silent(r)'
  BY DEF Silent, SendsNothing, Sends
<1>2. EndsAlone' /\ Hushed(threads)'
  BY <1>1 DEF EndsAlone, Hushed, Terminators, Monitors, Threads, Script
<1>3. DisabledOnly(threads)' /\ NothingLeft(threads)'
  BY DEF DisabledOnly, NothingLeft, Stuck, Others, Terminators, Monitors, Threads, Script
<1> QED
  BY <1>2, <1>3

LEMMA StepTInv ==
  ASSUME TInv, EInv', WInv', NEW t \in Running(threads), NEW s \in Leaving(threads[t]), Step(t, s)
  PROVE  TInv'
<1>1. /\ PInv /\ IInv /\ ~IsTarget /\ EndsAlone /\ Hushed(threads) /\ DisabledOnly(threads)
      /\ NothingLeft(threads)
  BY StepTable DEF TInv, EInv, PInv
<1>2. CASE UNCHANGED <<task, threads>>
  BY <1>1, <1>2, SameTerminators DEF TInv
<1>3. CASE ~UNCHANGED <<task, threads>>
  <2>1. PICK ths, freed : Outcome(t, s, ths, freed)
    BY <1>1, <1>3, StepOutcome
  <2>2. Hushed(threads') /\ DisabledOnly(threads') /\ NothingLeft(threads') /\ task' = task
    BY <1>1, <2>1, HushedStep, DisabledStep, NothingLeftStep DEF Outcome
  <2> QED
    BY <1>1, <2>2, SameTerminators DEF TInv
<1> QED
  BY <1>2, <1>3

LEMMA EndInvariance == Spec /\ Structured /\ Assembled /\ EndsAlone => []TInv
<1>1. Init /\ EInv /\ WInv /\ EndsAlone => TInv
  <2> SUFFICES ASSUME Init, EInv, WInv, EndsAlone PROVE TInv
    OBVIOUS
  <2>1. Hushed(threads) /\ DisabledOnly(threads) /\ NothingLeft(threads)
    BY DEF Init, InitialThread, EndsAlone, Hushed, DisabledOnly, NothingLeft, Terminators, Monitors
  <2> QED
    BY <2>1 DEF TInv
<1>2. TInv /\ EInv' /\ WInv' /\ [Next]_vars => TInv'
  <2> SUFFICES ASSUME TInv, EInv', WInv', [Next]_vars PROVE TInv'
    OBVIOUS
  <2>1. CASE Next
    BY <2>1, StepTInv DEF Next
  <2>2. CASE UNCHANGED vars
    BY <2>2, SameTerminators DEF vars, TInv
  <2> QED
    BY <2>1, <2>2
<1>3. Structured => EndsQuietly
  BY DEF Structured
<1> QED
  BY <1>1, <1>2, <1>3, NoErrors, WakeUpInvariance, PTL DEF Spec

(* The terminator is activated when no thread of the program can make a step  *)
(* any more, and then none ever can again: those that are left wait for each *)
(* other, time is not waited for, and nobody sends a message.                *)
THEOREM TerminatorRunsLast == Spec /\ Structured /\ Assembled /\ EndsAlone => []TerminatorLast
<1>1. TInv => TerminatorLast
  <2> SUFFICES ASSUME TInv, NEW x \in Threads, Script(x).event = "termination",
                      threads[x].comp \in {"R", "Y"},
                      NEW u \in Threads \ {x}, Script(u).program
               PROVE  threads[u].comp \notin {"R", "Y"}
    BY DEF TerminatorLast
  <2>1. Stuck(threads, x)
    BY DEF TInv, NothingLeft, Terminators
  <2>2. u \in Others(x)
    BY DEF TInv, EndsAlone, Others
  <2> QED
    BY <2>1, <2>2 DEF Stuck
<1> QED
  BY <1>1, EndInvariance, PTL

-----------------------------------------------------------------------------
(* The phases at the beginning.                                              *)

Bootstrappers == {b \in Threads : Script(b).event = "singularity"}

System(id) == [id |-> id, dest |-> "SYSTEM"]

(* Actors.defaultBoostraper: three broadcasts in this order, and a wait for   *)
(* the receivers of the first two.  p tells how many were made.              *)
IsPhasing(p) ==
  /\ p \in [Int -> 0 .. 3]
  /\ \A b \in Bootstrappers :
       /\ p[Script(b).entry] = 0
       /\ \A l \in DOMAIN task.relations[Script(b).rel] : \A s \in task.relations[Script(b).rel][l] :
            /\ s.kind # "call"
            /\ s.kind \notin Sends => p[s.to] = p[l]
            /\ s.kind \in Sends =>
                 \/ s.kind = "broadcastWait" /\ s.arg = System("bootstrap") /\ p[l] = 0 /\ p[s.to] = 1
                 \/ s.kind = "broadcastWait" /\ s.arg = System("finished") /\ p[l] = 1 /\ p[s.to] = 2
                 \/ s.arg = System("green") /\ p[l] = 2 /\ p[s.to] = 3

(* Nobody else sends the messages of the system. *)
StartsInOrder ==
  /\ \E p : IsPhasing(p)
  /\ \A r \in DOMAIN task.relations :
       (\A b \in Bootstrappers : r # Script(b).rel) =>
         \A l \in DOMAIN task.relations[r] : \A s \in task.relations[r][l] :
           s.kind \in Sends => s.arg.dest # "SYSTEM"
  /\ \A b \in Bootstrappers : \A t \in Threads \ {b} : Script(t).rel # Script(b).rel

Phasing == CHOOSE p : IsPhasing(p)
Phase(th) == Phasing[th.loc.at]

(* The invariant: who is active tells the phase, and the bootstrapper waits   *)
(* for the handlers of the first two.                                        *)
Awake(th) == th.comp \in {"R", "Y", "W"}
InPhase(ths, b) ==
  /\ ths[b].loc.rel = Script(b).rel
  /\ \A h \in Threads : Awake(ths[h]) =>
       /\ Handles(h, "bootstrap") => h \in ths[b].waiting /\ Phase(ths[b]) = 1
       /\ Handles(h, "finished") => h \in ths[b].waiting /\ Phase(ths[b]) = 2
       /\ Handles(h, "green") => Phase(ths[b]) = 3
  /\ \A m \in Monitors : ths[m].comp # "P" => Phase(ths[b]) \in {2, 3}

(* Without a bootstrapper nothing ever runs. *)
Asleep0(ths) == \A u \in Threads : ~Awake(ths[u])
AllInPhase(ths) ==
  /\ \A b \in Bootstrappers : InPhase(ths, b)
  /\ Bootstrappers = {} => Asleep0(ths)

BInv == PInv /\ StartsInOrder /\ DisabledOnly(threads) /\ AllInPhase(threads)

(* Only a message makes a handler active. *)
LEMMA AwakeBefore ==
  ASSUME PInv, ~IsTarget, DisabledOnly(threads), NEW t \in Running(threads),
         NEW s \in Leaving(threads[t]), NEW ths, NEW freed, Outcome(t, s, ths, freed),
         NEW h \in Threads, Script(h).event = "message", Awake(threads'[h])
  PROVE  /\ Ended(ths)[h].comp # "D"
         /\ Awake(threads[h]) \/ (s.kind \in Sends /\ h \in Receivers(t, s.arg))
<1>1. /\ IInv /\ Structured /\ task \in Tasks /\ t \in Threads
      /\ threads \in [Threads -> ThreadStates] /\ AllPlaced(threads)
      /\ Operated(t, s, ths) /\ threads' = Scheduled(freed, t) /\ freed \in Tables
      /\ ths \in Tables /\ AllPlaced(freed) /\ FreedFrom(ths, freed, h) /\ threads[t].comp = "R"
  BY DEF PInv, IInv, TypeInv, TypeOK, Running, Outcome, GoodTable
<1>2. h \notin Monitors /\ h \notin Terminators
  BY DEF Monitors, Terminators
<1>3. ASSUME Ended(ths)[h].comp = "D" PROVE FALSE
  <2>1. freed[h].comp = "D" /\ Placed(h, freed[h])
    BY <1>1, <1>2, <1>3 DEF FreedFrom, AllPlaced
  <2>2. threads'[h].comp = "D"
    BY <2>1, <1>1, ScheduledDone
  <2> QED
    BY <2>2 DEF Awake
<1>4. ASSUME ~Awake(threads[h]), ~(s.kind \in Sends /\ h \in Receivers(t, s.arg)) PROVE FALSE
  <2>1. threads[h].comp = "D" /\ h # t
    BY <1>1, <1>2, <1>4 DEF Awake, DisabledOnly, AllPlaced, Placed, IsTarget, ThreadStates, CompStates
  <2>2. ths[h].comp = "D"
    <3>1. CASE s.kind \notin Sends
      BY <1>1, <2>1, <3>1, OperatedOthers
    <3>2. CASE s.kind \in Sends
      <4>1. SentFrom(t, s, h, Moved(t, s)[h], ths[h])
        BY <1>1, <3>2, SentChanges DEF Operated
      <4>2. h \notin Triggered(Moved(t, s), Receivers(t, s.arg))
        BY <1>4, <3>2 DEF Triggered
      <4>3. Moved(t, s)[h] = threads[h]
        BY <2>1 DEF Moved
      <4> QED
        BY <4>1, <4>2, <4>3, <2>1, <1>2 DEF SentFrom, FallsAsleep
    <3> QED
      BY <3>1, <3>2
  <2>3. Ended(ths)[h].comp = "D"
    BY <1>1, <2>2 DEF Ended, Terminated, Tables, ThreadStates
  <2> QED
    BY <2>3, <1>3
<1> QED
  BY <1>3, <1>4

(* What becomes of the bootstrapper, after the operation and before. *)
LEMMA BootstrapperAfter ==
  ASSUME PInv, NEW t \in Running(threads), NEW s \in Leaving(threads[t]), NEW ths, NEW freed,
         Outcome(t, s, ths, freed), NEW b \in Bootstrappers
  PROVE  /\ threads'[b].loc = ths[b].loc
         /\ \A h \in Threads : h \in ths[b].waiting /\ Ended(ths)[h].comp # "D" => h \in threads'[b].waiting
         /\ b # t => ths[b].loc = threads[b].loc /\ ths[b].waiting = threads[b].waiting
<1>1. /\ IInv /\ t \in Threads /\ b \in Threads /\ b \notin Monitors /\ Script(b).event # "message"
      /\ Operated(t, s, ths) /\ threads' = Scheduled(freed, t) /\ freed \in Tables
      /\ FreedFrom(ths, freed, b)
  BY DEF PInv, Running, Outcome, Bootstrappers, Monitors
<1>2. threads'[b].loc = freed[b].loc /\ threads'[b].waiting = freed[b].waiting
  BY <1>1, ScheduledChanges
<1>3. ASSUME b # t PROVE ths[b].loc = threads[b].loc /\ ths[b].waiting = threads[b].waiting
  <2>1. CASE s.kind \notin Sends
    BY <1>1, <1>3, <2>1, OperatedOthers
  <2>2. CASE s.kind \in Sends
    <3>1. SentFrom(t, s, b, Moved(t, s)[b], ths[b])
      BY <1>1, <2>2, SentChanges DEF Operated
    <3>2. b \notin Triggered(Moved(t, s), Receivers(t, s.arg))
      BY <1>1 DEF Triggered, Receivers, IsHandlerFor
    <3>3. Moved(t, s)[b] = threads[b]
      BY <1>3 DEF Moved
    <3> QED
      BY <3>1, <3>2, <3>3, <1>3 DEF SentFrom, FallsAsleep
  <2> QED
    BY <2>1, <2>2
<1> QED
  BY <1>1, <1>2, <1>3 DEF FreedFrom

(* A disabled monitor stays so, unless the setup is finished. *)
LEMMA MonitorsStay ==
  ASSUME PInv, NEW t \in Running(threads), NEW s \in Leaving(threads[t]), NEW ths, NEW freed,
         Outcome(t, s, ths, freed), NEW m \in Monitors, threads[m].comp = "P", threads'[m].comp # "P"
  PROVE  s.kind = "broadcastWait" /\ s.arg = BootstrapFinished
<1> SUFFICES ASSUME ~(s.kind = "broadcastWait" /\ s.arg = BootstrapFinished) PROVE FALSE
  OBVIOUS
<1> DEFINE conds == CondsAfter(t, s)
           ended == Ended(ths)
           monitored == Monitored(ended, t, s)
           woken == Woken(ths, t, s)
<1>1. /\ IInv /\ Structured /\ task \in Tasks /\ t \in Threads /\ threads[t].comp = "R"
      /\ m \in Threads /\ m # t /\ Script(m).event = "afterStatement"
      /\ Operated(t, s, ths) /\ threads' = Scheduled(freed, t) /\ freed \in Tables
      /\ GoodTable(ths, conds, t) /\ AllPlaced(ths) /\ ths \in Tables
      /\ MonitorFaults(ended, t, s) = {}
  BY DEF PInv, IInv, TypeInv, Running, Outcome, Monitors, GoodTable
<1>2. ths[m].comp = "P"
  <2>1. CASE s.kind \notin Sends
    BY <1>1, <2>1 DEF Operated
  <2>2. CASE s.kind \in Sends
    <3>1. SentFrom(t, s, m, Moved(t, s)[m], ths[m])
      BY <1>1, <2>2, SentChanges DEF Operated
    <3>2. m \notin Triggered(Moved(t, s), Receivers(t, s.arg))
      BY <1>1 DEF Triggered, Receivers, IsHandlerFor
    <3>3. Moved(t, s)[m] = threads[m]
      BY <1>1 DEF Moved
    <3> QED
      BY <1>1, <3>1, <3>2, <3>3 DEF SentFrom, FallsAsleep
  <2> QED
    BY <2>1, <2>2
<1>3. HasLeaving(ths[m])
  <2>1. Placed(m, ths[m]) /\ ths[m] \in ThreadStates
    BY <1>1 DEF AllPlaced, Tables
  <2>2. ths[m].loc.at = Script(m).entry /\ ths[m].calls = <<>>
    BY <2>1, <1>2 DEF Placed, Quiet
  <2>3. ths[m].loc.rel = Script(m).rel
    BY <2>1, <2>2, <1>1, FramedFacts DEF Placed, ThreadStates
  <2> QED
    BY <2>2, <2>3, <1>1, LeavingIsStep DEF Structured, EndsQuietly
<1>4. ended[m] = ths[m]
  BY <1>1, <1>3 DEF Ended, Terminated
<1>5. PICK satisfied \in SatisfiedSets(woken, conds) : freed = Released(woken, conds, satisfied)
  BY DEF Outcome, Freed
<1>6. ended \in Tables /\ monitored \in Tables /\ woken \in Tables /\ Consistent(ended, conds)
  BY <1>1, GoodStages DEF Outcome
<1>7. monitored[m] = ended[m]
  BY <1>1, <1>2, <1>4 DEF Monitored, MonitorsAfter
<1>8. ended[m].waiting = {}
  BY <1>1, <1>2, <1>4, <1>6 DEF Consistent
<1>9. woken[m].comp = "P"
  BY <1>1, <1>2, <1>4, <1>7, <1>8 DEF Woken, WokenUp
<1>10. freed[m].comp = "P"
  <2>1. m \notin satisfied
    BY <1>9 DEF SatisfiedSets, CondWaiters
  <2> QED
    BY <1>1, <1>5, <1>9, <2>1 DEF Released
<1> HIDE DEF ended, monitored, woken, conds
<1>11. CASE ContinuesAtomically(freed[t])
  BY <1>1, <1>10, <1>11 DEF Scheduled, Tables
<1>12. CASE ~ContinuesAtomically(freed[t])
  <2> DEFINE yielded == Preempted(freed, t)
             next == NextToStep(yielded, t)
  <2>1. threads' = GivenTo(yielded, next)
    BY <1>1, <1>12 DEF Scheduled
  <2>2. yielded[m] = freed[m]
    BY <1>1 DEF Preempted, Tables
  <2>3. next > -1 => yielded[next].comp \in {"R", "Y"}
    BY ChosenDoesNotWait
  <2>4. yielded \in [Threads -> ThreadStates]
    <3>1. freed[t].comp \in CompStates
      BY <1>1 DEF Tables, ThreadStates
    <3> QED
      BY <1>1, <3>1, SetComp DEF Preempted, Tables, CompStates
  <2> HIDE DEF yielded, next
  <2>5. GivenTo(yielded, next)[m] = yielded[m]
    BY <1>1, <1>10, <2>2, <2>3, <2>4 DEF GivenTo
  <2> QED
    BY <1>10, <2>1, <2>2, <2>5
<1> QED
  BY <1>11, <1>12

(* The parts of the hypothesis. *)
LEMMA PhasingFacts ==
  ASSUME task \in Tasks, StartsInOrder
  PROVE  IsPhasing(Phasing) /\ \A a, b \in Bootstrappers : a = b
<1>1. IsPhasing(Phasing)
  BY DEF StartsInOrder, Phasing
<1>2. \A a, b \in Bootstrappers : a = b
  BY TasksAssumption DEF IsTask, Bootstrappers, Threads, Script
<1> QED
  BY <1>1, <1>2

(* The bootstrapper only sends the messages of the system. *)
LEMMA SystemSender ==
  ASSUME PInv, StartsInOrder, NEW t \in Running(threads), NEW s \in Leaving(threads[t]),
         s.kind \in Sends, s.arg.dest = "SYSTEM"
  PROVE  t \in Bootstrappers
<1> DEFINE r == threads[t].loc.rel
<1>1. /\ IInv /\ Structured /\ task \in Tasks /\ t \in Threads
      /\ threads[t] \in ThreadStates /\ Placed(t, threads[t])
  BY DEF PInv, IInv, TypeInv, TypeOK, Running, AllPlaced
<1>2. r \in DOMAIN task.relations /\ threads[t].loc.at \in DOMAIN task.relations[r]
      /\ s \in task.relations[r][threads[t].loc.at]
  BY <1>1, StepFacts
<1>3. PICK b \in Bootstrappers : r = Script(b).rel
  BY <1>2 DEF StartsInOrder
<1>4. r \notin DOMAIN task.methods
  BY <1>1, <1>3, NestingFacts DEF Structured, IsNesting, Bootstrappers
<1>5. r = Script(t).rel
  BY <1>1, <1>4, FramedFacts DEF Placed, ThreadStates
<1> QED
  BY <1>1, <1>3, <1>5 DEF StartsInOrder, Bootstrappers

(* Handlers of the system listen to the messages of the system. *)
LEMMA SystemReceiver ==
  ASSUME NEW t, NEW s, NEW h \in Receivers(t, s.arg), NEW id, Handles(h, id)
  PROVE  s.arg.id = id /\ s.arg.dest = "SYSTEM"
BY DEF Receivers, IsHandlerFor, Handles

(* Steps of the others do not disturb the bootstrapper. *)
LEMMA OthersInPhase ==
  ASSUME BInv, NEW t \in Running(threads), NEW s \in Leaving(threads[t]), ~IsTarget,
         NEW ths, NEW freed, Outcome(t, s, ths, freed), NEW b \in Bootstrappers, b # t
  PROVE  InPhase(threads', b)
<1>1. PInv /\ StartsInOrder /\ DisabledOnly(threads) /\ task \in Tasks /\ InPhase(threads, b)
      /\ t \in Threads /\ b \in Threads
  BY DEF BInv, AllInPhase, PInv, IInv, TypeInv, Running, Bootstrappers
<1>2. threads'[b].loc = threads[b].loc /\ ths[b].waiting = threads[b].waiting
      /\ \A h \in Threads : h \in ths[b].waiting /\ Ended(ths)[h].comp # "D" => h \in threads'[b].waiting
  BY <1>1, BootstrapperAfter
<1>3. s.kind \in Sends => s.arg.dest # "SYSTEM"
  BY <1>1, PhasingFacts, SystemSender
<1>4. ASSUME NEW h \in Threads, NEW id, Handles(h, id), Awake(threads'[h])
      PROVE  Awake(threads[h]) /\ Ended(ths)[h].comp # "D"
  BY <1>1, <1>3, <1>4, AwakeBefore, SystemReceiver DEF Handles
<1>5. ASSUME NEW m \in Monitors, threads'[m].comp # "P" PROVE threads[m].comp # "P"
  <2>1. s.kind = "broadcastWait" /\ s.arg = BootstrapFinished => s.arg.dest = "SYSTEM" /\ s.kind \in Sends
    BY DEF BootstrapFinished, Sends
  <2> QED
    BY <1>1, <1>3, <1>5, <2>1, MonitorsStay
<1>6. Phase(threads'[b]) = Phase(threads[b]) /\ threads'[b].loc.rel = Script(b).rel
  BY <1>1, <1>2 DEF Phase, InPhase
<1> QED
  BY <1>1, <1>2, <1>4, <1>5, <1>6 DEF InPhase

(* A step of the bootstrapper itself leads to the next phase, or stays. *)
LEMMA BootstrapperMoves ==
  ASSUME PInv, StartsInOrder, NEW t \in Running(threads), NEW s \in Leaving(threads[t]),
         NEW ths, NEW freed, Outcome(t, s, ths, freed), t \in Bootstrappers,
         threads[t].loc.rel = Script(t).rel
  PROVE  LET p == Phase(threads[t])
             q == Phase(threads'[t])
         IN /\ threads'[t].loc.rel = Script(t).rel
            /\ s.kind \notin Sends => q = p
            /\ s.kind \in Sends =>
                 \/ s.kind = "broadcastWait" /\ s.arg = System("bootstrap") /\ p = 0 /\ q = 1
                 \/ s.kind = "broadcastWait" /\ s.arg = System("finished") /\ p = 1 /\ q = 2
                 \/ s.arg = System("green") /\ p = 2 /\ q = 3
            /\ s.kind = "broadcastWait" => \A h \in Receivers(t, s.arg) : h \in ths[t].waiting
<1> DEFINE r == threads[t].loc.rel
           l == threads[t].loc.at
<1>1. /\ IInv /\ Structured /\ task \in Tasks /\ t \in Threads /\ Operated(t, s, ths)
      /\ threads \in [Threads -> ThreadStates] /\ Script(t).event # "message"
  BY DEF PInv, IInv, TypeInv, TypeOK, Running, Outcome, Bootstrappers
<1>2. /\ r \in DOMAIN task.relations /\ l \in DOMAIN task.relations[r] /\ s \in task.relations[r][l]
      /\ Keeps(Nesting, r, l, s)
      /\ [threads[t].loc EXCEPT !.at = s.to] = [rel |-> r, at |-> s.to]
      /\ threads[t].loc = [rel |-> r, at |-> l]
  BY <1>1, StepFacts
<1>3. IsPhasing(Phasing)
  BY <1>1, PhasingFacts
<1>4. s.kind \notin {"call", "return"}
  <2>1. r \notin DOMAIN task.methods
    BY <1>1, NestingFacts DEF Structured, IsNesting
  <2> QED
    BY <1>2, <1>3, <2>1 DEF IsPhasing, Keeps
<1>5. ths[t].loc = [rel |-> r, at |-> s.to]
      /\ (s.kind = "broadcastWait" => \A h \in Receivers(t, s.arg) : h \in ths[t].waiting)
  <2>1. CASE s.kind \notin Sends
    BY <1>1, <1>2, <1>4, <2>1 DEF Operated, SteppedBy, Sends
  <2>2. CASE s.kind \in Sends
    <3>1. SentFrom(t, s, t, Moved(t, s)[t], ths[t])
      BY <1>1, <2>2, SentChanges DEF Operated
    <3>2. t \notin Triggered(Moved(t, s), Receivers(t, s.arg))
      BY <1>1 DEF Triggered, Receivers, IsHandlerFor
    <3>3. Moved(t, s)[t].loc = [threads[t].loc EXCEPT !.at = s.to]
      BY <1>1 DEF Moved, ThreadStates
    <3> QED
      BY <1>2, <3>1, <3>2, <3>3 DEF SentFrom, FallsAsleep
  <2> QED
    BY <2>1, <2>2
<1>6. threads'[t].loc = [rel |-> r, at |-> s.to]
  BY <1>5, BootstrapperAfter
<1>7. Phase(threads[t]) = Phasing[l] /\ Phase(threads'[t]) = Phasing[s.to]
  BY <1>2, <1>6 DEF Phase
<1> QED
  BY <1>2, <1>3, <1>5, <1>6, <1>7 DEF IsPhasing

LEMMA BootstrapperInPhase ==
  ASSUME BInv, NEW t \in Running(threads), NEW s \in Leaving(threads[t]), ~IsTarget,
         NEW ths, NEW freed, Outcome(t, s, ths, freed), t \in Bootstrappers
  PROVE  InPhase(threads', t)
<1> DEFINE p == Phase(threads[t])
           q == Phase(threads'[t])
<1>1. /\ PInv /\ StartsInOrder /\ DisabledOnly(threads) /\ InPhase(threads, t) /\ IInv
      /\ t \in Threads /\ threads[t].waiting = {}
  BY MovedFacts DEF BInv, AllInPhase, PInv, Running
<1>2. /\ threads'[t].loc.rel = Script(t).rel
      /\ s.kind \notin Sends => q = p
      /\ s.kind \in Sends =>
           \/ s.kind = "broadcastWait" /\ s.arg = System("bootstrap") /\ p = 0 /\ q = 1
           \/ s.kind = "broadcastWait" /\ s.arg = System("finished") /\ p = 1 /\ q = 2
           \/ s.arg = System("green") /\ p = 2 /\ q = 3
      /\ s.kind = "broadcastWait" => \A h \in Receivers(t, s.arg) : h \in ths[t].waiting
  BY <1>1, BootstrapperMoves DEF InPhase
<1>3. \A h \in Threads : h \in ths[t].waiting /\ Ended(ths)[h].comp # "D" => h \in threads'[t].waiting
  BY BootstrapperAfter, <1>1
<1> HIDE DEF p, q
<1>4. ASSUME NEW h \in Threads, NEW id, Handles(h, id), Awake(threads'[h])
      PROVE  /\ Ended(ths)[h].comp # "D"
             /\ \/ Awake(threads[h])
                \/ s.kind \in Sends /\ h \in Receivers(t, s.arg) /\ s.arg.id = id
  <2>1. Script(h).event = "message"
    BY <1>4 DEF Handles
  <2>2. /\ Ended(ths)[h].comp # "D"
        /\ Awake(threads[h]) \/ (s.kind \in Sends /\ h \in Receivers(t, s.arg))
    BY <1>1, <1>4, <2>1, AwakeBefore
  <2>3. h \in Receivers(t, s.arg) => s.arg.id = id
    BY <1>4, SystemReceiver
  <2> QED
    BY <2>2, <2>3
<1>5. ASSUME NEW h \in Threads, Awake(threads'[h]), Handles(h, "bootstrap")
      PROVE  h \in threads'[t].waiting /\ q = 1
  BY <1>1, <1>2, <1>3, <1>4, <1>5 DEF InPhase, System
<1>6. ASSUME NEW h \in Threads, Awake(threads'[h]), Handles(h, "finished")
      PROVE  h \in threads'[t].waiting /\ q = 2
  BY <1>1, <1>2, <1>3, <1>4, <1>6 DEF InPhase, System
<1>7. ASSUME NEW h \in Threads, Awake(threads'[h]), Handles(h, "green")
      PROVE  q = 3
  BY <1>1, <1>2, <1>4, <1>7 DEF InPhase, System, p
<1>8. ASSUME NEW m \in Monitors, threads'[m].comp # "P"
      PROVE  q \in {2, 3}
  <2>1. CASE threads[m].comp # "P"
    BY <1>1, <1>2, <2>1 DEF InPhase, p
  <2>2. CASE threads[m].comp = "P"
    <3>1. s.kind = "broadcastWait" /\ s.arg = BootstrapFinished
      BY <1>1, <1>8, <2>2, MonitorsStay
    <3> QED
      BY <1>2, <3>1 DEF BootstrapFinished, System, Sends
  <2> QED
    BY <2>1, <2>2
<1> QED
  BY <1>2, <1>5, <1>6, <1>7, <1>8 DEF InPhase, q

-----------------------------------------------------------------------------
(* The theorem.                                                              *)

LEMMA SamePhases ==
  ASSUME task' = task, StartsInOrder, NEW ths, ths = threads', DisabledOnly(ths), AllInPhase(ths)
  PROVE  StartsInOrder' /\ DisabledOnly(threads)' /\ AllInPhase(threads)'
<1>1. Phasing' = Phasing
  BY DEF Phasing, IsPhasing, Bootstrappers, Threads, Script, System, Sends
<1>2. (\E p : IsPhasing(p))'
  <2>1. PICK p : IsPhasing(p)
    BY DEF StartsInOrder
  <2>2. IsPhasing(p)'
    BY <2>1 DEF IsPhasing, Bootstrappers, Threads, Script, System, Sends
  <2> QED
    BY <2>2
<1>3. StartsInOrder'
  BY <1>2 DEF StartsInOrder, Bootstrappers, Threads, Script, Sends
<1>4. DisabledOnly(threads)'
  BY DEF DisabledOnly, Terminators, Monitors, Threads, Script
<1>5. AllInPhase(threads)'
  BY <1>1 DEF AllInPhase, InPhase, Asleep0, Awake, Phase, Handles, Bootstrappers, Monitors, Threads,
              Script
<1> QED
  BY <1>3, <1>4, <1>5

LEMMA StepBInv ==
  ASSUME BInv, PInv', NEW t \in Running(threads), NEW s \in Leaving(threads[t]), Step(t, s)
  PROVE  BInv'
<1>1. /\ PInv /\ IInv /\ ~IsTarget /\ StartsInOrder /\ DisabledOnly(threads) /\ AllInPhase(threads)
      /\ t \in Threads
  BY StepTable DEF BInv, PInv, Running
<1>2. CASE UNCHANGED <<task, threads>>
  BY <1>1, <1>2, SamePhases DEF BInv
<1>3. CASE ~UNCHANGED <<task, threads>>
  <2>1. PICK ths, freed : Outcome(t, s, ths, freed)
    BY <1>1, <1>3, StepOutcome
  <2>2. DisabledOnly(threads') /\ task' = task
    BY <1>1, <2>1, DisabledStep DEF Outcome
  <2>3. Bootstrappers # {}
    BY <1>1 DEF AllInPhase, Asleep0, Awake, Running
  <2>4. AllInPhase(threads')
    BY <1>1, <2>1, <2>3, OthersInPhase, BootstrapperInPhase DEF AllInPhase
  <2> QED
    BY <1>1, <2>2, <2>4, SamePhases DEF BInv
<1> QED
  BY <1>2, <1>3

(* Setup begins when all bootstrap handlers are done, and the program is      *)
(* started when all setup handlers are.                                      *)
THEOREM PhasesKept == Spec /\ Structured /\ StartsInOrder => []PhasesInOrder
<1>1. Init /\ PInv /\ StartsInOrder => BInv
  <2> SUFFICES ASSUME Init, PInv, StartsInOrder PROVE BInv
    OBVIOUS
  <2>1. DisabledOnly(threads)
    BY DEF Init, InitialThread, DisabledOnly, Terminators, Monitors
  <2>2. AllInPhase(threads)
    BY DEF Init, InitialThread, AllInPhase, InPhase, Asleep0, Awake, Handles, Bootstrappers, Monitors
  <2> QED
    BY <2>1, <2>2 DEF BInv
<1>2. BInv /\ PInv' /\ [Next]_vars => BInv'
  <2> SUFFICES ASSUME BInv, PInv', [Next]_vars PROVE BInv'
    OBVIOUS
  <2>1. CASE Next
    BY <2>1, StepBInv DEF Next
  <2>2. CASE UNCHANGED vars
    BY <2>2, SamePhases DEF vars, BInv
  <2> QED
    BY <2>1, <2>2
<1>3. BInv => PhasesInOrder
  <2> SUFFICES ASSUME BInv, NEW t \in Threads, Active(t)
               PROVE  /\ Handles(t, "bootstrap") => \A u \in Threads : Active(u) =>
                           ~Handles(u, "finished") /\ ~Handles(u, "green") /\ u \notin Monitors
                      /\ Handles(t, "finished") => \A u \in Threads : Active(u) =>
                           ~Handles(u, "green")
    BY DEF PhasesInOrder
  <2>1. PICK b \in Bootstrappers : InPhase(threads, b)
    BY DEF BInv, AllInPhase, Asleep0, Awake, Active
  <2> QED
    BY <2>1 DEF InPhase, Awake, Active, Handles
<1> QED
  BY <1>1, <1>2, <1>3, PlacedInvariance, PTL DEF Spec

-----------------------------------------------------------------------------
(* Programs as they are built.                                               *)

LEMMA SameThreads ==
  ASSUME task \in Tasks
  PROVE  /\ ThreadsOf(task) = Threads /\ MonitorsOf(task) = Monitors
         /\ TerminatorsOf(task) = Terminators /\ BootstrappersOf(task) = Bootstrappers
<1>1. DOMAIN task.script = 0 .. task.n - 1
  BY TasksAssumption DEF IsTask
<1> QED
  BY <1>1 DEF ThreadsOf, MonitorsOf, TerminatorsOf, BootstrappersOf, Threads, Script, Monitors,
              Terminators, Bootstrappers

(* A nesting is known at the locations of the program; elsewhere it is 0. *)
LEMMA NestingBuilt ==
  ASSUME task \in Tasks, OwnEntryAndExit(task), NEW depth, SectionsNest(task, depth)
  PROVE  Nested
<1> DEFINE rels == DOMAIN task.relations
           d == [r \in rels |-> [l \in Int |-> IF depth[r][l] \in Nat THEN depth[r][l] ELSE 0]]
<1>1. d \in [rels -> [Int -> Nat]]
  OBVIOUS
<1>2. /\ \A t \in Threads : IsScript(task, Script(t))
      /\ \A r \in rels : \A l \in DOMAIN task.relations[r] :
           \A s \in task.relations[r][l] : IsTransition(task, s)
      /\ \A m \in DOMAIN task.methods : m \in rels /\ task.methods[m].entry \in Int
  BY TaskType
<1>3. \A r \in rels : \A l \in Int : depth[r][l] \in Nat => d[r][l] = depth[r][l]
  OBVIOUS
<1>4. \A t \in Threads : /\ Script(t).rel \notin DOMAIN task.methods
                         /\ d[Script(t).rel][Script(t).entry] = 0
  BY <1>2, <1>3, SameThreads DEF SectionsNest, IsScript, Script
<1>5. \A m \in DOMAIN task.methods : /\ d[m][task.methods[m].entry] = 0
                                     /\ HasStep(m, task.methods[m].entry)
  BY <1>2, <1>3 DEF SectionsNest, OwnEntryAndExit, GoesOn, HasStep
<1> HIDE DEF d
<1>6. ASSUME NEW r \in rels, NEW l \in DOMAIN task.relations[r], NEW s \in task.relations[r][l]
      PROVE  Keeps(d, r, l, s)
  <2>1. {depth[r][l], depth[r][s.to]} \subseteq Nat
    BY DEF SectionsNest
  <2>2. s.to \in Int /\ d[r][s.to] = depth[r][s.to]
    BY <1>2, <1>3, <2>1 DEF IsTransition
  <2>3. l \in Int /\ d[r][l] = depth[r][l]
    BY <1>3, <2>1 DEF OwnEntryAndExit
  <2> QED
    BY <2>1, <2>2, <2>3 DEF SectionsNest, Keeps, GoesOn, HasStep
<1> QED
  BY <1>1, <1>4, <1>5, <1>6 DEF Nested, IsNesting

LEMMA PhasingBuilt ==
  ASSUME task \in Tasks, OwnEntryAndExit(task), NEW phase, PhasesFollow(task, phase)
  PROVE  StartsInOrder
<1> DEFINE p == [l \in Int |-> IF phase[l] \in 0 .. 3 THEN phase[l] ELSE 0]
<1>1. p \in [Int -> 0 .. 3]
  OBVIOUS
<1>2. /\ \A t \in Threads : IsScript(task, Script(t))
      /\ \A r \in DOMAIN task.relations : \A l \in DOMAIN task.relations[r] :
           \A s \in task.relations[r][l] : IsTransition(task, s)
      /\ ThreadsOf(task) = Threads /\ BootstrappersOf(task) = Bootstrappers
  BY TaskType, SameThreads
<1>3. \A l \in Int : phase[l] \in 0 .. 3 => p[l] = phase[l]
  OBVIOUS
<1> HIDE DEF p
<1>4. ASSUME NEW b \in Bootstrappers PROVE p[Script(b).entry] = 0
  <2>1. Script(b).entry \in Int
    BY <1>2 DEF IsScript, Bootstrappers
  <2> QED
    BY <1>2, <1>3, <2>1 DEF PhasesFollow, Script
<1>5. ASSUME NEW b \in Bootstrappers, NEW l \in DOMAIN task.relations[Script(b).rel],
             NEW s \in task.relations[Script(b).rel][l]
      PROVE  /\ s.kind # "call"
             /\ s.kind \notin Sends => p[s.to] = p[l]
             /\ s.kind \in Sends =>
                  \/ s.kind = "broadcastWait" /\ s.arg = System("bootstrap") /\ p[l] = 0 /\ p[s.to] = 1
                  \/ s.kind = "broadcastWait" /\ s.arg = System("finished") /\ p[l] = 1 /\ p[s.to] = 2
                  \/ s.arg = System("green") /\ p[l] = 2 /\ p[s.to] = 3
  <2> DEFINE names == <<"bootstrap", "finished", "green">>
  <2>1. Script(b).rel \in DOMAIN task.relations
    BY <1>2 DEF IsScript, Bootstrappers
  <2>2. l \in Int /\ s.to \in Int
    BY <1>2, <2>1 DEF OwnEntryAndExit, IsTransition
  <2>3. /\ {phase[l], phase[s.to]} \subseteq 0 .. 3
        /\ s.kind # "call"
        /\ phase[s.to] = IF IsSend(s) THEN phase[l] + 1 ELSE phase[l]
        /\ IsSend(s) => /\ phase[l] < 3 /\ s.arg = SystemMessage(names[phase[l] + 1])
                        /\ phase[l] < 2 => s.kind = "broadcastWait"
    BY <1>2 DEF PhasesFollow, Script
  <2>4. p[l] = phase[l] /\ p[s.to] = phase[s.to]
    BY <1>3, <2>2, <2>3
  <2>5. IsSend(s) <=> s.kind \in Sends
    BY DEF IsSend, Sends
  <2>6. names[1] = "bootstrap" /\ names[2] = "finished" /\ names[3] = "green"
    OBVIOUS
  <2>7. phase[l] \in {0, 1, 2, 3}
    BY <2>3
  <2> HIDE DEF names
  <2>8. CASE s.kind \notin Sends
    BY <2>3, <2>4, <2>5, <2>8
  <2>9. CASE s.kind \in Sends
    <3>1. phase[l] \in {0, 1, 2}
      BY <2>3, <2>5, <2>7, <2>9
    <3>2. CASE phase[l] = 0
      BY <2>3, <2>4, <2>5, <2>6, <2>9, <3>2 DEF SystemMessage, System
    <3>3. CASE phase[l] = 1
      BY <2>3, <2>4, <2>5, <2>6, <2>9, <3>3 DEF SystemMessage, System
    <3>4. CASE phase[l] = 2
      BY <2>3, <2>4, <2>5, <2>6, <2>9, <3>4 DEF SystemMessage, System
    <3> QED
      BY <3>1, <3>2, <3>3, <3>4
  <2> QED
    BY <2>3, <2>8, <2>9
<1>6. IsPhasing(p)
  BY <1>1, <1>4, <1>5 DEF IsPhasing
<1>7. \A r \in DOMAIN task.relations :
        (\A b \in Bootstrappers : r # Script(b).rel) =>
          \A l \in DOMAIN task.relations[r] : \A s \in task.relations[r][l] :
            s.kind \in Sends => s.arg.dest # "SYSTEM"
  BY <1>2 DEF PhasesFollow, IsSend, Sends, Script
<1>8. \A b \in Bootstrappers : \A t \in Threads \ {b} : Script(t).rel # Script(b).rel
  BY <1>2 DEF PhasesFollow, Script
<1> QED
  BY <1>6, <1>7, <1>8 DEF StartsInOrder

(* Programs that are built well satisfy what the theorems suppose. *)
LEMMA WellBuiltMeans ==
  ASSUME task \in Tasks, WellBuilt(task)
  PROVE  Structured /\ SoleSends /\ Observable /\ Assembled /\ EndsAlone /\ StartsInOrder
<1>1. PICK depth, phase : WellBuiltBy(task, depth, phase)
  BY DEF WellBuilt
<1>2. /\ OwnEntryAndExit(task) /\ StepsApart(task) /\ SectionsNest(task, depth)
      /\ RestartablePlain(task) /\ Cast(task) /\ QuietCast(task) /\ PhasesFollow(task, phase)
  BY <1>1 DEF WellBuiltBy
<1>3. /\ ThreadsOf(task) = Threads /\ MonitorsOf(task) = Monitors
      /\ TerminatorsOf(task) = Terminators /\ BootstrappersOf(task) = Bootstrappers
  BY SameThreads
<1>4. \A t \in Threads : Script(t).rel \in DOMAIN task.relations
  BY TaskType DEF IsScript
<1>5. EndsQuietly
  BY <1>2, <1>3 DEF OwnEntryAndExit, GoesOn, EndsQuietly, HasStep, Script
<1>6. Nested /\ StartsInOrder
  BY <1>2, NestingBuilt, PhasingBuilt
<1>7. PlainRestarts
  BY <1>2, <1>3 DEF RestartablePlain, PlainRestarts, Restarting, Script
<1>8. SoleSends
  BY <1>2 DEF StepsApart, IsSend, SoleSends, Sends
<1>9. Observable
  <2>1. OneMonitor
    BY <1>2, <1>3 DEF Cast, OneMonitor
  <2>2. FreshEntries
    BY <1>2, <1>3 DEF OwnEntryAndExit, FreshEntries, Script
  <2>3. AlikeSteps
    BY <1>2 DEF StepsApart, AlikeSteps
  <2> QED
    BY <2>1, <2>2, <2>3 DEF Observable
<1>10. Assembled
  <2>1. \A t \in Threads : Script(t).event = "singularity" => ~Script(t).observer
    BY <1>2, <1>3 DEF Cast, Bootstrappers, Script
  <2>2. \A t, u \in Threads :
          Script(t).event = "termination" /\ Script(u).event = "termination" => t = u
    BY <1>2, <1>3 DEF Cast, Terminators
  <2>3. \A r \in DOMAIN task.relations : \A l \in DOMAIN task.relations[r] :
          \A s \in task.relations[r][l] : s.kind \in Sends => ~Misaddressed(s.arg)
    BY <1>2, <1>3 DEF Cast, IsSend, Sends, Misaddressed, Script
  <2> QED
    BY <2>1, <2>2, <2>3 DEF Assembled
<1>11. EndsAlone
  <2>1. \A t \in Monitors \cup Terminators : Silent(Script(t).rel)
    BY <1>2, <1>3 DEF QuietCast, IsSend, Silent, SendsNothing, Sends, Script
  <2>2. \A m \in Monitors : ~Script(m).program
    BY <1>2, <1>3 DEF QuietCast, Script
  <2> QED
    BY <2>1, <2>2 DEF EndsAlone
<1> QED
  BY <1>5, <1>6, <1>7, <1>8, <1>9, <1>10, <1>11 DEF Structured

(* For a program that is built well, and any number of its scripts, messages  *)
(* and methods: no wake-up is lost, phases and terminator keep their order,   *)
(* and only the unimplemented case of two scripts that wait for time together *)
(* makes an internal check fail.                                             *)
THEOREM WellBuiltPrograms ==
  Spec /\ WellBuilt(task) =>
    [](NoLostWakeUp /\ TerminatorLast /\ PhasesInOrder /\ thrown \subseteq {Acceleration})
<1>1. Init /\ WellBuilt(task) => Structured /\ Assembled /\ EndsAlone /\ StartsInOrder
  BY WellBuiltMeans DEF Init
<1>2. Structured => EndsQuietly
  BY DEF Structured
<1> QED
  BY <1>1, <1>2, NoWakeUpLost, TerminatorRunsLast, PhasesKept, OnlyTimeFails, PTL DEF Spec

(* And each step of it does what the scheduler promises: it preempts no      *)
(* atomic section, keeps senders waiting, starts handlers and monitors.      *)
THEOREM WellBuiltSteps ==
  Spec /\ WellBuilt(task) =>
    AtomicNotPreempted /\ WaitsUntilDone /\ BroadcastReachesAll /\ MonitorsActivated
<1>1. Init /\ WellBuilt(task) => Structured /\ SoleSends /\ Observable
  BY WellBuiltMeans DEF Init
<1> QED
  BY <1>1, AtomicSections, SendersWait, BroadcastsReach, MonitorsSeeSteps, PTL DEF Spec
=============================================================================
