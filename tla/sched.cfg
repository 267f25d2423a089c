SPECIFICATION FairSpec
CONSTANT Tasks <- SchedulerTasks
CHECK_DEADLOCK FALSE
INVARIANTS TypeOK ScheduleChecked NoLostWakeUp NoInternalError ObserversFirst TerminatorLast PhasesInOrder
PROPERTIES WaitsUntilDone BroadcastReachesAll AtomicNotPreempted MonitorsActivated EndingTerminates
