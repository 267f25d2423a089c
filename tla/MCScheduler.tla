------------------------------ MODULE MCScheduler ------------------------------
(* Programs for the model checking of ControlScheduler. *)
EXTENDS BuiltPrograms

Op(kind)             == [kind |-> kind, arg |-> "-"]
Send(kind, id, dest) == [kind |-> kind, arg |-> [id |-> id, dest |-> dest]]
User(kind, id)       == Send(kind, id, "USER")

St    == Op("statement")
Eps   == Op("epsilon")
Wt    == Op("waitSeconds")
Method == 9                      \* the relation of the only method
CallM == [kind |-> "call", arg |-> Method]
Atomic(body) == <<Op("beginAtomic")>> \o body \o <<Op("endAtomic")>>

(* Relations are numbered; the locations of relation r start at 100 * r.      *)
Chain(r, ops) ==
  [l \in 100 * r .. 100 * r + Len(ops) - 1 |->
     {[kind |-> ops[l - 100 * r + 1].kind, arg |-> ops[l - 100 * r + 1].arg, to |-> l + 1]}]

(* Every relation of a script starts and ends with an epsilon transition, that *)
(* of a method starts with one and ends with the return.                      *)
Line(r, ops)       == Chain(r, <<Eps>> \o ops \o <<Eps>>)
MethodLine(r, ops) == Chain(r, <<Eps>> \o ops \o <<Op("return")>>)

(* A relation that repeats its operations forever.                            *)
Forever(r, ops) ==
  [Chain(r, <<Eps>> \o ops) EXCEPT ![100 * r + Len(ops)] =
     {[s EXCEPT !.to = 100 * r + 1] : s \in @}]

(* Scripts without their relation. *)
NoMsg == [id |-> "none", ns |-> "none"]
Handler(actor, id, ns) ==
  [event |-> "message", msg |-> [id |-> id, ns |-> ns], actor |-> actor,
   observer |-> FALSE, program |-> TRUE, restart |-> FALSE]
Restartable(handler) == [handler EXCEPT !.restart = TRUE]
Monitor(actor) ==
  [event |-> "afterStatement", msg |-> NoMsg, actor |-> actor, observer |-> TRUE,
   program |-> FALSE, restart |-> FALSE]

(* Actors.defaultBoostraper and Actors.defaultTerminator *)
BootScript ==
  [event |-> "singularity", msg |-> NoMsg, actor |-> "__BOOT", observer |-> FALSE,
   program |-> FALSE, restart |-> FALSE]
BootOps == <<St, Send("broadcastWait", "bootstrap", "SYSTEM"),
             Send("broadcastWait", "finished", "SYSTEM"), Send("broadcast", "green", "SYSTEM")>>
TerminatorScript ==
  [event |-> "termination", msg |-> NoMsg, actor |-> "__TERMINATOR", observer |-> FALSE,
   program |-> TRUE, restart |-> FALSE]

(* A program: the scripts of its actors, then bootstrapper and terminator, and *)
(* one method.                                                                *)
Program(scripts, relations, method, atomic) ==
  LET k == Len(scripts)
      WithRelation(sc, t) ==
        [event |-> sc.event, msg |-> sc.msg, actor |-> sc.actor, observer |-> sc.observer,
         program |-> sc.program, restart |-> sc.restart, rel |-> t, entry |-> 100 * t]
  IN [n |-> k + 2,
      script |-> [t \in 0 .. k + 1 |->
         WithRelation(IF t < k THEN scripts[t + 1]
                      ELSE IF t = k THEN BootScript ELSE TerminatorScript, t)],
      relations |-> [r \in (0 .. k + 1) \cup {Method} |->
         IF r < k THEN relations[r + 1]
         ELSE IF r = k THEN Line(r, BootOps)
         ELSE IF r = k + 1 THEN Line(r, <<Op("terminate")>>)
         ELSE MethodLine(r, method)],
      methods |-> [m \in {Method} |-> [entry |-> 100 * m, atomic |-> atomic]]]

Linear(scripts, bodies) ==
  Program(scripts, [i \in DOMAIN bodies |-> Line(i - 1, bodies[i])], <<St>>, FALSE)

-----------------------------------------------------------------------------
(* Families of programs.                                                     *)

Bodies(menu, n) == UNION {[1 .. k -> menu] : k \in 1 .. n}
Waits(body) == \E i \in DOMAIN body : body[i] = Wt
MessageSends(ids) == {User(kind, id) : kind \in {"broadcast", "broadcastWait"}, id \in ids}

(* One script that is started by the green flag, and two message handlers    *)
(* that trigger each other and wait for each other in all ways.              *)
MessageBodies ==
  {p \in Bodies({St, Wt} \cup MessageSends({"A", "B"}), 2)
           \X Bodies({St, Wt} \cup MessageSends({"B"}), 1)
           \X Bodies({St, Wt} \cup MessageSends({"A", "B"}), 1) :
     Cardinality({i \in 1 .. 3 : Waits(p[i])}) <= 1}
MessageTasks ==
  {Linear(<<Handler("u", "green", "SYSTEM"), Handler("a", "A", "none"), Handler("b", "B", "none")>>, p) :
     p \in MessageBodies}

(* Atomic blocks and atomic methods of three threads.                        *)
AtomicBodies ==
  Bodies({St, Wt, CallM, User("broadcast", "A"), User("broadcastWait", "A")}, 2)
    \X {<<St, St>>, <<CallM>>, Atomic(<<St>>)}
    \X {<<St>>, <<CallM>>, Atomic(<<St>>)}
    \X {<<St>>, <<User("broadcast", "A")>>}
    \X BOOLEAN
AtomicTasks ==
  {Program(<<Handler("p", "green", "SYSTEM"), Handler("p", "green", "SYSTEM"), Handler("p", "A", "none")>>,
             <<Line(0, Atomic(p[1])), Line(1, p[2]), Line(2, p[3])>>, p[4], p[5]) :
     p \in AtomicBodies}

(* Bootstrap, setup and startup handlers, and a monitor.                     *)
PhaseBodies ==
  Bodies({St, User("broadcast", "A"), User("broadcastWait", "A"), Wt}, 2)
    \X {<<St>>, <<User("broadcastWait", "A")>>, <<St, St, St>>}
    \X {<<St>>, <<St, St, St>>}
    \X {<<St>>, <<Op("stopAll"), St>>, <<Wt>>, <<St, Op("signal"), St>>}
    \X {<<St>>}
PhaseTasks ==
  {Linear(<<Handler("p", "bootstrap", "SYSTEM"), Handler("p", "finished", "SYSTEM"), Monitor("m"),
              Handler("p", "green", "SYSTEM"), Handler("p", "A", "none")>>, p) :
     p \in PhaseBodies}

(* Sections of a program that exclude others: atomic ones, and the phases.   *)
SectionTasks == AtomicTasks \cup PhaseTasks

(* A handler with the attribute restart, started again and again.            *)
RestartBodies ==
  Bodies({St} \cup MessageSends({"A", "B"}), 2)
    \X Bodies({St, User("broadcast", "A"), User("broadcast", "B")}, 3)
    \X Bodies({St} \cup MessageSends({"A"}), 2)
RestartTasks ==
  {Linear(<<Handler("u", "green", "SYSTEM"), Restartable(Handler("a", "A", "none")), Handler("b", "B", "none")>>, p) :
     p \in RestartBodies}

(* Messages, with and without the attribute restart.                         *)
MessagingTasks == MessageTasks \cup RestartTasks

(* Programs without loops: messages are sent to later handlers only.  With   *)
(* and without a monitor, as its presence changes the parity of the number of*)
(* threads.                                                                  *)
EndingBodies ==
  {p \in Bodies({St, Wt} \cup MessageSends({"A", "B"}), 2)
           \X Bodies({St, Wt} \cup MessageSends({"B"}), 2)
           \X Bodies({St, Wt}, 1) :
     Cardinality({i \in 1 .. 3 : Waits(p[i])}) <= 1}
EndingTasks ==
  {Linear(<<Handler("u", "green", "SYSTEM"), Handler("a", "A", "none"), Handler("b", "B", "none")>>, p) :
     p \in EndingBodies}
  \cup
  {Linear(<<Handler("u", "green", "SYSTEM"), Handler("a", "A", "none"), Handler("b", "B", "none"),
              Monitor("m")>>, p \o <<<<St>>>>) : p \in EndingBodies}

SchedulerTasks == MessagingTasks \cup SectionTasks \cup EndingTasks

-----------------------------------------------------------------------------
(* The programs are such as the theorems are about: each relation is a line,  *)
(* so that what came before a location has a lower number.                   *)
Before(k, r, l, kinds) ==
  Cardinality({i \in DOMAIN k.relations[r] : i < l /\ \E s \in k.relations[r][i] : s.kind \in kinds})
LocationsOf(k, r) ==
  DOMAIN k.relations[r] \cup UNION {{s.to : s \in k.relations[r][l]} : l \in DOMAIN k.relations[r]}
Depths(k) ==
  [r \in DOMAIN k.relations |->
     [l \in LocationsOf(k, r) |-> Before(k, r, l, {"beginAtomic"}) - Before(k, r, l, {"endAtomic"})]]
PhaseNumbers(k) ==
  LET r == k.script[CHOOSE b \in BootstrappersOf(k) : TRUE].rel
  IN [l \in LocationsOf(k, r) |-> Before(k, r, l, {"broadcast", "broadcastWait"})]

ASSUME ProgramsAreWellBuilt ==
  \A k \in SchedulerTasks : WellBuiltBy(k, Depths(k), PhaseNumbers(k))

-----------------------------------------------------------------------------
(* Liveness of the programs that end; others may send messages forever.      *)

(* Such a program comes to its end: no ready thread is forgotten by the      *)
(* search for the next one to run (getNextYieldThreadFrom), nobody waits     *)
(* forever, and the terminator is started (awaikConditionCheckThreads).      *)
EndingTerminates == task \in EndingTasks => Terminates

-----------------------------------------------------------------------------
(* A program with two monitors.                                              *)
TwoMonitorsTasks ==
  {Linear(<<Handler("u", "green", "SYSTEM"), Monitor("m"), Monitor("m")>>, <<<<St, St>>, <<St>>, <<St>>>>)}
=============================================================================
