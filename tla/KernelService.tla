---------------------------- MODULE KernelService ----------------------------
(***************************************************************************)
(* The service manager (src/akira/kernel/service.c) and the life cycle of  *)
(* the system that starts and stops all services (src/akira/init.c).       *)
(*                                                                         *)
(* A call holds service_mgr.mutex, and a service's callbacks run under it: *)
(* one step.  akira_service_restart and the walks of                       *)
(* akira_service_start_all and _stop_all hold it only inside the start and *)
(* stop they call: each look at the table and each call is a step.  A      *)
(* service has one descriptor, so it is known by its name.                 *)
(*                                                                         *)
(* History: dropped holds the services that were unregistered while they   *)
(* ran; quiet says that nobody else acted since a thread's walk began.     *)
(***************************************************************************)
EXTENDS Integers, FiniteSets

CONSTANTS
  Services,      \* the services that modules may register
  NoService,     \* an empty cell of the table
  Depends,       \* Depends[s]: depends_on
  Priority,      \* Priority[s]: akira_service_priority_t
  LastPriority,  \* SERVICE_PRIORITY_IDLE
  Threads,       \* threads that call the API
  MaxServices    \* AKIRA_MAX_SERVICES

VARIABLES
  services,      \* service_mgr.services, stale cells beyond count included
  count,         \* service_mgr.count
  state,         \* state of each descriptor
  handle,        \* handle of each descriptor
  initialized,   \* akira_state.initialized
  running,       \* akira_state.running
  thread,        \* what each thread is doing
  dropped,
  quiet

vars == <<services, count, state, handle, initialized, running, thread, dropped, quiet>>
systemVars == <<initialized, running>>
tableVars == <<services, count, handle>>

Cells == 0 .. MaxServices - 1
InvalidHandle == -1
States == {"UNREGISTERED", "READY", "RUNNING", "STOPPED", "ERROR"}

\* What a thread does between two steps of its own.
Idle == [op |-> "idle"]
Walk(op, after, prio, i) == [op |-> op, after |-> after, prio |-> prio, i |-> i, name |-> NoService]
Restarting(s, ok) == [op |-> "restart", name |-> s, ok |-> ok]

Registered == {services[i] : i \in 0 .. count - 1}
Running == {s \in Services : state[s] = "RUNNING"}
Dependents(s) == {u \in Registered : u \in Running /\ s \in Depends[u]}

\* check_dependencies().
DependenciesRun(s) == Depends[s] \subseteq Registered \cap Running

\* A step of t that is not part of another thread's walk disturbs that walk.
Disturb(t) == quiet' = [u \in Threads |-> u = t /\ quiet[u]]
Quiet(t) == quiet' = [u \in Threads |-> u = t]

-----------------------------------------------------------------------------
(* Calls under the mutex.                                                  *)

\* A failed init leaves the service in the table, in ERROR.
Register(t, s) ==
  /\ thread[t] = Idle
  /\ s \notin Registered /\ count < MaxServices
  /\ services' = [services EXCEPT ![count] = s]
  /\ count' = count + 1
  /\ handle' = [handle EXCEPT ![s] = count]
  /\ \E st \in {"READY", "ERROR"} : state' = [state EXCEPT ![s] = st]
  /\ Disturb(t) /\ UNCHANGED <<systemVars, thread, dropped>>

\* The later cells move down and their services learn their new handles; the
\* last cell keeps its old content.
Shifted(i) == [j \in Cells |-> IF i <= j /\ j < count - 1 THEN services[j + 1] ELSE services[j]]
Renumbered(i) ==
  [s \in Services |-> IF s = services[i] THEN InvalidHandle
                      ELSE IF \E j \in i + 1 .. count - 1 : services[j] = s THEN handle[s] - 1
                      ELSE handle[s]]

Unregister(t, i) ==
  LET s == services[i] IN
  /\ thread[t] = Idle /\ i < count
  /\ services' = Shifted(i)
  /\ handle' = Renumbered(i)
  /\ count' = count - 1
  /\ state' = [state EXCEPT ![s] = "UNREGISTERED"]
  /\ dropped' = IF s \in Running THEN dropped \cup {s} ELSE dropped
  /\ Disturb(t) /\ UNCHANGED <<systemVars, thread>>

\* akira_service_start() and akira_service_stop(), as called by anyone.
Startable(s) == s \in Registered /\ state[s] \in {"READY", "STOPPED"} /\ DependenciesRun(s)
StartService(s) ==
  \/ /\ Startable(s)
     /\ \/ state' = [state EXCEPT ![s] = "RUNNING"] /\ dropped' = dropped \ {s}
        \/ state' = [state EXCEPT ![s] = "ERROR"] /\ UNCHANGED dropped
  \/ ~Startable(s) /\ UNCHANGED <<state, dropped>>

\* A mutation: a service is stopped under those that depend on it.
StoppableBug(s) == s \in Registered /\ s \in Running
Stoppable(s) == s \in Registered /\ s \in Running /\ Dependents(s) = {}
StopService(s) ==
  state' = IF Stoppable(s) THEN [state EXCEPT ![s] = "STOPPED"] ELSE state

\* What akira_service_stop() answers: 0, also for what does not run.
StopOk(s) == s \in Registered /\ (s \in Running => Stoppable(s))

Start(t, s) ==
  /\ thread[t] = Idle /\ Startable(s) /\ StartService(s)
  /\ Disturb(t) /\ UNCHANGED <<tableVars, systemVars, thread>>

Stop(t, s) ==
  /\ thread[t] = Idle /\ Stoppable(s) /\ StopService(s)
  /\ Disturb(t) /\ UNCHANGED <<tableVars, systemVars, thread, dropped>>

-----------------------------------------------------------------------------
(* akira_service_restart(): stop and start, each under the mutex.          *)

RestartStop(t, s) ==
  /\ thread[t] = Idle /\ s \in Registered
  /\ StopService(s)
  /\ thread' = [thread EXCEPT ![t] = Restarting(s, StopOk(s))]
  /\ Disturb(t) /\ UNCHANGED <<tableVars, systemVars, dropped>>

RestartStart(t) ==
  LET s == thread[t].name IN
  /\ thread[t].op = "restart"
  /\ IF thread[t].ok \/ state[s] = "STOPPED" THEN StartService(s) ELSE UNCHANGED <<
                                                                                   state,
                                                                                   dropped>>
  /\ thread' = [thread EXCEPT ![t] = Idle]
  /\ Disturb(t) /\ UNCHANGED <<tableVars, systemVars>>

-----------------------------------------------------------------------------
(* The walks over priorities and cells, and the system calls around them.  *)

\* "started" and "down" are the walks of akira_start and akira_shutdown.
StartAll(t, after) ==
  /\ thread[t] = Idle
  /\ after = "started" => initialized /\ ~running
  /\ thread' = [thread EXCEPT ![t] = Walk("startall", after, 0, 0)]
  /\ Quiet(t) /\ UNCHANGED <<tableVars, state, systemVars, dropped>>

FirstStopPriority == LastPriority
StopAll(t, after) ==
  /\ thread[t] = Idle
  /\ after = "down" => initialized
  /\ running' = (running /\ after # "down")
  /\ thread' = [thread EXCEPT ![t] = Walk("stopall", after, FirstStopPriority, count - 1)]
  /\ Quiet(t) /\ UNCHANGED <<tableVars, state, initialized, dropped>>

\* The cell the walk looks at next: without the mutex, index and content may
\* be out of date.
Wanted(w) ==
  /\ w.i \in Cells /\ services[w.i] # NoService
  /\ Priority[services[w.i]] = w.prio
  /\ state[services[w.i]] = IF w.op = "startall" THEN "READY" ELSE "RUNNING"

InRange(w) == IF w.op = "startall" THEN w.i < count ELSE w.i >= 0
Done(w) == ~InRange(w) /\ w.prio = IF w.op = "startall" THEN LastPriority ELSE 0
NextCell(w) == [w EXCEPT !.name = NoService, !.i = IF w.op = "startall" THEN @ + 1 ELSE @ - 1]
NextPriority(w) ==
  IF w.op = "startall" THEN [w EXCEPT !.prio = @ + 1, !.i = 0]
  ELSE [w EXCEPT !.prio = @ - 1, !.i = count - 1]

Walking(t) == thread[t].op \in {"startall", "stopall"}

Look(t) ==
  LET w == thread[t] IN
  /\ Walking(t) /\ w.name = NoService /\ ~Done(w)
  /\ thread' = [thread EXCEPT ![t] =
       IF ~InRange(w) THEN NextPriority(w)
       ELSE IF Wanted(w) THEN [w EXCEPT !.name = services[w.i]]
       ELSE NextCell(w)]
  /\ UNCHANGED <<tableVars, state, systemVars, dropped, quiet>>

CallFromWalk(t) ==
  LET w == thread[t] IN
  /\ Walking(t) /\ w.name # NoService
  /\ IF w.op = "startall" THEN StartService(w.name) ELSE StopService(w.name) /\ UNCHANGED dropped
  /\ thread' = [thread EXCEPT ![t] = NextCell(w)]
  /\ Disturb(t) /\ UNCHANGED <<tableVars, systemVars>>

WalkEnds(t) ==
  LET w == thread[t] IN
  /\ Walking(t) /\ w.name = NoService /\ Done(w)
  /\ running' = (running \/ w.after = "started")
  /\ initialized' = (initialized /\ w.after # "down")
  /\ thread' = [thread EXCEPT ![t] = Idle]
  /\ quiet' = [quiet EXCEPT ![t] = FALSE]
  /\ UNCHANGED <<tableVars, state, dropped>>

\* akira_init(): akira_service_manager_init() keeps the table it has.
SystemInit ==
  /\ ~initialized /\ initialized' = TRUE
  /\ UNCHANGED <<tableVars, state, running, thread, dropped, quiet>>

-----------------------------------------------------------------------------
Init ==
  /\ services = [i \in Cells |-> NoService] /\ count = 0
  /\ state = [s \in Services |-> "UNREGISTERED"]
  /\ handle = [s \in Services |-> InvalidHandle]
  /\ initialized = TRUE /\ running = FALSE
  /\ thread = [t \in Threads |-> Idle]
  /\ dropped = {} /\ quiet = [t \in Threads |-> FALSE]

Next ==
  \/ \E t \in Threads, s \in Services :
       Register(t, s) \/ Start(t, s) \/ Stop(t, s) \/ RestartStop(t, s)
  \/ \E t \in Threads, i \in Cells : Unregister(t, i)
  \/ \E t \in Threads : StartAll(t, "none") \/ StartAll(t, "started")
  \/ \E t \in Threads : StopAll(t, "none") \/ StopAll(t, "down")
  \/ \E t \in Threads : RestartStart(t) \/ Look(t) \/ CallFromWalk(t) \/ WalkEnds(t)
  \/ SystemInit

Spec == Init /\ [][Next]_vars

-----------------------------------------------------------------------------
(* Properties.                                                             *)

Doing ==
  {Idle} \cup [op : {"restart"}, name : Services, ok : BOOLEAN]
  \cup [op : {"startall", "stopall"}, after : {"none", "started", "down"}, prio : 0 .. LastPriority,
        i : -1 .. MaxServices, name : Services \cup {NoService}]

\* The table's cells, states, handles and the positions of walks stay in range.
TypeOK ==
  /\ services \in [Cells -> Services \cup {NoService}] /\ count \in 0 .. MaxServices
  /\ state \in [Services -> States] /\ handle \in [Services -> -1 .. MaxServices - 1]
  /\ initialized \in BOOLEAN /\ running \in BOOLEAN
  /\ thread \in [Threads -> Doing] /\ dropped \subseteq Services
  /\ quiet \in [Threads -> BOOLEAN]

\* A handle finds its service and no other after any sequence of
\* registrations, failed initialisations and removals that shift the table:
\* akira_service_unregister(service->handle) removes the service it names.
HandlesFindServices ==
  /\ \A i \in 0 .. count - 1 : services[i] \in Services /\ handle[services[i]] = i
  /\ \A s \in Services \ Registered : handle[s] = InvalidHandle /\ state[s] = "UNREGISTERED"

\* A running service has everything it depends on running, whatever restarts
\* and walks overlap, except what akira_service_unregister, which asks nobody,
\* took away under it.
DependenciesHold ==
  \A s \in Running : \A d \in Depends[s] : d \in Running \/ d \in dropped

\* When every service depends only on services of an earlier priority, a
\* stop_all that nobody disturbed leaves nothing running, and a start_all
\* leaves nothing READY that could be started: the walks' orders do what the
\* dependencies ask.
Layered == \A s \in Services : \A d \in Depends[s] : Priority[d] < Priority[s]
WalksComplete ==
  \A t \in Threads :
    Layered /\ Walking(t) /\ quiet[t] /\ thread[t].name = NoService /\ Done(thread[t]) =>
      IF thread[t].op = "stopall" THEN Running = {}
      ELSE \A s \in Registered : state[s] = "READY" => ~DependenciesRun(s)

\* The three together.
ServicesSound == HandlesFindServices /\ DependenciesHold /\ WalksComplete
=============================================================================
