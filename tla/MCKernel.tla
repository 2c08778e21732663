------------------------------ MODULE MCKernel ------------------------------
(* The components of the kernel for TLC, side by side: each has its variables *)
(* and its constants, and the one in focus runs while the others rest.  The   *)
(* threads are the same for all that have several.                            *)
EXTENDS ProcessManager, TLC

CONSTANTS
  Services, NoService, Depends, Priority, LastPriority,    \* KernelService
  MaxServices,
  MaxTimers, MaxShots,                                     \* KernelTimer
  Blocks, PsramBlocks, MaxPools, PoolBlocks,               \* KernelMemory
  BusThreads, Main, Topics, MaxSubscribers, QueueSize,     \* MessageBus
  MaxSubs, MaxMessages,
  Names, Cut, MaxRegions, PoolSize, MaxGen,                \* SharedMemory
  MaxTasks, MaxLive, Priorities,                           \* Scheduler
  Apps, MaxApps, Quotas, Amounts, Width, MaxHeld           \* ResourceManager

ASSUME ServicesAssumption ==
  /\ LastPriority \in Nat /\ Priority \in [Services -> 0 .. LastPriority]
  /\ MaxServices \in Nat /\ NoService \notin Services

VARIABLES
  focus, \* the component that runs
  services, count, state, handle, serviceInitialized,      \* KernelService
  serviceRunning, thread, dropped, quiet,
  timers, active_count, timerCall,                         \* KernelTimer
  memoryInitialized, allocated, psram, loose,              \* KernelMemory
  memoryRegions, pools, pool_count, balance,
  memoryCall, early, memoryLost,
  subs, next_sub, busQueue, next_id, stats, real,          \* MessageBus
  busCall, proc,
  sharedRegions, mutex, pool_used, pool, gen, torn,        \* SharedMemory
  handles, sharedCall,
  tasks, schedQueue, current, schedRunning, ticked,        \* Scheduler
  usage, quota, system, held, lowered, drifted             \* ResourceManager

serviceVars == <<services, count, state, handle, serviceInitialized, serviceRunning,
        thread, dropped, quiet>>
timerVars == <<timers, active_count, timerCall>>
memoryVars == <<memoryInitialized, allocated, psram, loose, memoryRegions, pools,
        pool_count, balance, memoryCall, early, memoryLost>>
busVars == <<subs, next_sub, busQueue, next_id, stats, real, busCall, proc>>
sharedVars == <<sharedRegions, mutex, pool_used, pool, gen, torn, handles,
        sharedCall>>
schedVars == <<tasks, schedQueue, current, schedRunning, ticked>>
resourceVars == <<usage, quota, system, held, lowered, drifted>>

Service == INSTANCE KernelService WITH
  Threads <- Callers, initialized <- serviceInitialized, running <- serviceRunning

Timer == INSTANCE KernelTimer WITH
  Threads <- Callers, NoThread <- NoCaller, call <- timerCall

Memory == INSTANCE KernelMemory WITH
  Threads <- Callers, initialized <- memoryInitialized,
  regions <- memoryRegions, call <- memoryCall, lost <- memoryLost

Bus == INSTANCE MessageBus WITH
  Threads <- BusThreads, queue <- busQueue, call <- busCall

Shared == INSTANCE SharedMemory WITH
  Threads <- Callers, Nobody <- NoCaller, regions <- sharedRegions,
  call <- sharedCall

Sched == INSTANCE Scheduler WITH
  queue <- schedQueue, running <- schedRunning

Resource == INSTANCE ResourceManager

\* For TLC: of two services, "a" depends on "b" and starts after it.
NeedsB == [a |-> {"b"}, b |-> {}]
AfterB == [a |-> 1, b |-> 0]

\* For TLC: "long" stands for a name of 32 characters or more that begins with "x".
CutToX == [n \in Names |-> IF n = "long" THEN "x" ELSE n]
Symmetry == Permutations(Callers)

\* The threads of shared memory are finitely many.
ASSUME RegionsAssumption == Shared!ConstantsOK

KernelInit ==
  /\ focus \in {"processes", "services", "timers", "memory", "bus",
               "regions", "tasks", "quotas"}
  /\ Init /\ Service!Init /\ Timer!Init /\ Memory!Init /\ Bus!Init
  /\ Shared!Init /\ Sched!Init /\ Resource!Init

\* What the bounds leave some components: nothing to do, and nobody in the
\* middle of anything.  One that stops elsewhere is a deadlock.
KernelRests ==
  \/ /\ focus = "bus" /\ busQueue = <<>> /\ ~proc.busy
     /\ \A t \in DOMAIN busCall : busCall[t] = Bus!Idle
  \/ focus = "regions" /\ \A t \in Callers : sharedCall[t] = Shared!Idle

KernelNext ==
  /\ UNCHANGED focus
  /\ \/ /\ focus = "processes" /\ Next
        /\ UNCHANGED <<serviceVars, timerVars, memoryVars, busVars,
                        sharedVars, schedVars, resourceVars>>
     \/ /\ focus = "services" /\ Service!Next
        /\ UNCHANGED <<vars, timerVars, memoryVars, busVars, sharedVars,
                        schedVars, resourceVars>>
     \/ /\ focus = "timers" /\ Timer!Next
        /\ UNCHANGED <<vars, serviceVars, memoryVars, busVars, sharedVars,
                        schedVars, resourceVars>>
     \/ /\ focus = "memory" /\ Memory!Next
        /\ UNCHANGED <<vars, serviceVars, timerVars, busVars, sharedVars,
                        schedVars, resourceVars>>
     \/ /\ focus = "bus" /\ Bus!Next
        /\ UNCHANGED <<vars, serviceVars, timerVars, memoryVars, sharedVars,
                        schedVars, resourceVars>>
     \/ /\ focus = "regions" /\ Shared!Next
        /\ UNCHANGED <<vars, serviceVars, timerVars, memoryVars, busVars,
                        schedVars, resourceVars>>
     \/ /\ focus = "tasks" /\ Sched!Next
        /\ UNCHANGED <<vars, serviceVars, timerVars, memoryVars, busVars,
                        sharedVars, resourceVars>>
     \/ /\ focus = "quotas" /\ Resource!Next
        /\ UNCHANGED <<vars, serviceVars, timerVars, memoryVars, busVars,
                        sharedVars, schedVars>>
     \/ KernelRests /\ UNCHANGED <<vars, serviceVars, timerVars, memoryVars, busVars,
                        sharedVars, schedVars, resourceVars>>

KernelSpec ==
  KernelInit /\ [][KernelNext]_<<focus, vars, serviceVars, timerVars, memoryVars, busVars,
      sharedVars, schedVars, resourceVars>>

-----------------------------------------------------------------------------
(* Properties.                                                             *)

\* Every component's variables keep their types.
KernelTyped ==
  /\ focus = "processes" => TypeOK
  /\ focus = "services" => Service!TypeOK
  /\ focus = "timers" => Timer!TypeOK
  /\ focus = "memory" => Memory!TypeOK
  /\ focus = "bus" => Bus!TypeOK
  /\ focus = "regions" => Shared!TypeOK
  /\ focus = "tasks" => Sched!TypeOK
  /\ focus = "quotas" => Resource!TypeOK

\* Services: handles find their services, a service runs only while those it
\* depends on do, and a walk that nobody disturbed leaves none out
\* (service.c).
ServicesSound ==
  focus = "services" => Service!ServicesSound

\* Timers: one that its owner sees stopped, paused, expired or destroyed stays
\* quiet, and a one-shot fires once for every start (timer.c).
TimersSound ==
  focus = "timers" => Timer!TimersSound

\* Memory: every block is in one place, with a caller, in a region or under a
\* pool; the leak check never invents a leak, and a fixed pool counts what its
\* users hold (memory.c, psram.c).
MemorySound ==
  focus = "memory" => Memory!MemorySound

\* A message calls nobody twice and misses nobody but by a removal from inside
\* a handler; a shared region has as many references as handles, the name of
\* an older one only if its own was cut down to it, a lock of its own, and
\* memory that no neighbour reaches (message_bus.c, shared_memory.c).
IpcSound ==
  /\ focus = "bus" => Bus!BusSound
  /\ focus = "regions" => Shared!RegionsSound

\* A task that is ready is queued, at most twice, and one task runs; what apps
\* use stays within their quotas and adds up (scheduler.c,
\* resource_manager.c).
TasksSound ==
  /\ focus = "tasks" => Sched!SchedulerSound
  /\ focus = "quotas" => Resource!QuotasSound
=============================================================================
