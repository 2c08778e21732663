----------------------------- MODULE AppManager -----------------------------
(***************************************************************************)
(* The App Manager (src/services/app_manager.c) on top of the Akira        *)
(* runtime wrapper (src/services/akira_runtime.c): the registry of         *)
(* installed WASM apps, its persisted image, the life cycle of an app and  *)
(* the automatic restart of an app whose start failed.                     *)
(*                                                                         *)
(* Callers are the shell, the web server, the Bluetooth and the cloud      *)
(* threads (Threads) and the system work queue (WorkQueue), which runs     *)
(* restart_work_handler.  Everything a call does while it holds            *)
(* g_registry_mutex is one step.  What it does after it has released the   *)
(* mutex is a later step: app_manager_start() sets the state ERROR after   *)
(* the unlock, and app_manager_restart() unlocks between stop and start.   *)
(*                                                                         *)
(* Binaries and registry are written by fs_manager_write_file, which opens *)
(* the file, cuts it and writes it.  The disk may refuse the opening or    *)
(* the writing, or write less (MaxFaults times); what it refuses goes to   *)
(* RAM under the same path, and counts as written if RAM has room.  A read *)
(* takes the file on disk if there is one, else the copy in RAM, which a   *)
(* loss of power takes away.  The power may fail at any step (MaxBoots     *)
(* times, shutdowns included).  The OCRE container runtime is external:    *)
(* its calls succeed or fail, and a container may end by itself.           *)
(*                                                                         *)
(* A definition whose name ends in Bug is a mutation: a plausible mistake  *)
(* in the definition after it, used only to see that the properties notice. *)
(***************************************************************************)
EXTENDS Integers, FiniteSets

CONSTANTS
  Names,          \* app names
  NoName,         \* the empty name: a free registry slot
  Threads,        \* threads that call the API
  WorkQueue,      \* the system work queue
  MaxInstalled,   \* CONFIG_AKIRA_APP_MAX_INSTALLED
  MaxRunning,     \* CONFIG_AKIRA_APP_MAX_RUNNING
  MaxContainers,  \* CONFIG_MAX_CONTAINERS
  RestartConfigs, \* the restart settings a caller's manifest may carry
  Preloads,       \* may source == APP_SOURCE_FIRMWARE be TRUE, FALSE
  MaxFaults,      \* bound: writes the file system refuses
  MaxBoots        \* bound: power failures and shutdowns

ASSUME NamesAssumption == NoName \notin Names
ASSUME ProcsAssumption == WorkQueue \notin Threads
ASSUME SizesAssumption ==
  /\ MaxInstalled \in Nat \ {0}
  /\ MaxRunning \in Nat
  /\ MaxContainers \in Nat \ {0}
  /\ MaxFaults \in Nat
  /\ MaxBoots \in Nat
  /\ MaxInstalled + MaxFaults < 256  \* g_app_count is a uint8_t
ASSUME RestartAssumption == RestartConfigs \subseteq [auto : BOOLEAN, max : Nat]
ASSUME PreloadsAssumption == Preloads \subseteq BOOLEAN

VARIABLES
  g_registry,       \* the registry: a function from slots to entries
  g_app_count,      \* the number of apps the code believes installed
  g_initialized,
  g_restart_app,    \* g_restart_app_name
  restart_scheduled,\* g_restart_work is scheduled
  restart_running,  \* restart_work_handler is between its start and its end
  todo,             \* what a caller still has to do without the mutex
  containers,       \* OCRE's container table
  files,            \* app binaries that are whole on disk, as <<id, name>>
  torn,             \* binaries of which the disk has only a beginning
  ram_files,        \* binaries that only RAM has: the disk has nothing of them
  refused,          \* history: binaries whose last write the disk refused, and
                    \* of which it has no older one
  flash,            \* the registry file a read would find now
  flash_on_disk,    \* there is one on disk; else it is in RAM, if anywhere
  faults,           \* writes refused so far
  boots             \* power failures and shutdowns so far

vars == <<g_registry, g_app_count, g_initialized, g_restart_app,
          restart_scheduled, restart_running, todo, containers, files, torn,
          ram_files, refused, flash, flash_on_disk, faults, boots>>

restartVars == <<g_restart_app, restart_scheduled, restart_running>>
binaryVars == <<files, torn, ram_files, refused>>
flashVars == <<flash, flash_on_disk>>
storageVars == <<binaryVars, flashVars, faults>>

Slots == 1 .. MaxInstalled
ContainerIds == 0 .. MaxContainers - 1
Procs == Threads \cup {WorkQueue}

States == {"NEW", "INSTALLED", "RUNNING", "STOPPED", "ERROR", "FAILED"}
\* OCRE's CREATED, STOPPED and ERROR are "halted": the code only ever asks
\* whether a container is RUNNING.
Statuses == {"free", "halted", "running"}

Entry == [id : 0 .. MaxInstalled, name : Names \cup {NoName}, state : States,
          cid : -1 .. MaxContainers - 1, crash : Nat,
          auto : BOOLEAN, max : Nat, preloaded : BOOLEAN]

\* memset(entry, 0): the container id of a free slot is 0, not -1.
EmptyEntry == [id |-> 0, name |-> NoName, state |-> "NEW", cid |-> 0,
               crash |-> 0, auto |-> FALSE, max |-> 0, preloaded |-> FALSE]
EmptyRegistry == [s \in Slots |-> EmptyEntry]
NoRegistry == [count |-> 0, num |-> 0, entries |-> EmptyRegistry]

Container == [owner : Names \cup {NoName}, status : Statuses]
FreeContainer == [owner |-> NoName, status |-> "free"]

Idle == [op |-> "idle", slot |-> 0, name |-> NoName]
MustStart(n) == [op |-> "start", slot |-> 0, name |-> n]
MustFail(s) == [op |-> "error", slot |-> s, name |-> NoName]
Todo == {Idle} \cup {MustStart(n) : n \in Names} \cup {MustFail(s) : s \in Slots}

-----------------------------------------------------------------------------
(* The registry.                                                           *)

Named(r) == {s \in Slots : r[s].name # NoName}
Running(r) == {s \in Slots : r[s].state = "RUNNING"}

\* find_app_by_name: the slots that hold the name, lowest first.
SlotsOf(r, n) == {s \in Slots : r[s].name = n}
Lowest(S) == CHOOSE s \in S : \A u \in S : s <= u
FindApp(r, n) == Lowest(SlotsOf(r, n))
FreeSlot(r) == Lowest(Slots \ Named(r))

\* registry_load overwrites the container id and a RUNNING state, so what the
\* file holds of them never matters: it is kept here as it will be loaded.
Persisted(e) ==
  [e EXCEPT !.cid = -1,
            !.state = IF @ = "RUNNING" THEN "INSTALLED" ELSE @]

\* registry_save writes the named entries one after the other: entry i of
\* the file is the i-th named slot.
Rank(r, s) == Cardinality({u \in Named(r) : u <= s})
Packed(r) ==
  [i \in Slots |->
     IF \E s \in Named(r) : Rank(r, s) = i
       THEN Persisted(r[CHOOSE s \in Named(r) : Rank(r, s) = i])
       ELSE EmptyEntry]
Saved(r, c) ==
  [count |-> c, num |-> Cardinality(Named(r)), entries |-> Packed(r)]

\* registry_save: every caller ignores its result, so the call goes on after a
\* refused write.  A file that could not be opened keeps what it had; without
\* one the copy in RAM is written anew, or lost when RAM has no room.  A file
\* that was cut and not written again cannot be loaded, and hides the copy.
\* f counts the writes refused before this one.
RegistrySave(r, c, f) ==
  \/ flash' = Saved(r, c) /\ flash_on_disk' = TRUE /\ faults' = f
  \/ /\ f < MaxFaults /\ faults' = f + 1
     /\ \/ /\ flash' \in IF flash_on_disk THEN {flash}
                                         ELSE {Saved(r, c), NoRegistry}
           /\ UNCHANGED flash_on_disk
        \/ flash' = NoRegistry /\ flash_on_disk' = TRUE

\* registry_load: a header that counts more entries than the file holds is
\* a truncated registry; the registry then starts empty.
LoadCountBug(f) ==
  IF f.count >= MaxInstalled THEN MaxInstalled - 1 ELSE f.count
LoadCount(f) == IF f.count > MaxInstalled THEN MaxInstalled ELSE f.count
Loadable(f) == LoadCount(f) <= f.num
LoadedRegistry(f) ==
  [s \in Slots |-> IF Loadable(f) /\ s <= LoadCount(f)
                     THEN f.entries[s] ELSE EmptyEntry]
LoadedCount(f) == IF Loadable(f) THEN LoadCount(f) ELSE 0

\* The registry file after a loss of power.
BootFile == IF flash_on_disk THEN flash ELSE NoRegistry

-----------------------------------------------------------------------------
(* The container runtime: the tables a call may leave behind.              *)

StopOutcomes(c, k) == {c, [c EXCEPT ![k].status = "halted"]}
DestroyOutcomes(c, k) == {c, [c EXCEPT ![k] = FreeContainer]}
StopAndDestroy(c, k) ==
  UNION {DestroyOutcomes(d, k) : d \in StopOutcomes(c, k)}

-----------------------------------------------------------------------------
(* Installation.                                                           *)

InstalledEntry(e, n, m, p) ==
  [id |-> e.id, name |-> n, state |-> "INSTALLED", cid |-> -1, crash |-> 0,
   auto |-> m.auto, max |-> m.max, preloaded |-> p]

\* The binary could not be written: only the name is cleared.  The name was
\* set before the write, so the test that would undo g_app_count++ is false.
FailedEntry(e) == [e EXCEPT !.name = NoName]

\* The binary's file name: the id is looked up by name, which works because
\* the name was entered before the binary is saved.
BinaryOf(e) == <<e.id, e.name>>
BinaryNames == (1 .. MaxInstalled) \X Names

\* The entry as it is when save_app_binary runs.
PreparedBug(s, n, new) ==  \* find_free_slot without assigning the id
  LET e == g_registry[s] IN
  IF new THEN [e EXCEPT !.name = n] ELSE [e EXCEPT !.cid = -1]
Prepared(s, n, new) ==
  LET e == g_registry[s] IN
  IF new THEN [e EXCEPT !.id = s, !.name = n]
         ELSE [e EXCEPT !.cid = -1]

\* save_app_binary: where the binary of the entry goes.
SavedBinaryBug(s, n, new) ==  \* the name is entered after the binary is saved
  <<IF new THEN g_app_count + 2 ELSE g_registry[s].id, n>>
SavedBinary(s, n, new) == BinaryOf(Prepared(s, n, new))

\* fs_manager_write_file of a binary, on disk.
DiskTakes(b) ==
  /\ files' = files \cup {b} /\ torn' = torn \ {b}
  /\ refused' = refused \ {b}
DiskRefuses(b) ==
  /\ \/ UNCHANGED <<files, torn>>                      \* not opened
     \/ files' = files \ {b} /\ torn' = torn \cup {b}  \* cut, not written
  /\ refused' = refused \cup ({b} \ files')

\* save_app_binary: ok is its answer, f counts the refused writes, its own
\* included.  A short write is an error.  What is on disk, whole or not, is
\* what is read from then on: no file is removed, so a copy in RAM beside it
\* is never seen.
SaveBinary(b, ok, f) ==
  \/ ok /\ DiskTakes(b) /\ f = faults /\ ram_files' = ram_files \ {b}
  \/ /\ DiskRefuses(b) /\ f = faults + 1 /\ f <= MaxFaults
     /\ ram_files' = IF ok /\ b \notin files' \cup torn'
                      THEN ram_files \cup {b} ELSE ram_files \ {b}

\* fs_manager_read_file finds the whole binary.
Readable(b) == b \in files \cup ram_files

\* app_manager_install: a new app takes the first free slot, a known one is
\* stopped and its container destroyed.
Install(t, n, m, p) ==
  LET new == SlotsOf(g_registry, n) = {}
      s == IF new THEN FreeSlot(g_registry) ELSE FindApp(g_registry, n)
      e == Prepared(s, n, new)
      b == SavedBinary(s, n, new)
      c == IF new THEN g_app_count + 1 ELSE g_app_count
      k == g_registry[s].cid
      ok == [g_registry EXCEPT ![s] = InstalledEntry(e, n, m, p)]
  IN
  /\ g_initialized /\ todo[t] = Idle
  /\ new => Named(g_registry) # Slots
  /\ containers' \in
       IF new \/ k < 0 THEN {containers}
       ELSE IF g_registry[s].state = "RUNNING"
              THEN StopAndDestroy(containers, k)
              ELSE DestroyOutcomes(containers, k)
  /\ g_app_count' = c
  /\ \E f \in faults .. faults + 1 :
       \/ /\ SaveBinary(b, TRUE, f)
          /\ g_registry' = ok
          /\ RegistrySave(ok, c, f)
       \/ /\ SaveBinary(b, FALSE, f)
          /\ faults' = f
          /\ g_registry' = [g_registry EXCEPT ![s] = FailedEntry(e)]
          /\ UNCHANGED flashVars
  /\ UNCHANGED <<g_initialized, restartVars, todo, boots>>

\* app_manager_uninstall: the container and OCRE's image go, the entry is
\* cleared.  Nothing calls delete_app_binary(): the file stays.
Uninstall(t, n) ==
  /\ g_initialized /\ todo[t] = Idle
  /\ SlotsOf(g_registry, n) # {}
  /\ LET s == FindApp(g_registry, n)
         k == g_registry[s].cid
         r == [g_registry EXCEPT ![s] = EmptyEntry]
     IN
     /\ ~g_registry[s].preloaded
     /\ containers' \in IF k < 0 THEN {containers}
                        ELSE StopAndDestroy(containers, k)
     /\ g_registry' = r
     /\ g_app_count' = g_app_count - 1
     /\ RegistrySave(r, g_app_count', faults)
  /\ UNCHANGED <<g_initialized, restartVars, todo, binaryVars, boots>>

-----------------------------------------------------------------------------
(* Starting and stopping.                                                  *)

CanRunBug(r) == Cardinality(Running(r)) <= MaxRunning
CanRun(r) == Cardinality(Running(r)) < MaxRunning

\* app_manager_start under the mutex, for caller p.  A refused start leaves
\* the state alone; a start OCRE rejects leaves MustFail behind.
StartLocked(p, n) ==
  LET found == SlotsOf(g_registry, n) # {}
      s == FindApp(g_registry, n)
      e == g_registry[s]
      reset == IF e.state = "FAILED" THEN [e EXCEPT !.crash = 0] ELSE e
  IN
  \* not found, already running, or not initialised
  \/ /\ ~g_initialized \/ ~found \/ (found /\ e.state = "RUNNING")
     /\ todo' = [todo EXCEPT ![p] = Idle]
     /\ UNCHANGED <<g_registry, containers, storageVars>>
  \* -EBUSY, or the binary cannot be read or loaded into a container
  \/ /\ g_initialized /\ found /\ e.state # "RUNNING"
     /\ ~CanRun(g_registry) \/ e.cid < 0
     /\ g_registry' = [g_registry EXCEPT ![s] = reset]
     /\ todo' = [todo EXCEPT ![p] = Idle]
     /\ UNCHANGED <<containers, storageVars>>
  \* the container exists or is created, and is told to run
  \/ /\ g_initialized /\ found /\ e.state # "RUNNING" /\ CanRun(g_registry)
     /\ \E k \in ContainerIds :
          /\ IF e.cid >= 0 THEN k = e.cid
             ELSE /\ Readable(BinaryOf(e))
                  /\ containers[k] = FreeContainer
          /\ \/ LET r == [g_registry EXCEPT
                            ![s] = [reset EXCEPT !.cid = k,
                                                 !.state = "RUNNING"]]
                IN /\ g_registry' = r
                   /\ containers' = [containers EXCEPT
                        ![k] = [owner |-> n, status |-> "running"]]
                   /\ todo' = [todo EXCEPT ![p] = Idle]
                   /\ RegistrySave(r, g_app_count, faults)
                   /\ UNCHANGED binaryVars
             \/ /\ g_registry' = [g_registry EXCEPT
                                    ![s] = [reset EXCEPT !.cid = k]]
                /\ \E st \in {"halted", containers[k].status} \ {"free"} :
                     containers' = [containers EXCEPT
                       ![k] = [owner |-> n, status |-> st]]
                /\ todo' = [todo EXCEPT ![p] = MustFail(s)]
                /\ UNCHANGED storageVars

Start(t, n) ==
  /\ g_initialized /\ todo[t] = Idle
  /\ SlotsOf(g_registry, n) # {}
  /\ StartLocked(t, n)
  /\ UNCHANGED <<g_app_count, g_initialized, restartVars, boots>>

\* set_app_state(app, APP_STATE_ERROR): counts the crash, and either asks for
\* a restart or gives the app up.
ErrorEntryBug(e) ==  \* one retry too many
  LET crash == IF e.auto THEN e.crash + 1 ELSE e.crash IN
  [e EXCEPT !.state = IF e.auto /\ crash > e.max THEN "FAILED" ELSE "ERROR",
            !.crash = crash]
ErrorEntry(e) ==
  LET crash == IF e.auto THEN e.crash + 1 ELSE e.crash IN
  [e EXCEPT !.state = IF e.auto /\ crash >= e.max THEN "FAILED" ELSE "ERROR",
            !.crash = crash]
WantsRestart(e) == e.auto /\ e.crash + 1 < e.max

\* The end of a failed app_manager_start, after the mutex was released.  An
\* app already in ERROR stays as it is: set_app_state returns at once.
StartFailed(p) ==
  /\ todo[p].op = "error"
  /\ LET s == todo[p].slot
         e == g_registry[s]
     IN IF e.state = "ERROR"
          THEN UNCHANGED <<g_registry, g_restart_app, restart_scheduled>>
          ELSE /\ g_registry' = [g_registry EXCEPT ![s] = ErrorEntry(e)]
               /\ IF WantsRestart(e)
                    THEN /\ g_restart_app' = e.name
                         /\ restart_scheduled' = TRUE
                    ELSE UNCHANGED <<g_restart_app, restart_scheduled>>
  /\ todo' = [todo EXCEPT ![p] = Idle]
  /\ UNCHANGED <<g_app_count, g_initialized, restart_running, containers,
                 storageVars, boots>>

\* restart_work_handler up to and including the locked part of the start.
RestartWork ==
  /\ restart_scheduled /\ ~restart_running
  /\ restart_scheduled' = FALSE
  /\ IF g_restart_app = NoName
       THEN UNCHANGED <<g_registry, restart_running, todo, containers,
                        storageVars>>
       ELSE /\ restart_running' = TRUE
            /\ StartLocked(WorkQueue, g_restart_app)
  /\ UNCHANGED <<g_app_count, g_initialized, g_restart_app, boots>>

\* The handler clears the name once the start, failed or not, is over.
RestartDone ==
  /\ restart_running /\ todo[WorkQueue] = Idle
  /\ restart_running' = FALSE
  /\ g_restart_app' = NoName
  /\ UNCHANGED <<g_registry, g_app_count, g_initialized, restart_scheduled,
                 todo, containers, storageVars, boots>>

\* app_manager_stop: an app that is not RUNNING is left alone, a container
\* that does not stop leaves the app RUNNING.
Stop(t, n) ==
  /\ g_initialized /\ todo[t] = Idle
  /\ SlotsOf(g_registry, n) # {}
  /\ LET s == FindApp(g_registry, n)
         k == g_registry[s].cid
         r == [g_registry EXCEPT ![s].state = "STOPPED"]
     IN
     /\ g_registry[s].state = "RUNNING" /\ k >= 0
     /\ containers' = [containers EXCEPT ![k].status = "halted"]
     /\ g_registry' = r
     /\ RegistrySave(r, g_app_count, faults)
  /\ UNCHANGED <<g_app_count, g_initialized, restartVars, todo, binaryVars,
                 boots>>

\* app_manager_restart up to its unlock; app_manager_start follows.
Restart(t, n) ==
  /\ g_initialized /\ todo[t] = Idle
  /\ SlotsOf(g_registry, n) # {}
  /\ LET s == FindApp(g_registry, n)
         e == g_registry[s]
         stops == e.state = "RUNNING" /\ e.cid >= 0
     IN
     /\ g_registry' = [g_registry EXCEPT
          ![s] = [e EXCEPT !.crash = 0,
                           !.state = IF stops THEN "STOPPED" ELSE @]]
     /\ containers' \in IF stops THEN StopOutcomes(containers, e.cid)
                                 ELSE {containers}
  /\ todo' = [todo EXCEPT ![t] = MustStart(n)]
  /\ UNCHANGED <<g_app_count, g_initialized, restartVars, storageVars, boots>>

RestartStart(t) ==
  /\ todo[t].op = "start"
  /\ StartLocked(t, todo[t].name)
  /\ UNCHANGED <<g_app_count, g_initialized, restartVars, boots>>

\* A container's program ends or traps; nobody tells the App Manager.
ContainerEnds(k) ==
  /\ containers[k].status = "running"
  /\ containers' = [containers EXCEPT ![k].status = "halted"]
  /\ UNCHANGED <<g_registry, g_app_count, g_initialized, restartVars, todo,
                 storageVars, boots>>

-----------------------------------------------------------------------------
(* Shutdown, initialisation and loss of power.                             *)

StoppedEntry(e) ==
  IF e.state = "RUNNING" /\ e.cid >= 0 THEN [e EXCEPT !.state = "STOPPED"]
                                       ELSE e

Shutdown(t) ==
  LET r == [s \in Slots |-> StoppedEntry(g_registry[s])]
      hit == {g_registry[s].cid : s \in {u \in Running(g_registry) :
                                            g_registry[u].cid >= 0}}
  IN
  /\ g_initialized /\ todo[t] = Idle
  /\ boots < MaxBoots
  /\ boots' = boots + 1
  /\ \E stopped \in SUBSET hit :
       containers' = [k \in ContainerIds |->
                        IF k \in stopped
                          THEN [containers[k] EXCEPT !.status = "halted"]
                          ELSE containers[k]]
  /\ g_registry' = r
  /\ RegistrySave(r, g_app_count, faults)
  /\ g_initialized' = FALSE
  /\ UNCHANGED <<g_app_count, restartVars, todo, binaryVars>>

\* app_manager_init after a shutdown: OCRE's containers are still there.
\* k_work_init_delayable forgets a scheduled restart; the name survives.
AppInit(t) ==
  /\ ~g_initialized /\ todo[t] = Idle
  /\ g_registry' = LoadedRegistry(flash)
  /\ g_app_count' = LoadedCount(flash)
  /\ restart_scheduled' = FALSE
  /\ g_initialized' = TRUE
  /\ UNCHANGED <<g_restart_app, restart_running, todo, containers,
                 storageVars, boots>>

\* The board restarts and main() calls app_manager_init(): what was only in
\* RAM is gone.
PowerUp ==
  /\ boots < MaxBoots
  /\ boots' = boots + 1
  /\ g_registry' = LoadedRegistry(BootFile)
  /\ g_app_count' = LoadedCount(BootFile)
  /\ g_initialized' = TRUE
  /\ g_restart_app' = NoName
  /\ restart_scheduled' = FALSE
  /\ restart_running' = FALSE
  /\ todo' = [p \in Procs |-> Idle]
  /\ containers' = [k \in ContainerIds |-> FreeContainer]
  /\ ram_files' = {}
  /\ flash' = BootFile
  /\ UNCHANGED flash_on_disk

PowerLoss == PowerUp /\ UNCHANGED <<files, torn, refused, faults>>

\* The power fails inside app_manager_install, after save_app_binary and
\* before registry_save.
PowerLossInInstall(t, n) ==
  LET new == SlotsOf(g_registry, n) = {}
      s == IF new THEN FreeSlot(g_registry) ELSE FindApp(g_registry, n)
      b == SavedBinary(s, n, new)
  IN
  /\ g_initialized /\ todo[t] = Idle
  /\ new => Named(g_registry) # Slots
  /\ \/ DiskTakes(b) /\ UNCHANGED faults
     \/ DiskRefuses(b) /\ faults < MaxFaults /\ faults' = faults + 1
  /\ PowerUp

-----------------------------------------------------------------------------
Init ==
  /\ g_registry = EmptyRegistry
  /\ g_app_count = 0
  /\ g_initialized = TRUE
  /\ g_restart_app = NoName
  /\ restart_scheduled = FALSE
  /\ restart_running = FALSE
  /\ todo = [p \in Procs |-> Idle]
  /\ containers = [k \in ContainerIds |-> FreeContainer]
  /\ files = {} /\ torn = {} /\ ram_files = {} /\ refused = {}
  /\ flash = NoRegistry /\ flash_on_disk = FALSE
  /\ faults = 0
  /\ boots = 0

Call(t, n) ==
  \/ \E m \in RestartConfigs, p \in Preloads : Install(t, n, m, p)
  \/ Uninstall(t, n)
  \/ Start(t, n)
  \/ Stop(t, n)
  \/ Restart(t, n)

Next ==
  \/ \E t \in Threads, n \in Names : Call(t, n)
  \/ \E t \in Threads : RestartStart(t)
  \/ \E p \in Procs : StartFailed(p)
  \/ RestartWork
  \/ RestartDone
  \/ \E k \in ContainerIds : ContainerEnds(k)
  \/ \E t \in Threads : Shutdown(t) \/ AppInit(t)
  \/ PowerLoss
  \/ \E t \in Threads, n \in Names : PowerLossInInstall(t, n)

Spec == Init /\ [][Next]_vars

-----------------------------------------------------------------------------
(* Properties.                                                             *)

TypeOK ==
  /\ g_registry \in [Slots -> Entry]
  /\ g_app_count \in Int
  /\ g_initialized \in BOOLEAN
  /\ g_restart_app \in Names \cup {NoName}
  /\ restart_scheduled \in BOOLEAN
  /\ restart_running \in BOOLEAN
  /\ todo \in [Procs -> Todo]
  /\ containers \in [ContainerIds -> Container]
  /\ files \in SUBSET BinaryNames /\ torn \in SUBSET BinaryNames
  /\ ram_files \in SUBSET BinaryNames /\ refused \in SUBSET BinaryNames
  /\ flash \in [count : Int, num : 0 .. MaxInstalled,
                entries : [Slots -> Entry]]
  /\ flash_on_disk \in BOOLEAN
  /\ faults \in 0 .. MaxFaults
  /\ boots \in 0 .. MaxBoots

\* No name is installed twice, in memory or in the registry file: every call
\* finds its app by name, so a second entry could never be reached again.
\* Reboots renumber the slots (registry_save packs the entries) and a failed
\* update frees one, so old and new entries could meet.
UniqueNames(r) ==
  \A s, u \in Named(r) : r[s].name = r[u].name => s = u
NamesUnique == UniqueNames(g_registry) /\ UniqueNames(flash.entries)

\* The binary of every app, installed now or after the next boot, is whole on
\* disk under the name app_manager_start reads it from, wherever the power
\* failed in an install and however the slots were renumbered.  The exception is
\* a binary whose own last write the disk refused and of which it has no older
\* one: the install may have answered with success all the same (the copy in
\* RAM), and an update may have destroyed what was there.
HasBinary(e) == e.name # NoName => BinaryOf(e) \in files \cup refused
BinaryPresent ==
  \A s \in Slots : HasBinary(g_registry[s]) /\ HasBinary(flash.entries[s])

\* As long as the disk refused no write, a boot brings back exactly the
\* apps that are installed, with their ids and restart settings.
Identity(e) == [id |-> e.id, name |-> e.name, auto |-> e.auto, max |-> e.max,
                preloaded |-> e.preloaded]
Apps(r) == {Identity(r[s]) : s \in Named(r)}
Durable == faults = 0 => Apps(LoadedRegistry(BootFile)) = Apps(g_registry)

\* g_app_count never drops below the number of installed apps (it would wrap
\* below zero), and exceeds it by at most one for each refused write.
CountBounds ==
  LET installed == Cardinality(Named(g_registry)) IN
  installed <= g_app_count /\ g_app_count <= installed + faults

\* app_manager_get_count "@return Number of installed apps"
\* (app_manager.h): false after a refused binary write.
CountIsInstalled == g_app_count = Cardinality(Named(g_registry))

\* At most CONFIG_AKIRA_APP_MAX_RUNNING entries are RUNNING, whatever starts,
\* restarts, updates and failed starts interleaved before.
RunningWithinLimit == Cardinality(Running(g_registry)) <= MaxRunning

\* An installed app never points at a container that was created for another
\* app: container slots and registry slots are both reused, and a start that
\* fails touches its entry after the registry was unlocked.
ContainerIsOwn ==
  \A s \in Named(g_registry) :
    g_registry[s].cid >= 0 =>
      containers[g_registry[s].cid].owner = g_registry[s].name

\* What holds of the registry together: one entry per name, no more running
\* apps than allowed, and no container shared, through the unlocked halves of
\* starts and restarts.
RegistrySound == NamesUnique /\ RunningWithinLimit /\ ContainerIsOwn

\* What a boot recovers: the installed apps, counted right but for the refused
\* writes.
BootRecovers == Durable /\ CountBounds

\* An app in ERROR that restarts automatically still has a retry left: the
\* one that used up max_retries is FAILED, although the crash count is reset
\* by restarts, by starts of a FAILED app and by updates in between.  The
\* registry file is included: a boot resumes with what it says.
RetryLeft(e) == e.state = "ERROR" /\ e.auto => e.crash < e.max
ErrorHasRetryLeft ==
  \A s \in Slots : RetryLeft(g_registry[s]) /\ RetryLeft(flash.entries[s])
=============================================================================
