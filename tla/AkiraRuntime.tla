---------------------------- MODULE AkiraRuntime ----------------------------
(***************************************************************************)
(* The wrapper around the OCRE container runtime                           *)
(* (src/services/akira_runtime.c) in detail: the image files OCRE reads,   *)
(* the copy in RAM that takes their place when the disk refuses, and       *)
(* OCRE's own thread, which runs a container some time after it was asked  *)
(* to.  AppManager has the outcomes of these calls only.                   *)
(*                                                                         *)
(* The App Manager makes one call at a time, under its registry mutex.  A  *)
(* binary is a sequence of units; an image that is not there is empty.     *)
(* OCRE is external: a container is created, run, stopped and destroyed by *)
(* its status, and reads its image when it is run.                         *)
(*                                                                         *)
(* History: installed has the apps whose image was saved and not deleted   *)
(* since, fresh the containers that were never asked to run before the     *)
(* start that is, or was last, under way; cut and stuck the apps that a    *)
(* short write of the file system manager, or a refused unlink, struck.    *)
(***************************************************************************)
EXTENDS Integers, Sequences, SequencesExt

CONSTANTS
  Names,      \* apps
  NoName,     \* no app
  Binaries,   \* what they are installed from: non-empty sequences of units
  Containers, \* container ids, 0 .. CONFIG_MAX_CONTAINERS - 1
  MaxPolls,   \* looks at a container that starts (10)
  MaxInstalls, MaxFaults \* bounds: installs; calls of the file system or OCRE that fail

VARIABLES
  disk, ram,  \* /lfs/ocre/images/<name>.bin, and the file system manager's copy of it
  containers, \* OCRE's table
  requests,   \* containers that OCRE's thread has been asked to run
  owner,      \* app_entry_t.container_id
  call,       \* the call under way
  installed, fresh, cut, stuck, \* history
  installs, faults

images == <<disk, ram, installed, cut, stuck>>
ocre == <<containers, requests, fresh>>
vars == <<images, ocre, owner, call, installs, faults>>

NoImage == <<>>
Free == [name |-> NoName, bin |-> NoImage, status |-> "UNKNOWN", ran |-> NoImage]
Idle == [at |-> "idle", name |-> NoName, bin |-> NoImage, id |-> -1, polls |-> 0, ans |-> "none"]
At(at) == call.at = at
Goes(at) == call' = [call EXCEPT !.at = at]
Returns(a) == call' = [call EXCEPT !.at = "idle", !.ans = a]
Fault == faults < MaxFaults /\ faults' = faults + 1

-----------------------------------------------------------------------------
(* akira_runtime_save_binary(): opened to write, and not truncated.        *)

Install(n, b) ==
  /\ At("idle") /\ owner[n] = -1 /\ installs < MaxInstalls
  /\ call' = [Idle EXCEPT !.at = "save", !.name = n, !.bin = b]
  /\ installs' = installs + 1 /\ UNCHANGED <<images, ocre, owner, faults>>

Over(b, old) == b \o SubSeq(old, Len(b) + 1, Len(old))
Saves(image) == disk' = [disk EXCEPT ![call.name] = image]
Saved == Goes("create") /\ installed' = installed \union {call.name}

SaveBinary ==
  /\ At("save") /\ UNCHANGED <<ram, stuck, ocre, owner, installs>>
  /\ \/ /\ Saves(Over(call.bin, disk[call.name])) /\ Saved
        /\ cut' = cut \ {call.name} /\ UNCHANGED faults
     \/ Fault /\ Saves(NoImage) /\ Goes("fallback") /\ UNCHANGED <<installed, cut>>
     \/ Fault /\ Goes("fallback") /\ UNCHANGED <<disk, installed, cut>>

\* fs_manager_write_file(): it truncates, and a short write is not negative.
Fallback ==
  /\ At("fallback") /\ UNCHANGED <<stuck, ocre, owner, installs>>
  /\ \/ Saves(call.bin) /\ Saved /\ cut' = cut \ {call.name} /\ UNCHANGED <<ram, faults>>
     \/ /\ Fault /\ Saves(Front(call.bin)) /\ Saved
        /\ cut' = cut \union {call.name} /\ UNCHANGED ram
     \/ /\ Fault /\ ram' = [ram EXCEPT ![call.name] = call.bin] /\ Saved
        /\ cut' = cut \union {call.name} /\ UNCHANGED disk
     \/ Fault /\ Returns("error") /\ UNCHANGED <<disk, ram, installed, cut>>

-----------------------------------------------------------------------------
(* akira_runtime_delete_binary(): the copy in RAM only when there is no    *)
(* file.                                                                   *)

Deleted(n) ==
  \/ /\ disk[n] # NoImage /\ disk' = [disk EXCEPT ![n] = NoImage]
     /\ UNCHANGED <<ram, stuck, faults>>
  \/ /\ disk[n] = NoImage /\ ram' = [ram EXCEPT ![n] = NoImage]
     /\ UNCHANGED <<disk, stuck, faults>>
  \/ /\ disk[n] # NoImage /\ Fault /\ ram' = [ram EXCEPT ![n] = NoImage]
     /\ stuck' = stuck \union {n} /\ UNCHANGED disk
DeleteBinary(n) == Deleted(n) /\ installed' = installed \ {n} /\ UNCHANGED cut

-----------------------------------------------------------------------------
(* akira_runtime_install() after the image is saved.                       *)

Unused == {k \in Containers : containers[k] = Free}
CreateContainer ==
  /\ At("create") /\ Unused # {} /\ UNCHANGED <<images, requests, installs, faults>>
  /\ LET k == CHOOSE x \in Unused : \A y \in Unused : x <= y
     IN /\ containers' = [containers EXCEPT ![k] =
             [Free EXCEPT !.name = call.name, !.bin = call.bin, !.status = "CREATED"]]
        /\ owner' = [owner EXCEPT ![call.name] = k]
        /\ fresh' = fresh \union {k} /\ Returns("created")
CreateFails ==
  /\ At("create") /\ (Unused = {} \/ faults < MaxFaults)
  /\ DeleteBinary(call.name) /\ Returns("error")
  /\ UNCHANGED <<ocre, owner, installs>>

-----------------------------------------------------------------------------
(* akira_runtime_start(): ask OCRE's thread, then look at the status.      *)

Start(n) ==
  LET k == owner[n]
  IN /\ At("idle") /\ k # -1
     /\ IF containers[k].status = "RUNNING"
        THEN Returns("error") /\ UNCHANGED <<requests, fresh>>
        ELSE /\ call' = [Idle EXCEPT !.at = "poll", !.name = n, !.id = k]
             /\ requests' = requests \union {k}
             /\ fresh' = IF containers[k].status = "CREATED" THEN fresh ELSE fresh \ {k}
     /\ UNCHANGED <<images, containers, owner, installs, faults>>

\* The last look answers for CREATED too.
Started(st) == st \in {"RUNNING", "STOPPED"}
Poll ==
  LET st == containers[call.id].status
  IN /\ At("poll")
     /\ IF Started(st) THEN Returns("started")
        ELSE IF st = "ERROR" \/ call.polls = MaxPolls THEN Returns("error")
        ELSE call' = [call EXCEPT !.polls = @ + 1]
     /\ UNCHANGED <<images, ocre, owner, installs, faults>>

-----------------------------------------------------------------------------
(* akira_runtime_stop(), akira_runtime_destroy() and                       *)
(* akira_runtime_uninstall(), which calls both; the App Manager forgets    *)
(* the container whatever they answer.                                     *)

Stop(n) ==
  LET k == owner[n]
  IN /\ At("idle") /\ k # -1 /\ containers[k].status = "RUNNING"
     /\ \/ containers' = [containers EXCEPT ![k].status = "STOPPED"] /\ UNCHANGED faults
        \/ Fault /\ UNCHANGED containers
     /\ UNCHANGED <<images, requests, fresh, owner, call, installs>>

Destroyed(k) ==
  IF k = -1 THEN UNCHANGED <<containers, fresh>>
  ELSE /\ containers' = [containers EXCEPT ![k] = Free] /\ fresh' = fresh \ {k}
DestroyFails(k) ==
  /\ k # -1 /\ containers[k].status # "RUNNING" /\ UNCHANGED <<containers, fresh>>

Destroy(n) ==
  /\ At("idle") /\ owner[n] # -1 /\ owner' = [owner EXCEPT ![n] = -1]
  /\ \/ Destroyed(owner[n]) /\ UNCHANGED faults
     \/ Fault /\ DestroyFails(owner[n])
  /\ UNCHANGED <<images, requests, call, installs>>
Uninstall(n) ==
  /\ At("idle") /\ owner' = [owner EXCEPT ![n] = -1]
  /\ Destroyed(owner[n]) \/ DestroyFails(owner[n])
  /\ DeleteBinary(n) /\ UNCHANGED <<requests, call, installs>>

-----------------------------------------------------------------------------
(* OCRE's thread, external: it takes the image as the disk has it then; a  *)
(* container whose image is not there fails or stays CREATED.              *)

OcreRuns(k) ==
  LET c == containers[k] IN
  /\ k \in requests /\ requests' = requests \ {k}
  /\ IF c = Free THEN UNCHANGED containers
     ELSE IF disk[c.name] # NoImage
     THEN containers' = [containers EXCEPT
            ![k] = [c EXCEPT !.status = "RUNNING", !.ran = disk[c.name]]]
     ELSE \E st \in {"ERROR", c.status} : containers' = [containers EXCEPT ![k].status = st]
  /\ UNCHANGED <<images, fresh, owner, call, installs, faults>>
OcreEnds(k) ==
  /\ containers[k].status = "RUNNING"
  /\ \E st \in {"STOPPED", "ERROR"} : containers' = [containers EXCEPT ![k].status = st]
  /\ UNCHANGED <<images, requests, fresh, owner, call, installs, faults>>

-----------------------------------------------------------------------------
\* The runtime is initialized, before the App Manager uses it.
Init ==
  /\ disk = [n \in Names |-> NoImage] /\ ram = disk /\ owner = [n \in Names |-> -1]
  /\ containers = [k \in Containers |-> Free] /\ requests = {} /\ call = Idle
  /\ installed = {} /\ fresh = {} /\ cut = {} /\ stuck = {} /\ installs = 0 /\ faults = 0

Next ==
  \/ \E n \in Names : \/ \E b \in Binaries : Install(n, b)
                      \/ Start(n) \/ Stop(n) \/ Destroy(n) \/ Uninstall(n)
  \/ SaveBinary \/ Fallback \/ CreateContainer \/ CreateFails \/ Poll
  \/ \E k \in Containers : OcreRuns(k) \/ OcreEnds(k)

Spec == Init /\ [][Next]_vars

-----------------------------------------------------------------------------
(* Properties.                                                             *)

\* The variables keep their types.
TypeOK ==
  /\ owner \in [Names -> Containers \union {-1}] /\ requests \subseteq Containers
  /\ \A k \in Containers : containers[k].name \in Names \union {NoName}
  /\ installs \in 0 .. MaxInstalls /\ faults \in 0 .. MaxFaults

\* The container of an app runs an image that begins with what the app was
\* installed from, unless its image went to RAM or was written short; a
\* container that was started for the first time, and whose start answered
\* success, did run; and of an app whose install failed, or that was
\* uninstalled, no image is left for OCRE to run unless an unlink failed.
RuntimeSound ==
  /\ \A n \in Names : LET k == owner[n] IN
       (k # -1 /\ n \notin cut /\ containers[k].status = "RUNNING") =>
         IsPrefix(containers[k].bin, containers[k].ran)
  /\ (At("idle") /\ call.ans = "started" /\ call.id \in fresh) =>
       containers[call.id].ran # NoImage
  /\ \A n \in Names \ (installed \union stuck) :
       (At("idle") \/ call.name # n) => disk[n] = NoImage

\* An install that goes on to create the container has what it was given in
\* the file that OCRE reads (akira_runtime.h: "Save WASM binary to OCRE's
\* image path").
SavedIsImage == At("create") => disk[call.name] = call.bin
=============================================================================
