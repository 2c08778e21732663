-------------------------- MODULE RemovableStorage --------------------------
(***************************************************************************)
(* Apps on an SD card: src/connectivity/storage/sd_manager.c and the part  *)
(* of the App Manager that installs from a path.  Mounting and unmounting  *)
(* take a mutex; scanning and installing read the state once without it    *)
(* and then go on, whatever happens to the card.  (Nothing ever mounts the *)
(* USB storage, so it refuses every call.)                                 *)
(*                                                                         *)
(* A name is a sequence of letters and a binary one of units.  The path of *)
(* a file is Dir, its name and Ext: one and two letters here, "/sd/apps/"  *)
(* and ".wasm" in the code.  The binaries on the card are changed by       *)
(* whoever holds it; the manifests stay.  The App Manager that gets a      *)
(* binary in the end is in module AppManager: here it installs it, refuses *)
(* it, or fails to save it and forgets the app.                            *)
(*                                                                         *)
(* History: told is the state last given to the callback, which is there   *)
(* from the start; a call is dirty when, since it began, the card was      *)
(* changed or unmounted or something failed.                               *)
(***************************************************************************)
EXTENDS Integers, FiniteSets, Sequences, SequencesExt

CONSTANTS
  Threads, \* callers
  Nobody,  \* nobody has the mutex
  Names,   \* names of the .wasm files that may be on the card
  Jsons,   \* the names n with a file Dir, n, ".json" on it
  Binaries,\* what they may hold: non-empty sequences of units
  NameMax, \* letters that a name in a list of apps keeps
  MaxList, \* names such a list has room for
  MaxSize, \* CONFIG_AKIRA_APP_MAX_SIZE_KB, in units
  MaxFaults, MaxChanges, MaxCalls \* bounds: calls that fail, changes of the card, calls

VARIABLES
  state, told, \* g_state, and what g_event_cb was told
  mounted,     \* the FAT file system is
  holder,      \* who has g_sd_mutex
  card,        \* each file's contents, empty when it is not there
  apps,        \* what was installed, by name: binary, whose manifest, dirty
  call,        \* what each thread is in the middle of
  faults, changes, calls

mount == <<state, told, mounted, holder>>
media == <<card, changes>>
vars == <<mount, media, apps, call, faults, calls>>

Absent == <<>>
Dir == <<"/">>
Ext == <<".", "w">>
NoApp == [bin |-> Absent, manifests |-> {}, dirty |-> FALSE]
Idle == [op |-> "none", at |-> "idle", todo |-> <<>>, read |-> {}, size |-> 0,
         bin |-> Absent, dirty |-> FALSE, ans |-> "none"]
At(t, op, at) == call[t].op \in op /\ call[t].at = at
Goes(t, at) == call' = [call EXCEPT ![t].at = at]
Ends(t, a) == call' = [call EXCEPT ![t].at = "idle", ![t].ans = a]
Calls(t, op, at, todo) ==
  /\ call[t].at = "idle" /\ calls < MaxCalls /\ calls' = calls + 1
  /\ call' = [call EXCEPT ![t] = [Idle EXCEPT !.op = op, !.at = at, !.todo = todo]]
Dirty == [t \in Threads |-> [call[t] EXCEPT !.dirty = TRUE]]
Fault == faults < MaxFaults /\ faults' = faults + 1
Notify(st) == state' = st /\ told' = IF state # st THEN st ELSE told

-----------------------------------------------------------------------------
(* sd_manager_mount(), sd_manager_unmount().                               *)

\* A card that is mounted is left alone, as is one that is not by the other.
Mount(t) ==
  /\ holder = Nobody /\ state # "MOUNTED"
  /\ Calls(t, "mount", "mount", <<>>) /\ holder' = t
  /\ UNCHANGED <<state, told, mounted, media, apps, faults>>

\* No card, a card that is not well, or no file system on it: ERROR.
MountDone(t) ==
  /\ At(t, {"mount"}, "mount") /\ holder' = Nobody
  /\ \/ Notify("MOUNTED") /\ mounted' = TRUE /\ Ends(t, "ok") /\ UNCHANGED faults
     \/ Fault /\ Notify("ERROR") /\ Ends(t, "error") /\ UNCHANGED mounted
  /\ UNCHANGED <<media, apps, calls>>

Unmount(t) ==
  /\ holder = Nobody /\ state = "MOUNTED"
  /\ Calls(t, "unmount", "unmount", <<>>) /\ holder' = t
  /\ UNCHANGED <<state, told, mounted, media, apps, faults>>

\* The file system goes first, the state after it; a refusal changes nothing.
UnmountFs(t) ==
  /\ At(t, {"unmount"}, "unmount")
  /\ \/ /\ mounted' = FALSE /\ call' = [Dirty EXCEPT ![t].at = "unmounted"]
        /\ UNCHANGED <<holder, faults>>
     \/ Fault /\ Ends(t, "error") /\ holder' = Nobody /\ UNCHANGED mounted
  /\ UNCHANGED <<state, told, media, apps, calls>>
UnmountDone(t) ==
  /\ At(t, {"unmount"}, "unmounted") /\ Ends(t, "ok")
  /\ Notify("UNMOUNTED") /\ holder' = Nobody
  /\ UNCHANGED <<mounted, media, apps, faults, calls>>

-----------------------------------------------------------------------------
(* sd_manager_scan_apps(), alone or as the first half of                   *)
(* sd_manager_install_all_apps().                                          *)

Scans == {"scan", "install all"}

\* -ENODEV when it is not mounted, once and for all.
Scan(t, op) ==
  /\ state = "MOUNTED" /\ Calls(t, op, "open", <<>>)
  /\ UNCHANGED <<mount, media, apps, faults>>

\* A directory that is not there is made; without a card both fail.
ScanOpen(t) ==
  /\ At(t, Scans, "open")
  /\ \/ mounted /\ Goes(t, "entries") /\ UNCHANGED faults
     \/ ~mounted /\ Ends(t, "error") /\ UNCHANGED faults
     \/ mounted /\ Fault /\ Ends(t, "error")
  /\ UNCHANGED <<mount, media, apps, calls>>

Files == {n \in Names : card[n] # Absent}
Cut(s) == SubSeq(s, 1, IF Len(s) < NameMax THEN Len(s) ELSE NameMax)
Room(c) == Len(c.todo) < MaxList

ScanEntry(t) ==
  LET c == call[t] IN
  /\ At(t, Scans, "entries") /\ Room(c) /\ mounted
  /\ \E n \in Files \ c.read :
       call' = [call EXCEPT ![t].todo = Append(@, Cut(n)), ![t].read = @ \union {n}]
  /\ UNCHANGED <<mount, media, apps, faults, calls>>

\* A directory that cannot be read is one that ends.
ScanEnd(t) ==
  LET c == call[t]
      Over(d) == call' = [call EXCEPT ![t].dirty = @ \/ d,
                            ![t].at = IF c.op = "scan" THEN "idle" ELSE "next",
                            ![t].todo = IF c.op = "scan" THEN <<>> ELSE @, ![t].ans = "ok"]
  IN
  /\ At(t, Scans, "entries")
  /\ \/ ((Room(c) /\ mounted) => Files \subseteq c.read) /\ Over(FALSE) /\ UNCHANGED faults
     \/ Fault /\ Over(TRUE)
  /\ UNCHANGED <<mount, media, apps, calls>>

-----------------------------------------------------------------------------
(* sd_manager_install_app() and app_manager_install_from_path(), once or   *)
(* for each name of the list, whose failures are only counted.             *)

Installs == {"install", "install all"}

Install(t, n) ==
  /\ Calls(t, "install", "next", <<n>>)
  /\ UNCHANGED <<mount, media, apps, faults>>

Name(t) == Head(call[t].todo)
Contents(n) == IF mounted /\ n \in Names THEN card[n] ELSE Absent
After(t, a) == [call[t] EXCEPT !.at = "next", !.todo = Tail(@), !.size = 0, !.bin = Absent,
                  !.ans = IF call[t].op = "install" THEN a ELSE @]
Skips(t) == call' = [call EXCEPT ![t] = After(t, "error")]
Fails(t) == Fault /\ call' = [call EXCEPT ![t] = [After(t, "error") EXCEPT !.dirty = TRUE]]

InstallNext(t) ==
  /\ At(t, Installs, "next")
  /\ IF call[t].todo = <<>> THEN Goes(t, "idle")
     ELSE IF state = "MOUNTED" THEN Goes(t, "size") ELSE Skips(t)
  /\ UNCHANGED <<mount, media, apps, faults, calls>>

\* No such file, or one that is too large.
InstallSize(t) ==
  LET b == Contents(Name(t)) IN
  /\ At(t, Installs, "size")
  /\ IF b = Absent \/ Len(b) > MaxSize THEN Skips(t)
     ELSE call' = [call EXCEPT ![t].at = "read", ![t].size = Len(b)]
  /\ UNCHANGED <<mount, media, apps, faults, calls>>

\* As many units as the file had: one that grew is cut, one that shrank fails,
\* as does a buffer that cannot be had.
InstallRead(t) ==
  LET b == Contents(Name(t)) IN
  /\ At(t, Installs, "read")
  /\ \/ /\ IF Len(b) < call[t].size THEN Skips(t)
           ELSE call' = [call EXCEPT ![t].at = "manifest", ![t].bin = SubSeq(b, 1, call[t].size)]
        /\ UNCHANGED faults
     \/ Fails(t)
  /\ UNCHANGED <<mount, media, apps, calls>>

\* The file's name, cut, up to the first Ext in it: the end of a long name is
\* part of an Ext that is not whole.
AppName(n) ==
  LET f == Cut(n \o Ext)
      i == {j \in 1 .. Len(f) - 1 : SubSeq(f, j, j + 1) = Ext}
  IN IF i = {} THEN f ELSE SubSeq(f, 1, Min(i) - 1)

\* The manifest of as many letters of the whole path as that name has: one
\* there is, unless it cannot be read as one.
Manifests(n) ==
  LET prefix == SubSeq(Dir \o n \o Ext, 1, Len(AppName(n)))
  IN {m \in Jsons : mounted /\ Dir \o m = prefix}

InstallManifest(t) ==
  LET n == AppName(Name(t)) IN
  /\ At(t, Installs, "manifest")
  /\ \/ /\ call' = [call EXCEPT ![t] = After(t, "ok")]
        /\ \E ms \in {{}, Manifests(Name(t))} :
             apps' = [apps EXCEPT ![n] = [bin |-> call[t].bin, manifests |-> ms,
                                          dirty |-> call[t].dirty]]
        /\ UNCHANGED faults
     \/ Fails(t) /\ UNCHANGED apps
     \/ /\ Fault /\ apps' = [apps EXCEPT ![n] = NoApp]
        /\ call' = [Dirty EXCEPT ![t] = [After(t, "error") EXCEPT !.dirty = TRUE]]
  /\ UNCHANGED <<mount, media, calls>>

-----------------------------------------------------------------------------
\* Someone writes the card, or puts another one in.
CardChanges(n, b) ==
  /\ changes < MaxChanges /\ changes' = changes + 1
  /\ card[n] # b /\ card' = [card EXCEPT ![n] = b] /\ call' = Dirty
  /\ UNCHANGED <<mount, apps, faults, calls>>

AppNames == {AppName(n) : n \in Names \union {Cut(m) : m \in Names}}

Init ==
  /\ state = "UNMOUNTED" /\ told = state /\ mounted = FALSE /\ holder = Nobody
  /\ card \in [Names -> Binaries \union {Absent}]
  /\ apps = [n \in AppNames |-> NoApp] /\ call = [t \in Threads |-> Idle]
  /\ faults = 0 /\ changes = 0 /\ calls = 0

Next ==
  \/ \E t \in Threads :
       \/ Mount(t) \/ MountDone(t) \/ Unmount(t) \/ UnmountFs(t) \/ UnmountDone(t)
       \/ \E op \in Scans : Scan(t, op)
       \/ ScanOpen(t) \/ ScanEntry(t) \/ ScanEnd(t)
       \/ \E n \in Names : Install(t, n)
       \/ InstallNext(t) \/ InstallSize(t) \/ InstallRead(t) \/ InstallManifest(t)
  \/ \E n \in Names, b \in Binaries \union {Absent} : CardChanges(n, b)

Spec == Init /\ [][Next]_vars

-----------------------------------------------------------------------------
(* Properties.                                                             *)

\* The variables keep their types.
TypeOK ==
  /\ state \in {"UNMOUNTED", "MOUNTED", "ERROR"} /\ mounted \in BOOLEAN
  /\ holder \in Threads \union {Nobody} /\ DOMAIN apps = AppNames
  /\ \A t \in Threads : Len(call[t].todo) <= MaxList /\ call[t].size <= MaxSize

\* Whenever the mutex is free, the state says whether the card is mounted
\* and is what the callback was told last.  A scan that came back, with the
\* card untouched and mounted all along, has listed each app there, or as
\* many as it has room for.  An app was installed from a whole binary, or
\* the card changed since the call began.  An install of all apps that nothing
\* disturbed and that answered well has installed each app of its list that is
\* there and not too large, under the name that is left of its file's.
StorageSound ==
  /\ holder = Nobody => (mounted <=> state = "MOUNTED") /\ told = state
  /\ \A n \in AppNames : apps[n] # NoApp => (apps[n].bin \in Binaries \/ apps[n].dirty)
  /\ \A t \in Threads : LET c == call[t] IN
       (c.at = "idle" /\ c.ans = "ok" /\ ~c.dirty) =>
         /\ c.op \in Scans => (c.read = Files \/ Cardinality(c.read) = MaxList)
         /\ c.op = "install all" =>
              \A n \in Files \cap {Cut(m) : m \in c.read} :
                Len(card[n]) <= MaxSize => apps[AppName(n)] # NoApp
=============================================================================
