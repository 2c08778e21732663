----------------------------- MODULE AppStorage -----------------------------
(***************************************************************************)
(* The storage API of WASM apps, src/api/akira_storage_api.c: read, write, *)
(* delete and list of the files of an app.  get_current_app_name() is one  *)
(* name for all, so the apps share one directory and nothing locks it.     *)
(*                                                                         *)
(* The file system is external: opening to write cuts the file to nothing, *)
(* data is written over what is there from the file's beginning, and a     *)
(* call may fail or write short.  The directory is read an entry at a      *)
(* time, in any order; there are no others, since nothing makes them.  A   *)
(* file that was deleted after it was opened reads as nothing.             *)
(*                                                                         *)
(* History: last is what the last write of each file gave it if no other   *)
(* write or delete overlapped with it, <<>> if there is no such write.     *)
(***************************************************************************)
EXTENDS Integers, Sequences, FiniteSets, SequencesExt

CONSTANTS
  Threads,  \* the apps
  Names,    \* paths that are accepted
  Refused,  \* paths that sanitize_path() or build_app_path() refuse
  Datas,    \* what is written
  MaxList,  \* max_count of a list
  MaxFaults, MaxWrites \* bounds

VARIABLES
  dir,    \* the app's directory exists
  files,  \* of each name <<>>, or <<content>>
  call,   \* of each thread
  last,   \* history
  writes, faults

vars == <<dir, files, call, last, writes, faults>>

Idle == [at |-> "idle", name |-> "", data |-> <<>>, names |-> <<>>,
         disturbed |-> FALSE, there |-> {}]
At(t, at) == call[t].at = at
Ends(t) == call' = [call EXCEPT ![t] = Idle]
Fault == faults < MaxFaults /\ faults' = faults + 1

\* Calls under way on file n are disturbed by what thread t does to it.
Disturbs(t, n, next) ==
  call' = [u \in Threads |->
            IF u = t THEN next
            ELSE IF call[u].name = n THEN [call[u] EXCEPT !.disturbed = TRUE]
            ELSE IF At(u, "list") THEN [call[u] EXCEPT !.there = @ \ {n}]
            ELSE call[u]]
Written(t, n) == \E u \in Threads \ {t} : At(u, "write") /\ call[u].name = n

-----------------------------------------------------------------------------
(* akira_storage_write().                                                  *)

\* ensure_app_dir_exists(), whose answer nobody looks at, before the path is.
Write(t, n, d) ==
  /\ At(t, "idle") /\ writes < MaxWrites /\ writes' = writes + 1
  /\ call' = [call EXCEPT ![t] = [Idle EXCEPT !.at = "open", !.name = n, !.data = d]]
  /\ \/ dir' = TRUE /\ UNCHANGED faults
     \/ ~dir /\ Fault /\ UNCHANGED dir
  /\ UNCHANGED <<files, last>>

WriteRefused(t) ==
  /\ At(t, "open") /\ Ends(t)
  /\ \/ (call[t].name \in Refused \/ ~dir) /\ UNCHANGED faults
     \/ Fault
  /\ UNCHANGED <<dir, files, last, writes>>

Truncated(n) == [files EXCEPT ![n] = << <<>> >>]
WriteOpen(t) ==
  LET n == call[t].name IN
  /\ At(t, "open") /\ n \in Names /\ dir
  /\ files' = Truncated(n) /\ last' = [last EXCEPT ![n] = <<>>]
  /\ Disturbs(t, n, [call[t] EXCEPT !.at = "write", !.disturbed = Written(t, n)])
  /\ UNCHANGED <<dir, writes, faults>>

\* data over the beginning of what is there
Over(old, data) == data \o SubSeq(old, Len(data) + 1, Len(old))
WriteData(t) ==
  LET n == call[t].name IN
  /\ At(t, "write") /\ Disturbs(t, n, Idle)
  /\ \E k \in 0 .. Len(call[t].data) :
       LET d == SubSeq(call[t].data, 1, k) IN
       /\ IF k = Len(call[t].data) THEN UNCHANGED faults ELSE Fault
       /\ files' = IF files[n] = <<>> THEN files ELSE [files EXCEPT ![n] = <<Over(@[1], d)>>]
       /\ last' = [last EXCEPT ![n] = IF call[t].disturbed THEN <<>> ELSE <<d>>]
  /\ UNCHANGED <<dir, writes>>

-----------------------------------------------------------------------------
(* akira_storage_delete(), akira_storage_read() and akira_storage_list().  *)

Delete(t, n) ==
  /\ At(t, "idle") /\ files[n] # <<>>
  /\ files' = [files EXCEPT ![n] = <<>>] /\ last' = [last EXCEPT ![n] = <<>>]
  /\ Disturbs(t, n, Idle)
  /\ UNCHANGED <<dir, writes, faults>>

Read(t, n) ==
  /\ At(t, "idle") /\ files[n] # <<>>
  /\ call' = [call EXCEPT ![t] = [Idle EXCEPT !.at = "read", !.name = n,
                !.disturbed = Written(t, n)]]
  /\ UNCHANGED <<dir, files, last, writes, faults>>
ReadData(t) ==
  LET n == call[t].name IN
  /\ At(t, "read") /\ UNCHANGED <<dir, files, last, writes>>
  /\ \/ /\ call' = [call EXCEPT ![t].at = "done",
                      ![t].data = IF files[n] = <<>> THEN <<>> ELSE files[n][1]]
        /\ UNCHANGED faults
     \/ Fault /\ Ends(t)

\* there are the files that are there from beginning to end of the list.
List(t) ==
  /\ At(t, "idle") /\ dir
  /\ call' = [call EXCEPT ![t] = [Idle EXCEPT
       !.at = "list", !.there = {n \in Names : files[n] # <<>>}]]
  /\ UNCHANGED <<dir, files, last, writes, faults>>
Listable(t) == {n \in Names : files[n] # <<>>} \ ToSet(call[t].names)
ListEntry(t) ==
  /\ At(t, "list") /\ Len(call[t].names) < MaxList
  /\ \E n \in Listable(t) : call' = [call EXCEPT ![t].names = Append(@, n)]
  /\ UNCHANGED <<dir, files, last, writes, faults>>
ListEnd(t) == Len(call[t].names) = MaxList \/ Listable(t) = {}
ListDone(t) ==
  /\ At(t, "list") /\ ListEnd(t) /\ call' = [call EXCEPT ![t].at = "listed"]
  /\ UNCHANGED <<dir, files, last, writes, faults>>

\* The app has its answer.
Return(t) ==
  /\ call[t].at \in {"done", "listed"} /\ Ends(t)
  /\ UNCHANGED <<dir, files, last, writes, faults>>

-----------------------------------------------------------------------------
Init ==
  /\ dir = FALSE /\ files = [n \in Names |-> <<>>]
  /\ call = [t \in Threads |-> Idle] /\ last = [n \in Names |-> <<>>]
  /\ writes = 0 /\ faults = 0

Next == \E t \in Threads :
  \/ \E n \in Names \union Refused, d \in Datas : Write(t, n, d)
  \/ WriteRefused(t) \/ WriteOpen(t) \/ WriteData(t)
  \/ \E n \in Names : Delete(t, n) \/ Read(t, n)
  \/ ReadData(t) \/ List(t) \/ ListEntry(t) \/ ListDone(t) \/ Return(t)

Spec == Init /\ [][Next]_vars

-----------------------------------------------------------------------------
(* Properties.                                                             *)

\* The variables keep their types.
TypeOK ==
  /\ dir \in BOOLEAN /\ \A n \in Names : Len(files[n]) <= 1 /\ Len(last[n]) <= 1
  /\ \A t \in Threads : call[t].at \in
       {"idle", "open", "write", "read", "done", "list", "listed"}

\* A file whose last write no other call touched holds what that call was
\* told it wrote, whatever was in it before; a read that no write or delete
\* came into returns such content; and a list that ended before its limit has
\* every file that was there all the time, none twice.
FilesSound ==
  /\ \A n \in Names : last[n] # <<>> => files[n] = last[n]
  /\ \A t \in Threads :
       /\ (At(t, "done") /\ ~call[t].disturbed /\ last[call[t].name] # <<>>)
            => call[t].data = last[call[t].name][1]
       /\ At(t, "listed") =>
            /\ IsInjective(call[t].names)
            /\ Len(call[t].names) < MaxList => call[t].there \subseteq ToSet(call[t].names)
=============================================================================
