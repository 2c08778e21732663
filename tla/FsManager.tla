----------------------------- MODULE FsManager -----------------------------
(* The file system manager (storage/fs_manager.c): the files it keeps in RAM
   under ram_mutex, the files on disk it reaches through Zephyr's file system
   without any lock, and the fall back from the second to the first. A write to
   disk is open, truncate, write; an append to RAM is read, then write. Between
   the steps other threads run. The disk and the allocator may fail MaxFaults
   times. Content is a sequence of data units. *)
EXTENDS Integers, FiniteSets, Sequences, SequencesExt, Functions, FiniteSetsExt

CONSTANTS Threads,     \* the threads that call the manager
          RamPaths,    \* paths below /ram/ and /tmp/
          DiskPaths,   \* every other path
          Persistent,  \* internal_available or sd_available, found at init
          Datas,       \* what callers write: sequences of units
          RamFiles,    \* RAM_FILE_MAX_COUNT
          RamFileSize, \* RAM_FILE_MAX_SIZE, in units
          MaxDisk,     \* bound: length of a disk file that is appended to
          MaxFaults    \* bound: failures of the disk and of k_malloc

VARIABLES ram,     \* ram_files: the names in use, their data and capacity
          disk,    \* the files of the mounted file systems (external)
          heap,    \* units allocated: for the buffer of a path, for the append of a thread
          faults,  \* failures so far
          call,    \* what each thread is in the middle of
          acked    \* per path: what the last answered write stored, and where

vars == <<ram, disk, heap, faults, call, acked>>

Paths == RamPaths \union DiskPaths
Unknown == [on |-> "unknown", data |-> <<>>]
Idle == [at |-> "idle", path |-> "", data |-> <<>>, got |-> <<>>, cut |-> TRUE]

(* is_ram_path *)
IsRam(p) == p \in RamPaths \/ ~Persistent

Fault == faults < MaxFaults /\ faults' = faults + 1
NoFault == UNCHANGED faults

(* Data written at the start of a file that holds old. *)
Overlay(old, d) == d \o SubSeq(old, Len(d) + 1, Len(old))

Drop(f, p) == Restrict(f, DOMAIN f \ {p})
Put(f, p, v) == [q \in DOMAIN f \union {p} |-> IF q = p THEN v ELSE f[q]]

(* ------------------------------ ram_files ------------------------------ *)

NoFile == [data |-> <<>>, cap |-> 0]
RamFile(p) == IF p \in DOMAIN ram THEN ram[p] ELSE NoFile
NoSlot(p) == p \notin DOMAIN ram /\ Cardinality(DOMAIN ram) >= RamFiles

(* ram_read_file: at most max units. A file written with no data has no buffer
   and reads as missing. *)
RamReadable(p) == p \in DOMAIN ram /\ ram[p].cap > 0
RamRead(p, max) ==
    IF RamReadable(p) THEN SubSeq(ram[p].data, 1, Min({max, Len(ram[p].data)})) ELSE <<>>

(* Units of x's are allocated or freed, in a heap h; free takes what the code
   knows to be there. *)
Allocated(h, x, n) == [h EXCEPT ![x] = @ + n]
Freed(h, x, n) == [h EXCEPT ![x] = @ - n]

(* The buffer of a file that grows: the old one is freed first. *)
Grown(h, p, d) == Allocated(Freed(h, p, RamFile(p).cap), p, Len(d))

(* ram_write_file; h is the heap once the caller has freed its own buffer. ok: it
   stored the data. *)
RamWrite(p, d, ok, h) ==
    \/ /\ ok /\ ~NoSlot(p) /\ RamFile(p).cap >= Len(d)
       /\ ram' = Put(ram, p, [data |-> d, cap |-> RamFile(p).cap])
       /\ heap' = h
       /\ NoFault
    \/ /\ ok /\ ~NoSlot(p) /\ RamFile(p).cap < Len(d)
       /\ ram' = Put(ram, p, [data |-> d, cap |-> Len(d)])
       /\ heap' = Grown(h, p, d)
       /\ NoFault
    \/ /\ ~ok /\ NoSlot(p)
       /\ heap' = h
       /\ UNCHANGED ram /\ NoFault
    \/ /\ ~ok /\ ~NoSlot(p) /\ RamFile(p).cap < Len(d)
       /\ ram' = Drop(ram, p)
       /\ heap' = Freed(h, p, RamFile(p).cap)
       /\ Fault

(* ------------------------------- the calls ----------------------------- *)

Enter(t, at, p, d, got) ==
    /\ call[t].at = "idle"
    /\ call' = [call EXCEPT ![t] = [at |-> at, path |-> p, data |-> d,
                                    got |-> got, cut |-> TRUE]]
At(t, at) == call[t].at = at
Return(t) == call' = [call EXCEPT ![t] = Idle]

(* What the answer lets callers expect of p, when the call had the path to
   itself: Own marks the path as t's, any other call on it takes the mark away. *)
Alone(t, p) == \A u \in Threads \ {t} : call[u].path # p
Mark(p, on, d) == acked' = [acked EXCEPT ![p] = [on |-> on, data |-> d]]
Forget(p) == Mark(p, "unknown", <<>>)
Own(t, p) == IF Alone(t, p) THEN Mark(p, t, <<>>) ELSE Forget(p)
Answer(t, p, ok, on, d) ==
    IF ok /\ Alone(t, p) /\ (At(t, "idle") \/ acked[p].on = t)
    THEN Mark(p, on, d) ELSE Forget(p)

(* fs_manager_write_file on a RAM path *)
WriteRam(t, p, d) ==
    /\ call[t].at = "idle" /\ IsRam(p)
    /\ \E ok \in BOOLEAN : RamWrite(p, d, ok, heap) /\ Answer(t, p, ok, "ram", d)
    /\ UNCHANGED <<disk, call>>

(* fs_open with FS_O_CREATE, after the parent directory is made *)
WriteOpen(t, p, d) ==
    /\ ~IsRam(p)
    /\ \/ /\ Enter(t, "opened", p, d, <<>>) /\ NoFault
          /\ disk' = IF p \in DOMAIN disk THEN disk ELSE Put(disk, p, <<>>)
       \/ /\ Enter(t, "fallback", p, d, <<>>) /\ Fault
          /\ UNCHANGED disk
    /\ Own(t, p)
    /\ UNCHANGED <<ram, heap>>

(* The open file may have been unlinked: then what is written to it is lost. *)
Store(p, d) == disk' = IF p \in DOMAIN disk THEN Put(disk, p, d) ELSE disk
Disk(p) == IF p \in DOMAIN disk THEN disk[p] ELSE <<>>

(* fs_truncate; its return value is not looked at *)
TruncatedBug(p) == Disk(p)  \* mutation: the file is not cut
Truncated(p) == <<>>
WriteTruncate(t) ==
    LET p == call[t].path IN
    /\ At(t, "opened")
    /\ \/ /\ Store(p, Truncated(p)) /\ NoFault
          /\ call' = [call EXCEPT ![t].at = "truncated"]
       \/ /\ Fault /\ UNCHANGED disk
          /\ call' = [call EXCEPT ![t].at = "truncated", ![t].cut = FALSE]
    /\ UNCHANGED <<ram, heap, acked>>

(* fs_write: whole, short, or an error that sends the data to RAM *)
WriteData(t) ==
    LET p == call[t].path  d == call[t].data IN
    /\ At(t, "truncated")
    /\ \/ /\ Store(p, Overlay(Disk(p), d)) /\ NoFault /\ Return(t)
          /\ Answer(t, p, call[t].cut /\ p \in DOMAIN disk, "disk", d)
       \/ /\ d # <<>> /\ Store(p, Overlay(Disk(p), Front(d))) /\ Fault /\ Return(t)
          /\ Forget(p)
       \/ /\ Fault /\ call' = [call EXCEPT ![t].at = "fallback"]
          /\ UNCHANGED <<disk, acked>>
    /\ UNCHANGED <<ram, heap>>

WriteFallback(t) ==
    LET p == call[t].path IN
    /\ At(t, "fallback") /\ Return(t)
    /\ \E ok \in BOOLEAN :
         RamWrite(p, call[t].data, ok, heap) /\ Answer(t, p, ok, "ram", call[t].data)
    /\ UNCHANGED disk

(* fs_manager_append_file on a RAM path: what fits beside the new data is read
   into a buffer of RAM_FILE_MAX_SIZE, and the whole is written back. *)
AppendRead(t, p, d) ==
    /\ IsRam(p) /\ d # <<>> /\ Len(d) <= RamFileSize
    /\ Enter(t, "append", p, d, RamRead(p, RamFileSize - Len(d)))
    /\ heap' = Allocated(heap, t, RamFileSize) /\ NoFault
    /\ Own(t, p)
    /\ UNCHANGED <<ram, disk>>

AppendWrite(t) ==
    LET p == call[t].path  whole == call[t].got \o call[t].data IN
    /\ At(t, "append") /\ Return(t)
    /\ \E ok \in BOOLEAN :
         /\ RamWrite(p, whole, ok, Freed(heap, t, RamFileSize))
         /\ Answer(t, p, ok, "ram", whole)
    /\ UNCHANGED disk

(* fs_manager_append_file on disk: open creates the file; an error is returned,
   there is no fall back, and a copy in RAM is not looked at. *)
AppendDisk(t, p, d) ==
    /\ call[t].at = "idle" /\ ~IsRam(p)
    /\ Len(Disk(p)) + Len(d) <= MaxDisk
    /\ \E n \in 0 .. Len(d) :
         /\ IF n = Len(d) THEN NoFault ELSE Fault
         /\ disk' = Put(disk, p, Disk(p) \o SubSeq(d, 1, n))
    /\ Forget(p)
    /\ UNCHANGED <<ram, heap, call>>

(* fs_manager_delete_file: both copies, or only the one in RAM when the disk
   refuses *)
Delete(t, p) ==
    /\ call[t].at = "idle"
    /\ \/ IsRam(p) /\ UNCHANGED disk /\ NoFault
       \/ ~IsRam(p) /\ disk' = Drop(disk, p) /\ NoFault
       \/ ~IsRam(p) /\ UNCHANGED disk /\ Fault
    /\ ram' = Drop(ram, p)
    /\ heap' = Freed(heap, p, RamFile(p).cap)
    /\ Forget(p)
    /\ UNCHANGED call

(* fs_manager_read_file, get_size, exists: the disk first, RAM when the file
   cannot be opened there *)
ReadOf(p) == IF ~IsRam(p) /\ p \in DOMAIN disk THEN disk[p]
             ELSE RamRead(p, Len(RamFile(p).data))

(* The memory is cleared by fs_manager_init, the disk keeps what it had. *)
Init ==
    /\ ram = [p \in {} |-> NoFile]
    /\ disk \in UNION {[D -> {<<>>} \union Datas] : D \in SUBSET
                        (IF Persistent THEN DiskPaths ELSE {})}
    /\ heap = [x \in Paths \union Threads |-> 0] /\ faults = 0
    /\ call = [t \in Threads |-> Idle]
    /\ acked = [p \in Paths |-> Unknown]

Next == \E t \in Threads :
    \/ \E p \in Paths, d \in Datas :
         WriteRam(t, p, d) \/ WriteOpen(t, p, d) \/ AppendRead(t, p, d)
         \/ AppendDisk(t, p, d)
    \/ \E p \in Paths : Delete(t, p)
    \/ WriteTruncate(t) \/ WriteData(t) \/ WriteFallback(t) \/ AppendWrite(t)

Spec == Init /\ [][Next]_vars

TypeOK ==
    /\ DOMAIN ram \subseteq Paths /\ DOMAIN disk \subseteq DiskPaths
    /\ \A p \in DOMAIN ram : ram[p].cap \in Nat
    /\ heap \in [Paths \union Threads -> Int] /\ faults \in 0 .. MaxFaults
    /\ \A t \in Threads :
         call[t].at \in {"idle", "opened", "truncated", "fallback", "append"}

(* Every unit the manager has allocated is the buffer of a file in use or of an
   append in progress: the paths that give up free what they hold, once. *)
HeapIsHeld ==
    /\ \A p \in Paths : heap[p] = RamFile(p).cap
    /\ \A t \in Threads : heap[t] = IF call[t].at = "append" THEN RamFileSize ELSE 0

(* A file in RAM fits its buffer, and there are never more than the table has
   slots for. *)
RamFits ==
    /\ Cardinality(DOMAIN ram) <= RamFiles
    /\ \A p \in DOMAIN ram : Len(ram[p].data) <= ram[p].cap

(* What a write that nobody disturbed answered is what the next read of that
   path gives: a copy left in RAM by an earlier fall back does not come before
   the disk, the old content does not show through the new. (Data that fell back
   to RAM while the disk keeps a file of that name is the exception: the read
   finds the file on disk.) *)
AnsweredIsRead ==
    \A p \in Paths :
        \/ acked[p].on \notin {"ram", "disk"}
        \/ acked[p].on = "ram" /\ ~IsRam(p) /\ p \in DOMAIN disk
        \/ ReadOf(p) = acked[p].data

(* The file system manager as a whole: memory, tables and answers. *)
StoreSound == HeapIsHeld /\ RamFits /\ AnsweredIsRead
=============================================================================
