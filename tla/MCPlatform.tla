----------------------------- MODULE MCPlatform -----------------------------
(* Storage, settings, apps and devices for TLC, side by side: each component  *)
(* has its variables and its constants, and the one in focus runs while the   *)
(* others rest.  A component that is proved about is instantiated at the head *)
(* of its proofs; then come the three of settings, the initial states, the    *)
(* steps, the properties and what holds of the components together.           *)
EXTENDS Integers, Sequences, FiniteSetTheorems, SequenceTheorems,
        WellFoundedInduction, TLAPS, TLC

CONSTANTS
  Callers, \* the threads of those that have several
  NoCaller,
  RamPaths, DiskPaths, Persistent, RamFiles, RamFileSize, \* as in FsManager
  CardNames, Jsons, CardBinaries, CardNameMax, MaxSize,   \* as in RemovableStorage
  StorageNames, Refused,                                  \* as in AppStorage
  Slots, Caps,                                            \* as in AppLoader
  RuntimeNames, Unnamed, Binaries, Containers,             \* as in AkiraRuntime
  ContainerNames, PowerNameMax, Policies, Modes, MaxPolicies, \* as in PowerManager
  MaxWidgets, MaxScreens, Spots,                         \* as in UiFramework
  Blocks, NoBlock, Pins, Speeds, DriverNames, Types, MaxDrivers, \* as in Hal
  Datas, MaxList, \* what is written to files, names that a list has room for
  RuntimeFaults, MaxFileFaults, MaxFaults, \* bounds: calls that fail under the
                  \* runtime, under the file manager and under each other component
  MaxDisk, MaxChanges, MaxCalls, MaxWrites, MaxLoads, MaxPolls, MaxInstalls, MaxSets
                  \* bounds and retries of the components

VARIABLES
  focus, \* the component that runs
  fsRam, fsDisk, fsHeap, fsFaults, fsCall, fsAcked,        \* FsManager
  state, told, mounted, holder, card, cardApps,            \* RemovableStorage
  cardCall, cardFaults, changes, calls,
  dir, storageFiles, storageCall, last, writes,            \* AppStorage
  storageFaults,
  memory, dirty, stored, lock, userCall, queued, heard,    \* UserSettings
  boots, overtaken, crossed,
  nvs, limit, up, queue, flashJob, flashCall,              \* AkiraSettings
  flashFaults, flashAcked, flashLists,
  sdFiles, sdRam, sdJob, sdFaults, sdAcked,             \* SdSettings
  loaderApps, loaderCount, loaderHeap, loads,              \* AppLoader
  loaderCall,
  runtimeDisk, runtimeRam, containers, requests, owner,    \* AkiraRuntime
  runtimeCall, installed, fresh, cut, stuck, installs,
  runtimeFaults,
  table, powerCount, mode, powerCall, wanted,              \* PowerManager
  overlapped, outside,
  widgets, screens, current, sent,                         \* UiFramework
  hwHeap, list, enabled, speed, hwCall, called, sets,      \* Hal
  hwFaults, dangling, again, ready, drivers, held

fsVars == <<fsRam, fsDisk, fsHeap, fsFaults, fsCall, fsAcked>>
cardVars == <<state, told, mounted, holder, card, cardApps, cardCall, cardFaults,
        changes, calls>>
storageVars == <<dir, storageFiles, storageCall, last, writes, storageFaults>>
userVars == <<memory, dirty, stored, lock, userCall, queued, heard, boots,
        overtaken, crossed>>
flashVars == <<nvs, limit, up, queue, flashJob, flashCall, flashFaults, flashAcked,
        flashLists>>
sdVars == <<sdFiles, sdRam, sdJob, sdFaults, sdAcked>>
loaderVars == <<loaderApps, loaderCount, loaderHeap, loads, loaderCall>>
runtimeVars == <<runtimeDisk, runtimeRam, containers, requests, owner, runtimeCall,
        installed, fresh, cut, stuck, installs, runtimeFaults>>
powerVars == <<table, powerCount, mode, powerCall, wanted, overlapped, outside>>
uiVars == <<widgets, screens, current, sent>>
hwVars == <<hwHeap, list, enabled, speed, hwCall, called, sets, hwFaults,
        dangling, again, ready, drivers, held>>

\* Numbers have a least.
LEMMA Least ==
  ASSUME NEW S \in SUBSET Nat, S # {} PROVE \E x \in S : \A y \in S : x <= y
<1>1. PICK x \in S : \A y \in S : ~(<<y, x>> \in OpToRel(<, Nat))
  BY NatLessThanWellFounded, WFMin
<1>2. ASSUME NEW y \in S PROVE x <= y
  <2>1. x \in Nat /\ y \in Nat /\ ~(y < x)
    BY <1>1 DEF OpToRel
  <2> QED
    BY <2>1
<1> QED
  BY <1>2

-----------------------------------------------------------------------------
(* The file manager, and what is proved of it.                              *)

Fs == INSTANCE FsManager WITH
  Threads <- Callers, MaxFaults <- MaxFileFaults, ram <- fsRam,
  disk <- fsDisk, heap <- fsHeap, faults <- fsFaults, call <- fsCall,
  acked <- fsAcked

\* What the proof asks of the constants: the threads are told from the paths
\* and from the places where an answer was stored.
FsOK == /\ Callers \cap (Fs!Paths \union {"ram", "disk", "unknown"}) = {}
        /\ "" \notin Fs!Paths
        /\ Datas \subseteq Seq(Nat)
        /\ RamFiles \in Nat /\ RamFileSize \in Nat

\* The finite sets of FsManager are those of the library.
LEMMA FsSets == \A S : /\ Fs!Cardinality(S) = Cardinality(S)
                       /\ Fs!IsFiniteSet(S) <=> IsFiniteSet(S)
BY DEF Fs!Cardinality, Cardinality, Fs!IsFiniteSet, IsFiniteSet

FsCalls == [at : {"idle", "opened", "truncated", "fallback", "append"},
            path : Fs!Paths \union {""}, data : Seq(Nat), got : Seq(Nat), cut : BOOLEAN]
Heaps == [Fs!Paths \union Callers -> Int]
AckMarks == [on : {"unknown", "ram", "disk"} \union Callers, data : Seq(Nat)]
AckMap == [Fs!Paths -> AckMarks]
RamTyped == /\ DOMAIN fsRam \subseteq Fs!Paths /\ Fs!IsFiniteSet(DOMAIN fsRam)
            /\ fsRam \in [DOMAIN fsRam -> [data : Seq(Nat), cap : Nat]]
DiskTyped == DOMAIN fsDisk \subseteq DiskPaths /\ fsDisk \in [DOMAIN fsDisk -> Seq(Nat)]
FsTyped == /\ DiskTyped
           /\ fsCall \in [Callers -> FsCalls]
           /\ fsAcked \in AckMap
           /\ fsHeap \in Heaps

\* What a read of p finds, when the files in RAM fit their buffers.
FileContent(p) == IF ~Fs!IsRam(p) /\ p \in DOMAIN fsDisk THEN fsDisk[p] ELSE Fs!RamFile(p).data

\* A path is marked as a thread's only while no other is on it, and a file that
\* its thread has cut is empty.
CallSees(u) ==
  /\ fsCall[u].at = "idle" => fsCall[u] = Fs!Idle
  /\ fsCall[u].at # "idle" => fsCall[u].path \in Fs!Paths
  /\ fsCall[u].at \in {"opened", "truncated", "fallback"} => ~Fs!IsRam(fsCall[u].path)
  /\ fsCall[u].at = "truncated" /\ fsCall[u].cut /\ fsAcked[fsCall[u].path].on = u
       /\ fsCall[u].path \in DOMAIN fsDisk => fsDisk[fsCall[u].path] = <<>>
OwnerTold(q) ==
  \A u \in Callers : fsCall[u].path = q /\ fsAcked[q].on # "unknown" => fsAcked[q].on = u
AnswerHolds(q) ==
  fsAcked[q].on \in {"ram", "disk"} =>
    \/ fsAcked[q].on = "ram" /\ ~Fs!IsRam(q) /\ q \in DOMAIN fsDisk
    \/ FileContent(q) = fsAcked[q].data
Answers == (\A u \in Callers : CallSees(u)) /\ (\A q \in Fs!Paths : OwnerTold(q) /\ AnswerHolds(q))

FsInv == RamTyped /\ Fs!RamFits /\ FsTyped /\ Fs!HeapIsHeld /\ Answers

\* The record of a path that has no file in RAM is that of an empty one.
LEMMA RamFileTyped ==
  ASSUME RamTyped, NEW p
  PROVE  Fs!RamFile(p) \in [data : Seq(Nat), cap : Nat]
<1>1. Fs!NoFile \in [data : Seq(Nat), cap : Nat]
  BY EmptySeq DEF Fs!NoFile
<1> QED
  BY <1>1 DEF RamTyped, Fs!RamFile

\* A read finds the content of the path (ram_read_file).
LEMMA ReadsContent ==
  ASSUME RamTyped, Fs!RamFits, NEW p \in Fs!Paths
  PROVE  Fs!ReadOf(p) = FileContent(p)
<1> DEFINE f == Fs!RamFile(p)
<1>1. f.data \in Seq(Nat) /\ f.cap \in Nat /\ Len(f.data) \in Nat
  BY RamFileTyped, LenProperties
<1>2. Fs!Min({Len(f.data), Len(f.data)}) = Len(f.data)
  <2>1. {Len(f.data), Len(f.data)} = {Len(f.data)}
    OBVIOUS
  <2> QED
    BY <1>1, <2>1 DEF Fs!Min
<1>3. Fs!RamRead(p, Len(f.data)) = f.data
  <2>1. CASE Fs!RamReadable(p)
    <3>1. f = fsRam[p]
      BY <2>1 DEF Fs!RamReadable, Fs!RamFile
    <3>2. SubSeq(f.data, 1, Len(f.data)) = f.data
      BY <1>1
    <3> QED
      BY <1>2, <2>1, <3>1, <3>2 DEF Fs!RamRead
  <2>2. CASE ~Fs!RamReadable(p)
    <3>1. f.data = <<>>
      <4>1. CASE p \in DOMAIN fsRam
        <5>1. f = fsRam[p] /\ ~(f.cap > 0) /\ Len(f.data) <= f.cap
          BY <2>2, <4>1 DEF Fs!RamReadable, Fs!RamFile, Fs!RamFits
        <5>2. Len(f.data) = 0
          <6> HIDE DEF f
          <6> QED
            BY <1>1, <5>1
        <5> QED
          BY <1>1, <5>2, EmptySeq
      <4>2. CASE p \notin DOMAIN fsRam
        BY <4>2 DEF Fs!RamFile, Fs!NoFile
      <4> QED
        BY <4>1, <4>2
    <3> QED
      BY <2>2, <3>1 DEF Fs!RamRead
  <2> QED
    BY <2>1, <2>2
<1> QED
  BY <1>3 DEF Fs!ReadOf, FileContent

\* A file is put into the table.
LEMMA PutsFile ==
  ASSUME FsOK, RamTyped, Fs!RamFits, NEW p \in Fs!Paths, ~Fs!NoSlot(p),
         NEW f \in [data : Seq(Nat), cap : Nat], Len(f.data) <= f.cap,
         fsRam' = Fs!Put(fsRam, p, f)
  PROVE  /\ RamTyped' /\ Fs!RamFits'
         /\ Fs!RamFile(p)' = f /\ \A q \in Fs!Paths \ {p} : Fs!RamFile(q)' = Fs!RamFile(q)
<1>1. DOMAIN fsRam' = DOMAIN fsRam \union {p} /\ \A q \in DOMAIN fsRam' : fsRam'[q] = IF q = p
        THEN f ELSE fsRam[q]
  BY DEF Fs!Put
<1>2. fsRam' \in [DOMAIN fsRam' -> [data : Seq(Nat), cap : Nat]]
  <2>1. fsRam' = [q \in DOMAIN fsRam' |-> fsRam'[q]]
    BY DEF Fs!Put
  <2>2. \A q \in DOMAIN fsRam' : fsRam'[q] \in [data : Seq(Nat), cap : Nat]
    BY <1>1 DEF RamTyped
  <2> QED
    BY <2>1, <2>2
<1>3. Fs!IsFiniteSet(DOMAIN fsRam') /\ Fs!Cardinality(DOMAIN fsRam') <= RamFiles
  <2>1. Fs!IsFiniteSet(DOMAIN fsRam) /\ Fs!Cardinality(DOMAIN fsRam) \in Nat /\
          Fs!Cardinality(DOMAIN fsRam) <= RamFiles
    BY FsSets, FS_CardinalityType DEF RamTyped, Fs!RamFits
  <2>2. CASE p \in DOMAIN fsRam
    <3>1. DOMAIN fsRam' = DOMAIN fsRam
      BY <1>1, <2>2
    <3> QED
      BY <2>1, <3>1
  <2>3. CASE p \notin DOMAIN fsRam
    <3>1. Fs!IsFiniteSet(DOMAIN fsRam') /\
            Fs!Cardinality(DOMAIN fsRam') = Fs!Cardinality(DOMAIN fsRam) + 1
      BY <1>1, <2>1, <2>3, FsSets, FS_AddElement
    <3>2. ~(Fs!Cardinality(DOMAIN fsRam) >= RamFiles)
      BY <2>3 DEF Fs!NoSlot
    <3>3. RamFiles \in Nat
      BY DEF FsOK
    <3> QED
      BY <2>1, <3>1, <3>2, <3>3
  <2> QED
    BY <2>2, <2>3
<1>4. \A q \in DOMAIN fsRam' : Len(fsRam'[q].data) <= fsRam'[q].cap
  BY <1>1 DEF Fs!RamFits
<1>5. Fs!RamFile(p)' = f /\ \A q \in Fs!Paths \ {p} : Fs!RamFile(q)' = Fs!RamFile(q)
  BY <1>1 DEF Fs!RamFile
<1> QED
  BY <1>1, <1>2, <1>3, <1>4, <1>5 DEF RamTyped, Fs!RamFits

\* A file is dropped from the table.
LEMMA DropsFile ==
  ASSUME FsOK, RamTyped, Fs!RamFits, NEW p \in Fs!Paths, fsRam' = Fs!Drop(fsRam, p)
  PROVE  /\ RamTyped' /\ Fs!RamFits'
         /\ Fs!RamFile(p)' = Fs!NoFile /\ \A q \in Fs!Paths \ {p} : Fs!RamFile(q)' = Fs!RamFile(q)
<1>1. DOMAIN fsRam' = DOMAIN fsRam \ {p} /\ \A q \in DOMAIN fsRam' : fsRam'[q] = fsRam[q]
  BY DEF Fs!Drop, Fs!Restrict
<1>2. fsRam' \in [DOMAIN fsRam' -> [data : Seq(Nat), cap : Nat]]
  <2>1. fsRam' = [q \in DOMAIN fsRam' |-> fsRam'[q]]
    BY DEF Fs!Drop, Fs!Restrict
  <2>2. \A q \in DOMAIN fsRam' : fsRam'[q] \in [data : Seq(Nat), cap : Nat]
    BY <1>1 DEF RamTyped
  <2> QED
    BY <2>1, <2>2
<1>3. Fs!IsFiniteSet(DOMAIN fsRam') /\ Fs!Cardinality(DOMAIN fsRam') <= RamFiles
  <2>1. Fs!IsFiniteSet(DOMAIN fsRam) /\ Fs!Cardinality(DOMAIN fsRam) \in Nat /\
          Fs!Cardinality(DOMAIN fsRam) <= RamFiles
    BY FsSets, FS_CardinalityType DEF RamTyped, Fs!RamFits
  <2>2. /\ Fs!IsFiniteSet(DOMAIN fsRam') /\ Fs!Cardinality(DOMAIN fsRam') \in Nat
        /\ Fs!Cardinality(DOMAIN fsRam') <= Fs!Cardinality(DOMAIN fsRam)
    BY <1>1, <2>1, FsSets, FS_Subset, FS_CardinalityType
  <2>3. RamFiles \in Nat
    BY DEF FsOK
  <2> QED
    BY <2>1, <2>2, <2>3
<1>4. \A q \in DOMAIN fsRam' : Len(fsRam'[q].data) <= fsRam'[q].cap
  BY <1>1 DEF Fs!RamFits
<1>5. Fs!RamFile(p)' = Fs!NoFile /\ \A q \in Fs!Paths \ {p} : Fs!RamFile(q)' = Fs!RamFile(q)
  BY <1>1 DEF Fs!RamFile
<1> QED
  BY <1>1, <1>2, <1>3, <1>4, <1>5 DEF RamTyped, Fs!RamFits

\* The heap h has the buffers of the files in RAM, and what else it has is n.
Buffers(h) == /\ h \in Heaps
              /\ \A q \in Fs!Paths : h[q] = Fs!RamFile(q).cap

\* ram_write_file: the table keeps its shape, the heap holds the buffers, the
\* file of another path is left alone, and an answer that it was stored is true.
LEMMA RamWrites ==
  ASSUME FsOK, RamTyped, Fs!RamFits, NEW p \in Fs!Paths, NEW d \in Seq(Nat), NEW ok \in BOOLEAN,
         NEW h, Buffers(h), Fs!RamWrite(p, d, ok, h)
  PROVE  /\ RamTyped' /\ Fs!RamFits'
         /\ fsHeap' \in Heaps /\ \A q \in Fs!Paths : fsHeap'[q] = Fs!RamFile(q)'.cap
         /\ \A t \in Callers : fsHeap'[t] = h[t]
         /\ \A q \in Fs!Paths \ {p} : Fs!RamFile(q)' = Fs!RamFile(q)
         /\ ok => Fs!RamFile(p)'.data = d
<1> DEFINE f == Fs!RamFile(p)
<1>1. f.data \in Seq(Nat) /\ f.cap \in Nat /\ Len(d) \in Nat
  BY RamFileTyped, LenProperties
<1>2. /\ h \in [Fs!Paths \union Callers -> Int] /\ \A q \in Fs!Paths : h[q] = Fs!RamFile(q).cap
  BY DEF Buffers, Heaps
<1>3. \A t \in Callers : t \notin Fs!Paths
  BY DEF FsOK
<1>8. PICK c \in Int, l \in Int : c = f.cap /\ l = Len(d)
  BY <1>1
<1>9. /\ Fs!Freed(h, p, c) \in [Fs!Paths \union Callers -> Int] /\ Fs!Freed(h, p, c)[p] = h[p] - c
      /\ \A y \in (Fs!Paths \union Callers) \ {p} : Fs!Freed(h, p, c)[y] = h[y]
  <2>1. p \in Fs!Paths \union Callers
    OBVIOUS
  <2>2. h \in [Fs!Paths \union Callers -> Int]
    BY <1>2
  <2>3. h[p] - c \in Int
    BY <2>1, <2>2
  <2> HIDE DEF f
  <2> QED
    BY <2>1, <2>2, <2>3 DEF Fs!Freed
<1>4. CASE ok /\ ~Fs!NoSlot(p) /\ f.cap >= Len(d) /\
             fsRam' = Fs!Put(fsRam, p, [data |-> d, cap |-> f.cap]) /\ fsHeap' = h
  <2>1. PICK g \in [data : Seq(Nat), cap : Nat] : g = [data |-> d, cap |-> f.cap]
    BY <1>1
  <2>2. Len(g.data) <= g.cap
    <3>1. g.data = d /\ g.cap = f.cap
      BY <2>1
    <3> QED
      BY <1>1, <1>4, <3>1
  <2>3. /\ RamTyped' /\ Fs!RamFits' /\ Fs!RamFile(p)' = g
        /\ \A q \in Fs!Paths \ {p} : Fs!RamFile(q)' = Fs!RamFile(q)
    BY <1>4, <2>1, <2>2, PutsFile
  <2>4. \A q \in Fs!Paths : fsHeap'[q] = Fs!RamFile(q)'.cap
    <3>1. fsHeap' = h /\ Fs!RamFile(p)'.cap = f.cap
      BY <1>4, <2>1, <2>3
    <3>2. h[p] = Fs!RamFile(p)'.cap
      BY <1>2, <3>1
    <3>3. \A q \in Fs!Paths \ {p} : h[q] = Fs!RamFile(q)'.cap
      BY <1>2, <2>3
    <3> HIDE DEF f
    <3> QED
      BY <3>1, <3>2, <3>3
  <2> QED
    BY <1>2, <1>4, <2>1, <2>3, <2>4 DEF Heaps
<1>5. CASE ok /\ ~Fs!NoSlot(p) /\ fsRam' = Fs!Put(fsRam, p, [data |-> d, cap |-> Len(d)]) /\
             fsHeap' = Fs!Grown(h, p, d)
  <2>1. PICK g \in [data : Seq(Nat), cap : Nat] : g = [data |-> d, cap |-> Len(d)]
    BY <1>1
  <2>2. Len(g.data) <= g.cap /\ g.data = d /\ g.cap = Len(d)
    BY <1>1, <2>1
  <2>3. /\ RamTyped' /\ Fs!RamFits' /\ Fs!RamFile(p)' = g
        /\ \A q \in Fs!Paths \ {p} : Fs!RamFile(q)' = Fs!RamFile(q)
    BY <1>5, <2>1, <2>2, PutsFile
  <2>4. PICK j \in [Fs!Paths \union Callers -> Int] :
          j = Fs!Freed(h, p, c) /\ j[p] = h[p] - c /\
            \A y \in (Fs!Paths \union Callers) \ {p} : j[y] = h[y]
    BY <1>9
  <2>5. /\ fsHeap' \in [Fs!Paths \union Callers -> Int] /\ fsHeap'[p] = j[p] + Len(d)
        /\ \A y \in (Fs!Paths \union Callers) \ {p} : fsHeap'[y] = j[y]
    <3>1. p \in Fs!Paths \union Callers
      OBVIOUS
    <3>2. fsHeap' = Fs!Allocated(j, p, l)
      BY <1>5, <1>8, <2>4 DEF Fs!Grown
    <3>3. /\ Fs!Allocated(j, p, l) \in [Fs!Paths \union Callers -> Int] /\
               Fs!Allocated(j, p, l)[p] = j[p] + l
          /\ \A y \in (Fs!Paths \union Callers) \ {p} : Fs!Allocated(j, p, l)[y] = j[y]
      <4>1. j[p] + l \in Int
        BY <2>4, <3>1
      <4> HIDE DEF f
      <4> QED
        BY <2>4, <3>1, <4>1 DEF Fs!Allocated
    <3> QED
      BY <1>8, <3>2, <3>3
  <2>6. fsHeap'[p] = Len(d)
    <3>1. h[p] = f.cap /\ j[p] = h[p] - f.cap
      BY <1>2, <1>8, <2>4
    <3> HIDE DEF f
    <3> QED
      BY <1>1, <2>5, <3>1
  <2>7. \A q \in Fs!Paths : fsHeap'[q] = Fs!RamFile(q)'.cap
    BY <1>2, <2>2, <2>3, <2>4, <2>5, <2>6
  <2>8. \A t \in Callers : fsHeap'[t] = h[t]
    BY <1>3, <2>4, <2>5
  <2> QED
    BY <1>5, <2>2, <2>3, <2>5, <2>7, <2>8 DEF Heaps
<1>6. CASE ~ok /\ fsHeap' = h /\ UNCHANGED fsRam
  BY <1>2, <1>6 DEF RamTyped, Fs!RamFits, Fs!RamFile, Heaps
<1>7. CASE ~ok /\ fsRam' = Fs!Drop(fsRam, p) /\ fsHeap' = Fs!Freed(h, p, f.cap)
  <2>1. /\ RamTyped' /\ Fs!RamFits' /\ Fs!RamFile(p)' = Fs!NoFile
        /\ \A q \in Fs!Paths \ {p} : Fs!RamFile(q)' = Fs!RamFile(q)
    BY <1>7, DropsFile
  <2>2. /\ fsHeap' \in [Fs!Paths \union Callers -> Int] /\ fsHeap'[p] = h[p] - f.cap
        /\ \A y \in (Fs!Paths \union Callers) \ {p} : fsHeap'[y] = h[y]
    BY <1>7, <1>8, <1>9
  <2>3. fsHeap'[p] = 0
    <3>1. h[p] = f.cap
      BY <1>2
    <3> HIDE DEF f
    <3> QED
      BY <1>1, <2>2, <3>1
  <2>4. \A q \in Fs!Paths : fsHeap'[q] = Fs!RamFile(q)'.cap
    BY <1>2, <2>1, <2>2, <2>3 DEF Fs!NoFile
  <2>5. \A t \in Callers : fsHeap'[t] = h[t]
    BY <1>3, <2>2
  <2> QED
    BY <1>7, <2>1, <2>2, <2>4, <2>5 DEF Heaps
<1> QED
  BY <1>4, <1>5, <1>6, <1>7 DEF Fs!RamWrite

\* An idle call is one.
LEMMA FsIdle == Fs!Idle \in FsCalls /\ Fs!Idle.at = "idle" /\ Fs!Idle.path = ""
BY EmptySeq DEF Fs!Idle, FsCalls

\* A step of one thread on one path: the answers of the other paths are what
\* they were, and so are the other threads.
LEMMA FsStep ==
  ASSUME FsOK, Answers, FsTyped, FsTyped', NEW t \in Callers, NEW p \in Fs!Paths,
         fsCall[t].path = p \/ fsCall[t].at = "idle",
         \A u \in Callers \ {t} : fsCall'[u] = fsCall[u],
         fsCall'[t].path = p \/ fsCall'[t].at = "idle", CallSees(t)',
         \A q \in Fs!Paths \ {p} :
           /\ fsAcked'[q] = fsAcked[q] /\ FileContent(q)' = FileContent(q)
           /\ q \in DOMAIN fsDisk' <=> q \in DOMAIN fsDisk
           /\ q \in DOMAIN fsDisk => fsDisk'[q] = fsDisk[q],
         \/ fsAcked'[p].on = "unknown"
         \/ fsAcked'[p].on = t /\ (Fs!Alone(t, p) \/ fsAcked[p].on = t)
         \/ fsAcked'[p].on \in {"ram", "disk"} /\ Fs!Alone(t, p) /\ fsCall'[t].at = "idle" /\
              AnswerHolds(p)'
  PROVE  Answers'
<1>1. /\ t \notin {"ram", "disk", "unknown"} /\ "" \notin Fs!Paths
      /\ \A u \in Callers : u \notin {"ram", "disk", "unknown"}
  BY DEF FsOK
<1>6. fsCall'[t].at = "idle" => fsCall'[t].path = ""
  BY FsIdle DEF CallSees
<1>2. \A u \in Callers : CallSees(u)'
  <2> SUFFICES ASSUME NEW u \in Callers, u # t PROVE CallSees(u)'
    OBVIOUS
  <2>1. fsCall'[u] = fsCall[u] /\ CallSees(u)
    BY DEF Answers
  <2>2. CASE fsCall[u].path = p
    <3>1. fsAcked[p].on = "unknown" \/ fsAcked[p].on = u
      BY <2>2 DEF Answers, OwnerTold
    <3>2. fsAcked'[p].on # u
      BY <1>1, <2>2, <3>1 DEF Fs!Alone
    <3> QED
      BY <2>1, <2>2, <3>2 DEF CallSees
  <2>3. CASE fsCall[u].path # p
    <3>1. CASE fsCall[u].at = "idle"
      BY <2>1, <3>1 DEF CallSees
    <3>2. CASE fsCall[u].at # "idle"
      <4>1. fsCall[u].path \in Fs!Paths \ {p}
        BY <2>1, <2>3, <3>2 DEF CallSees
      <4> QED
        BY <2>1, <3>2, <4>1 DEF CallSees
    <3> QED
      BY <3>1, <3>2
  <2> QED
    BY <2>2, <2>3
<1>3. ASSUME NEW q \in Fs!Paths, q # p PROVE OwnerTold(q)' /\ AnswerHolds(q)'
  <2>1. fsAcked'[q] = fsAcked[q] /\ FileContent(q)' = FileContent(q) /\
          (q \in DOMAIN fsDisk' <=> q \in DOMAIN fsDisk)
    BY <1>3
  <2>2. OwnerTold(q)'
    <3> SUFFICES ASSUME NEW u \in Callers, fsCall'[u].path = q, fsAcked[q].on # "unknown"
                        PROVE fsAcked[q].on = u
      BY <2>1 DEF OwnerTold
    <3>1. u # t
      BY <1>1, <1>3, <1>6
    <3> QED
      BY <3>1 DEF Answers, OwnerTold
  <2>3. AnswerHolds(q)'
    BY <1>3, <2>1 DEF Answers, AnswerHolds
  <2> QED
    BY <2>2, <2>3
<1>4. OwnerTold(p)'
  <2> SUFFICES ASSUME NEW u \in Callers, fsCall'[u].path = p, fsAcked'[p].on # "unknown"
                      PROVE fsAcked'[p].on = u
    BY DEF OwnerTold
  <2>1. ASSUME u # t PROVE FALSE
    <3>1. fsCall[u].path = p
      BY <2>1
    <3>2. fsAcked[p].on = "unknown" \/ fsAcked[p].on = u
      BY <3>1 DEF Answers, OwnerTold
    <3> QED
      BY <1>1, <2>1, <3>1, <3>2 DEF Fs!Alone
  <2>2. fsCall'[t].at = "idle" => fsCall'[t].path # p
    BY <1>1, <1>6
  <2> QED
    BY <2>1, <2>2
<1>5. AnswerHolds(p)'
  BY <1>1 DEF AnswerHolds
<1> QED
  BY <1>2, <1>3, <1>4, <1>5 DEF Answers

\* The answer of a call, and what it promises.
LEMMA AnswerTyped ==
  ASSUME FsTyped, NEW t \in Callers, NEW p \in Fs!Paths, NEW ok \in BOOLEAN,
         NEW on \in {"ram", "disk"}, NEW d \in Seq(Nat), Fs!Answer(t, p, ok, on, d)
  PROVE  /\ fsAcked' \in AckMap
         /\ \A q \in Fs!Paths \ {p} : fsAcked'[q] = fsAcked[q]
         /\ \/ fsAcked'[p].on = "unknown"
            \/ /\ ok /\ Fs!Alone(t, p) /\ (Fs!At(t, "idle") \/ fsAcked[p].on = t)
               /\ fsAcked'[p].on = on /\ fsAcked'[p].data = d
<1>0. [on |-> "unknown", data |-> <<>>] \in AckMarks
  BY EmptySeq DEF AckMarks
<1>1. PICK r \in AckMarks :
        /\ fsAcked' = [fsAcked EXCEPT ![p] = r]
        /\ \/ r.on = "unknown"
           \/ /\ ok /\ Fs!Alone(t, p) /\ (Fs!At(t, "idle") \/ fsAcked[p].on = t)
              /\ r.on = on /\ r.data = d
  <2>1. CASE Fs!Mark(p, on, d) /\ ok /\ Fs!Alone(t, p) /\ (Fs!At(t, "idle") \/ fsAcked[p].on = t)
    <3>1. [on |-> on, data |-> d] \in AckMarks
      BY DEF AckMarks
    <3> QED
      BY <2>1, <3>1 DEF Fs!Mark
  <2>2. CASE Fs!Forget(p)
    BY <1>0, <2>2 DEF Fs!Forget, Fs!Mark
  <2> QED
    BY <2>1, <2>2 DEF Fs!Answer
<1> QED
  BY <1>1 DEF FsTyped, AckMap, AckMarks

\* The last answer at a path is forgotten, or awaits the write that is alone on it.
LEMMA OwnTyped ==
  ASSUME FsTyped, NEW t \in Callers, NEW p \in Fs!Paths, Fs!Own(t, p)
  PROVE  /\ fsAcked' \in AckMap
         /\ \A q \in Fs!Paths \ {p} : fsAcked'[q] = fsAcked[q]
         /\ fsAcked'[p].on = "unknown" \/ (fsAcked'[p].on = t /\ Fs!Alone(t, p))
<1>0. [on |-> "unknown", data |-> <<>>] \in AckMarks
  BY EmptySeq DEF AckMarks
<1>1. PICK r \in AckMarks :
        /\ fsAcked' = [fsAcked EXCEPT ![p] = r]
        /\ r.on = "unknown" \/ (r.on = t /\ Fs!Alone(t, p))
  <2>1. [on |-> t, data |-> <<>>] \in AckMarks
    BY EmptySeq DEF AckMarks
  <2> QED
    BY <1>0, <2>1 DEF Fs!Own, Fs!Mark, Fs!Forget
<1> QED
  BY <1>1 DEF FsTyped, AckMap, AckMarks

\* What was answered can be forgotten.
LEMMA ForgetTyped ==
  ASSUME FsTyped, NEW p \in Fs!Paths, Fs!Forget(p)
  PROVE  /\ fsAcked' \in AckMap
         /\ \A q \in Fs!Paths \ {p} : fsAcked'[q] = fsAcked[q]
         /\ fsAcked'[p].on = "unknown"
<1>0. [on |-> "unknown", data |-> <<>>] \in AckMarks
  BY EmptySeq DEF AckMarks
<1>1. PICK r \in AckMarks :
        fsAcked' = [fsAcked EXCEPT ![p] = r] /\ r.on = "unknown"
  BY <1>0 DEF Fs!Mark, Fs!Forget
<1> QED
  BY <1>1 DEF FsTyped, AckMap, AckMarks

\* The idle call, and a call that begins.
LEMMA FsCalling ==
  ASSUME FsTyped, NEW t \in Callers, NEW c \in FsCalls, fsCall' = [fsCall EXCEPT ![t] = c]
  PROVE  fsCall' \in [Callers -> FsCalls] /\ fsCall'[t] = c /\
           \A u \in Callers \ {t} : fsCall'[u] = fsCall[u]
BY DEF FsTyped

\* A write of the file on disk.
LEMMA DiskPuts ==
  ASSUME DiskTyped, NEW p \in DiskPaths, NEW d \in Seq(Nat), fsDisk' = Fs!Put(fsDisk, p, d)
  PROVE  /\ DiskTyped' /\ p \in DOMAIN fsDisk' /\ fsDisk'[p] = d
         /\ \A q \in Fs!Paths \ {p} : /\ q \in DOMAIN fsDisk' <=> q \in DOMAIN fsDisk
                                      /\ q \in DOMAIN fsDisk => fsDisk'[q] = fsDisk[q]
<1>1. DOMAIN fsDisk' = DOMAIN fsDisk \union {p} /\ \A q \in DOMAIN fsDisk' : fsDisk'[q] = IF q = p
        THEN d ELSE fsDisk[q]
  BY DEF Fs!Put
<1>2. fsDisk' = [q \in DOMAIN fsDisk' |-> fsDisk'[q]]
  BY DEF Fs!Put
<1>3. \A q \in DOMAIN fsDisk' : fsDisk'[q] \in Seq(Nat)
  BY <1>1 DEF DiskTyped
<1>4. fsDisk' \in [DOMAIN fsDisk' -> Seq(Nat)]
  BY <1>2, <1>3
<1> QED
  BY <1>1, <1>4 DEF DiskTyped

\* What a thread stores in its open file.
LEMMA DiskStores ==
  ASSUME DiskTyped, NEW p \in DiskPaths, NEW d \in Seq(Nat), Fs!Store(p, d)
  PROVE  /\ DiskTyped' /\ (p \in DOMAIN fsDisk' <=> p \in DOMAIN fsDisk)
         /\ p \in DOMAIN fsDisk => fsDisk'[p] = d
         /\ \A q \in Fs!Paths \ {p} : /\ q \in DOMAIN fsDisk' <=> q \in DOMAIN fsDisk
                                      /\ q \in DOMAIN fsDisk => fsDisk'[q] = fsDisk[q]
<1>1. CASE p \in DOMAIN fsDisk
  BY <1>1, DiskPuts DEF Fs!Store
<1>2. CASE p \notin DOMAIN fsDisk
  BY <1>2 DEF Fs!Store, DiskTyped
<1> QED
  BY <1>1, <1>2

\* What is read of a file on the disk.
LEMMA DiskContent ==
  ASSUME DiskTyped, NEW p PROVE Fs!Disk(p) \in Seq(Nat)
BY EmptySeq DEF DiskTyped, Fs!Disk

\* What a thread that leaves memory alone keeps of it.
LEMMA MemoryKept ==
  ASSUME RamTyped, Fs!RamFits, Fs!HeapIsHeld, FsTyped, UNCHANGED <<fsRam, fsHeap>>,
         NEW t \in Callers,
         \A u \in Callers \ {t} : fsCall'[u] = fsCall[u],
         fsCall'[t].at = "append" <=> fsCall[t].at = "append"
  PROVE  /\ RamTyped' /\ Fs!RamFits' /\ Fs!HeapIsHeld'
         /\ fsHeap' \in Heaps /\ \A q \in Fs!Paths : Fs!RamFile(q)' = Fs!RamFile(q)
<1>1. \A u \in Callers : fsCall'[u].at = "append" <=> fsCall[u].at = "append"
  OBVIOUS
<1> QED
  BY <1>1 DEF RamTyped, Fs!RamFits, Fs!HeapIsHeld, FsTyped, Fs!RamFile

\* The memory of a thread's call is its append buffer.
LEMMA HeapHeld ==
  ASSUME FsTyped, Fs!HeapIsHeld, NEW t \in Callers, fsCall' \in [Callers -> FsCalls],
         \A u \in Callers \ {t} : fsCall'[u] = fsCall[u],
         \A q \in Fs!Paths : fsHeap'[q] = Fs!RamFile(q)'.cap,
         \A u \in Callers \ {t} : fsHeap'[u] = fsHeap[u],
         fsHeap'[t] = IF fsCall'[t].at = "append" THEN RamFileSize ELSE 0
  PROVE  Fs!HeapIsHeld'
<1>1. \A u \in Callers : fsHeap'[u] = IF fsCall'[u].at = "append" THEN RamFileSize ELSE 0
  BY DEF Fs!HeapIsHeld
<1> QED
  BY <1>1 DEF Fs!HeapIsHeld

\* A file written to RAM is what its path gives, unless the disk has one.
LEMMA RamTold ==
  ASSUME NEW p \in Fs!Paths, NEW d, Fs!RamFile(p)'.data = d, fsAcked'[p].on = "ram",
         fsAcked'[p].data = d
  PROVE  AnswerHolds(p)'
BY DEF AnswerHolds, FileContent

\* fs_manager_write_file on a RAM path.
LEMMA WritesRam ==
  ASSUME FsOK, FsInv, NEW t \in Callers, NEW p \in Fs!Paths, NEW d \in Datas, Fs!WriteRam(t, p, d)
  PROVE  FsInv'
<1>1. PICK ok \in BOOLEAN : Fs!RamWrite(p, d, ok, fsHeap) /\ Fs!Answer(t, p, ok, "ram", d)
  BY DEF Fs!WriteRam
<1>2. d \in Seq(Nat) /\ RamTyped /\ Fs!RamFits /\ FsTyped /\ Fs!HeapIsHeld /\ Answers /\
        fsCall[t].at = "idle"
      /\ UNCHANGED <<fsDisk, fsCall>> /\ fsCall \in [Callers -> FsCalls]
  BY DEF FsOK, FsInv, Fs!WriteRam, FsTyped
<1>3. PICK h : h = fsHeap
  OBVIOUS
<1>4. Buffers(h)
  BY <1>2, <1>3 DEF Buffers, FsTyped, Fs!HeapIsHeld
<1>5. /\ RamTyped' /\ Fs!RamFits'
      /\ fsHeap' \in Heaps /\ \A q \in Fs!Paths : fsHeap'[q] = Fs!RamFile(q)'.cap
      /\ \A u \in Callers : fsHeap'[u] = h[u]
      /\ \A q \in Fs!Paths \ {p} : Fs!RamFile(q)' = Fs!RamFile(q)
      /\ ok => Fs!RamFile(p)'.data = d
  BY <1>1, <1>2, <1>3, <1>4, RamWrites
<1>6. /\ fsAcked' \in AckMap /\ \A q \in Fs!Paths \ {p} : fsAcked'[q] = fsAcked[q]
      /\ \/ fsAcked'[p].on = "unknown"
         \/ ok /\ Fs!Alone(t, p) /\ fsAcked'[p].on = "ram" /\ fsAcked'[p].data = d
  BY <1>1, <1>2, AnswerTyped
<1>7. Fs!HeapIsHeld'
  BY <1>2, <1>3, <1>5 DEF Fs!HeapIsHeld
<1>8. FsTyped'
  BY <1>2, <1>5, <1>6 DEF FsTyped, DiskTyped
<1>9. CallSees(t)'
  BY <1>2 DEF Answers, CallSees
<1>10. \A q \in Fs!Paths \ {p} : FileContent(q)' = FileContent(q)
  BY <1>2, <1>5 DEF FileContent
<1>11. fsAcked'[p].on = "unknown" \/ AnswerHolds(p)'
  BY <1>5, <1>6, RamTold
<1>12. Answers'
  BY <1>2, <1>6, <1>8, <1>9, <1>10, <1>11, FsStep
<1> QED
  BY <1>5, <1>7, <1>8, <1>12 DEF FsInv

\* The fall back of a write that the disk refused.
LEMMA FallsBack ==
  ASSUME FsOK, FsInv, NEW t \in Callers, Fs!WriteFallback(t) PROVE FsInv'
<1>1. PICK c \in FsCalls, p \in Fs!Paths, d \in Seq(Nat) :
        c = fsCall[t] /\ p = c.path /\ d = c.data /\ c.at = "fallback"
  <2>1. fsCall[t] \in FsCalls /\ fsCall[t].at = "fallback" /\ CallSees(t)
    BY DEF FsInv, FsTyped, Answers, Fs!WriteFallback, Fs!At
  <2> QED
    BY <2>1 DEF CallSees, FsCalls
<1>2. PICK ok \in BOOLEAN : Fs!RamWrite(p, d, ok, fsHeap) /\ Fs!Answer(t, p, ok, "ram", d)
  BY <1>1 DEF Fs!WriteFallback
<1>3. RamTyped /\ Fs!RamFits /\ FsTyped /\ Fs!HeapIsHeld /\ Answers /\ UNCHANGED fsDisk
      /\ fsCall' = [fsCall EXCEPT ![t] = Fs!Idle]
  BY DEF FsInv, Fs!WriteFallback, Fs!Return
<1>4. /\ fsCall' \in [Callers -> FsCalls] /\ fsCall'[t] = Fs!Idle /\ Fs!Idle.at = "idle"
      /\ \A u \in Callers \ {t} : fsCall'[u] = fsCall[u]
  BY <1>3, FsCalling, FsIdle
<1>5. PICK h : h = fsHeap
  OBVIOUS
<1>6. Buffers(h) /\ h[t] = 0
  BY <1>1, <1>3, <1>5 DEF Buffers, FsTyped, Fs!HeapIsHeld
<1>7. /\ RamTyped' /\ Fs!RamFits'
      /\ fsHeap' \in Heaps /\ \A q \in Fs!Paths : fsHeap'[q] = Fs!RamFile(q)'.cap
      /\ \A u \in Callers : fsHeap'[u] = h[u]
      /\ \A q \in Fs!Paths \ {p} : Fs!RamFile(q)' = Fs!RamFile(q)
      /\ ok => Fs!RamFile(p)'.data = d
  BY <1>2, <1>3, <1>5, <1>6, RamWrites
<1>8. /\ fsAcked' \in AckMap /\ \A q \in Fs!Paths \ {p} : fsAcked'[q] = fsAcked[q]
      /\ \/ fsAcked'[p].on = "unknown"
         \/ ok /\ Fs!Alone(t, p) /\ fsAcked'[p].on = "ram" /\ fsAcked'[p].data = d
  BY <1>2, <1>3, AnswerTyped
<1>9. Fs!HeapIsHeld'
  BY <1>3, <1>4, <1>5, <1>6, <1>7, HeapHeld
<1>10. FsTyped'
  BY <1>3, <1>4, <1>7, <1>8 DEF FsTyped, DiskTyped
<1>11. CallSees(t)'
  BY <1>4 DEF CallSees
<1>12. \A q \in Fs!Paths \ {p} : FileContent(q)' = FileContent(q)
  BY <1>3, <1>7 DEF FileContent
<1>13. fsAcked'[p].on = "unknown" \/ AnswerHolds(p)'
  BY <1>7, <1>8, RamTold
<1>14. Answers'
  BY <1>1, <1>3, <1>4, <1>8, <1>10, <1>11, <1>12, <1>13, FsStep
<1> QED
  BY <1>7, <1>9, <1>10, <1>14 DEF FsInv

\* The second half of an append to RAM: the whole is written, the buffer freed.
LEMMA AppendsRam ==
  ASSUME FsOK, FsInv, NEW t \in Callers, Fs!AppendWrite(t) PROVE FsInv'
<1>1. PICK c \in FsCalls, p \in Fs!Paths, d \in Seq(Nat) :
        c = fsCall[t] /\ p = c.path /\ d = c.got \o c.data /\ c.at = "append"
  <2>1. fsCall[t] \in FsCalls /\ fsCall[t].at = "append" /\ CallSees(t)
    BY DEF FsInv, FsTyped, Answers, Fs!AppendWrite, Fs!At
  <2>2. fsCall[t].got \o fsCall[t].data \in Seq(Nat)
    BY <2>1, ConcatProperties DEF FsCalls
  <2> QED
    BY <2>1, <2>2 DEF CallSees
<1>17. PICK h : h = Fs!Freed(fsHeap, t, RamFileSize)
  OBVIOUS
<1>2. PICK ok \in BOOLEAN : Fs!RamWrite(p, d, ok, h) /\ Fs!Answer(t, p, ok, "ram", d)
  BY <1>1, <1>17 DEF Fs!AppendWrite
<1>3. RamTyped /\ Fs!RamFits /\ FsTyped /\ Fs!HeapIsHeld /\ Answers /\ UNCHANGED fsDisk
      /\ fsCall' = [fsCall EXCEPT ![t] = Fs!Idle]
  BY DEF FsInv, Fs!AppendWrite, Fs!Return
<1>4. /\ fsCall' \in [Callers -> FsCalls] /\ fsCall'[t] = Fs!Idle /\ Fs!Idle.at = "idle"
      /\ \A u \in Callers \ {t} : fsCall'[u] = fsCall[u]
  BY <1>3, FsCalling, FsIdle
<1>5. RamFileSize \in Nat
  BY DEF FsOK
<1>18. t \notin Fs!Paths
  BY DEF FsOK
<1>6. fsHeap \in [Fs!Paths \union Callers -> Int] /\ fsHeap[t] = RamFileSize /\
        fsHeap[t] - RamFileSize = 0
  <2>1. fsHeap \in [Fs!Paths \union Callers -> Int] /\ fsHeap[t] = RamFileSize
    BY <1>1, <1>3 DEF FsTyped, Fs!HeapIsHeld, Heaps
  <2> QED
    BY <1>5, <2>1
<1>7. /\ h \in [Fs!Paths \union Callers -> Int] /\ h[t] = 0
      /\ \A x \in (Fs!Paths \union Callers) \ {t} : h[x] = fsHeap[x]
  BY <1>6, <1>17 DEF Fs!Freed
<1>8. Buffers(h)
  BY <1>3, <1>7, <1>18 DEF Buffers, Fs!HeapIsHeld, Heaps
<1>9. /\ RamTyped' /\ Fs!RamFits'
      /\ fsHeap' \in Heaps /\ \A q \in Fs!Paths : fsHeap'[q] = Fs!RamFile(q)'.cap
      /\ \A u \in Callers : fsHeap'[u] = h[u]
      /\ \A q \in Fs!Paths \ {p} : Fs!RamFile(q)' = Fs!RamFile(q)
      /\ ok => Fs!RamFile(p)'.data = d
  BY <1>2, <1>3, <1>8, RamWrites
<1>10. /\ fsAcked' \in AckMap /\ \A q \in Fs!Paths \ {p} : fsAcked'[q] = fsAcked[q]
      /\ \/ fsAcked'[p].on = "unknown"
         \/ ok /\ Fs!Alone(t, p) /\ fsAcked'[p].on = "ram" /\ fsAcked'[p].data = d
  BY <1>2, <1>3, AnswerTyped
<1>11. Fs!HeapIsHeld'
  BY <1>3, <1>4, <1>7, <1>9, HeapHeld
<1>12. FsTyped'
  BY <1>3, <1>4, <1>9, <1>10 DEF FsTyped, DiskTyped
<1>13. CallSees(t)'
  BY <1>4 DEF CallSees
<1>14. \A q \in Fs!Paths \ {p} : FileContent(q)' = FileContent(q)
  BY <1>3, <1>9 DEF FileContent
<1>15. fsAcked'[p].on = "unknown" \/ AnswerHolds(p)'
  BY <1>9, <1>10, RamTold
<1>16. Answers'
  BY <1>1, <1>3, <1>4, <1>10, <1>12, <1>13, <1>14, <1>15, FsStep
<1> QED
  BY <1>9, <1>11, <1>12, <1>16 DEF FsInv

\* What a step on disk leaves of the contents of the other paths.
LEMMA OthersRead ==
  ASSUME NEW p, \A q \in Fs!Paths : Fs!RamFile(q)' = Fs!RamFile(q),
         \A q \in Fs!Paths \ {p} : /\ q \in DOMAIN fsDisk' <=> q \in DOMAIN fsDisk
                                   /\ q \in DOMAIN fsDisk => fsDisk'[q] = fsDisk[q]
  PROVE  \A q \in Fs!Paths \ {p} : FileContent(q)' = FileContent(q)
BY DEF FileContent

\* fs_open for a write, or the fall back when the disk refuses.
LEMMA Opens ==
  ASSUME FsOK, FsInv, NEW t \in Callers, NEW p \in Fs!Paths, NEW d \in Datas, Fs!WriteOpen(t, p, d)
  PROVE  FsInv'
<1>1. /\ RamTyped /\ Fs!RamFits /\ FsTyped /\ Fs!HeapIsHeld /\ Answers /\ d \in Seq(Nat)
      /\ fsCall[t].at = "idle" /\ ~Fs!IsRam(p) /\ UNCHANGED <<fsRam, fsHeap>> /\ Fs!Own(t, p)
  BY DEF FsOK, FsInv, Fs!WriteOpen, Fs!Enter
<1>2. p \in DiskPaths /\ DiskTyped
  BY <1>1 DEF Fs!Paths, Fs!IsRam, FsTyped
<1>3. PICK c \in FsCalls :
        /\ c.at \in {"opened", "fallback"} /\ c.path = p /\ fsCall' = [fsCall EXCEPT ![t] = c]
        /\ UNCHANGED fsDisk \/ fsDisk' = Fs!Put(fsDisk, p, <<>>)
  <2> DEFINE r(at) == [at |-> at, path |-> p, data |-> d, got |-> <<>>, cut |-> TRUE]
  <2>1. r("opened") \in FsCalls /\ r("fallback") \in FsCalls
    BY <1>1, EmptySeq DEF FsCalls
  <2>2. \/ fsCall' = [fsCall EXCEPT ![t] = r("opened")] /\
             (UNCHANGED fsDisk \/ fsDisk' = Fs!Put(fsDisk, p, <<>>))
        \/ fsCall' = [fsCall EXCEPT ![t] = r("fallback")] /\ UNCHANGED fsDisk
    BY DEF Fs!WriteOpen, Fs!Enter
  <2> QED
    BY <2>1, <2>2
<1>4. /\ fsCall' \in [Callers -> FsCalls] /\ fsCall'[t] = c
      /\ \A u \in Callers \ {t} : fsCall'[u] = fsCall[u]
  BY <1>1, <1>3, FsCalling
<1>5. /\ DiskTyped'
      /\ \A q \in Fs!Paths \ {p} : /\ q \in DOMAIN fsDisk' <=> q \in DOMAIN fsDisk
                                   /\ q \in DOMAIN fsDisk => fsDisk'[q] = fsDisk[q]
  <2>1. CASE UNCHANGED fsDisk
    BY <1>2, <2>1 DEF DiskTyped
  <2>2. CASE fsDisk' = Fs!Put(fsDisk, p, <<>>)
    BY <1>2, <2>2, EmptySeq, DiskPuts
  <2> QED
    BY <1>3, <2>1, <2>2
<1>6. /\ RamTyped' /\ Fs!RamFits' /\ Fs!HeapIsHeld' /\ fsHeap' \in Heaps
      /\ \A q \in Fs!Paths : Fs!RamFile(q)' = Fs!RamFile(q)
  BY <1>1, <1>3, <1>4, MemoryKept
<1>7. /\ fsAcked' \in AckMap /\ \A q \in Fs!Paths \ {p} : fsAcked'[q] = fsAcked[q]
      /\ (fsAcked'[p].on = "unknown" \/ (fsAcked'[p].on = t /\ Fs!Alone(t, p)))
  BY <1>1, OwnTyped
<1>8. FsTyped'
  BY <1>4, <1>5, <1>6, <1>7 DEF FsTyped
<1>9. CallSees(t)'
  BY <1>1, <1>3, <1>4 DEF CallSees, Fs!IsRam
<1>30. \A q \in Fs!Paths \ {p} : FileContent(q)' = FileContent(q)
  BY <1>1, <1>3, <1>4, <1>5, <1>6, <1>7, <1>8, <1>9, OthersRead
<1>10. Answers'
  BY <1>1, <1>3, <1>4, <1>5, <1>6, <1>7, <1>8, <1>9, <1>30, FsStep
<1> QED
  BY <1>6, <1>8, <1>10 DEF FsInv

\* The open file is cut, or it is not.
LEMMA Truncates ==
  ASSUME FsOK, FsInv, NEW t \in Callers, Fs!WriteTruncate(t) PROVE FsInv'
<1>1. /\ RamTyped /\ Fs!RamFits /\ FsTyped /\ Fs!HeapIsHeld /\ Answers
      /\ fsCall[t] \in FsCalls /\ CallSees(t) /\ fsCall[t].at = "opened" /\
           UNCHANGED <<fsRam, fsHeap, fsAcked>>
  BY DEF FsInv, FsTyped, Answers, Fs!WriteTruncate, Fs!At
<1>2. PICK p \in Fs!Paths : p = fsCall[t].path /\ ~Fs!IsRam(p)
  BY <1>1 DEF CallSees
<1>3. p \in DiskPaths /\ DiskTyped
  BY <1>1, <1>2 DEF Fs!Paths, Fs!IsRam, FsTyped
<1>4. PICK c \in FsCalls :
        /\ c.at = "truncated" /\ c.path = p /\ fsCall' = [fsCall EXCEPT ![t] = c]
        /\ Fs!Store(p, <<>>) \/ (UNCHANGED fsDisk /\ ~c.cut)
  <2>1. [fsCall[t] EXCEPT !.at = "truncated"] \in FsCalls /\
          [fsCall[t] EXCEPT !.at = "truncated", !.cut = FALSE] \in FsCalls
    BY <1>1 DEF FsCalls
  <2>2. \/ fsCall' = [fsCall EXCEPT ![t] = [fsCall[t] EXCEPT !.at = "truncated"]] /\
             Fs!Store(p, <<>>)
        \/ fsCall' = [fsCall EXCEPT ![t] = [fsCall[t] EXCEPT !.at = "truncated", !.cut = FALSE]] /\
             UNCHANGED fsDisk
    BY <1>1, <1>2 DEF Fs!WriteTruncate, Fs!Truncated, FsTyped
  <2>3. /\ [fsCall[t] EXCEPT !.at = "truncated"].at = "truncated" /\
             [fsCall[t] EXCEPT !.at = "truncated"].path = p
        /\ [fsCall[t] EXCEPT !.at = "truncated", !.cut = FALSE].at = "truncated"
        /\ [fsCall[t] EXCEPT !.at = "truncated", !.cut = FALSE].path = p
        /\ ~[fsCall[t] EXCEPT !.at = "truncated", !.cut = FALSE].cut
    BY <1>1, <1>2 DEF FsCalls
  <2> QED
    BY <2>1, <2>2, <2>3
<1>5. /\ fsCall' \in [Callers -> FsCalls] /\ fsCall'[t] = c
      /\ \A u \in Callers \ {t} : fsCall'[u] = fsCall[u]
  BY <1>1, <1>4, FsCalling
<1>6. /\ DiskTyped' /\ (c.cut /\ p \in DOMAIN fsDisk' => fsDisk'[p] = <<>>)
      /\ \A q \in Fs!Paths \ {p} : /\ q \in DOMAIN fsDisk' <=> q \in DOMAIN fsDisk
                                   /\ q \in DOMAIN fsDisk => fsDisk'[q] = fsDisk[q]
  <2>1. CASE UNCHANGED fsDisk /\ ~c.cut
    BY <1>3, <2>1 DEF DiskTyped
  <2>2. CASE Fs!Store(p, <<>>)
    BY <1>3, <2>2, EmptySeq, DiskStores
  <2> QED
    BY <1>4, <2>1, <2>2
<1>7. /\ RamTyped' /\ Fs!RamFits' /\ Fs!HeapIsHeld' /\ fsHeap' \in Heaps
      /\ \A q \in Fs!Paths : Fs!RamFile(q)' = Fs!RamFile(q)
  BY <1>1, <1>4, <1>5, MemoryKept
<1>8. FsTyped'
  BY <1>1, <1>5, <1>6, <1>7 DEF FsTyped
<1>9. CallSees(t)'
  BY <1>2, <1>4, <1>5, <1>6 DEF CallSees, Fs!IsRam
<1>10. fsAcked[p].on = "unknown" \/ fsAcked[p].on = t
  BY <1>1, <1>2 DEF Answers, OwnerTold
<1>30. \A q \in Fs!Paths \ {p} : FileContent(q)' = FileContent(q)
  BY <1>1, <1>2, <1>4, <1>5, <1>6, <1>7, <1>8, <1>9, <1>10, OthersRead
<1>11. Answers'
  BY <1>1, <1>2, <1>4, <1>5, <1>6, <1>7, <1>8, <1>9, <1>10, <1>30, FsStep
<1> QED
  BY <1>7, <1>8, <1>11 DEF FsInv

\* The first half of an append to RAM.
LEMMA AppendsRead ==
  ASSUME FsOK, FsInv, NEW t \in Callers, NEW p \in Fs!Paths, NEW d \in Datas, Fs!AppendRead(t, p, d)
  PROVE  FsInv'
<1>1. /\ RamTyped /\ Fs!RamFits /\ FsTyped /\ Fs!HeapIsHeld /\ Answers /\ d \in Seq(Nat)
      /\ fsCall[t].at = "idle" /\ UNCHANGED <<fsRam, fsDisk>> /\ Fs!Own(t, p)
      /\ fsHeap' = Fs!Allocated(fsHeap, t, RamFileSize)
  BY DEF FsOK, FsInv, Fs!AppendRead, Fs!Enter
<1>2. Fs!RamRead(p, RamFileSize - Len(d)) \in Seq(Nat)
  <2>1. Fs!RamFile(p).data \in Seq(Nat)
    BY <1>1, RamFileTyped
  <2>2. PICK s \in Seq(Nat) : s = Fs!RamFile(p).data
    BY <2>1
  <2>3. PICK n : n = Fs!Min({RamFileSize - Len(d), Len(s)})
    OBVIOUS
  <2>4. Fs!RamReadable(p) => Fs!RamFile(p) = fsRam[p]
    BY DEF Fs!RamReadable, Fs!RamFile
  <2>5. n \in Int /\ n <= Len(s)
    <3>1. RamFileSize \in Nat
      BY DEF FsOK
    <3>2. Len(d) \in Nat /\ Len(s) \in Nat
      BY <1>1, LenProperties
    <3>6. RamFileSize - Len(d) \in Int
      BY <3>1, <3>2
    <3>3. PICK a \in Int, b \in Int : a = RamFileSize - Len(d) /\ b = Len(s)
      BY <3>2, <3>6
    <3>4. \E m \in {a, b} : \A k \in {a, b} : m <= k
      OBVIOUS
    <3>5. n \in {a, b} /\ n <= b
      BY <2>3, <3>3, <3>4 DEF Fs!Min
    <3> QED
      BY <3>3, <3>5
  <2>6. SubSeq(s, 1, n) \in Seq(Nat)
    <3>1. \A i \in 1 .. n : i \in 1 .. Len(s)
      BY <2>5, LenProperties
    <3> QED
      BY <2>5, <3>1, SubSeqProperties
  <2> QED
    BY <2>2, <2>3, <2>4, <2>6, EmptySeq DEF Fs!RamRead
<1>3. PICK c \in FsCalls : c.at = "append" /\ c.path = p /\ fsCall' = [fsCall EXCEPT ![t] = c]
  <2>1. PICK g \in Seq(Nat) : g = Fs!RamRead(p, RamFileSize - Len(d))
    BY <1>2
  <2>2. [at |-> "append", path |-> p, data |-> d, got |-> g, cut |-> TRUE] \in FsCalls
    BY <1>1, <2>1 DEF FsCalls
  <2> QED
    BY <2>1, <2>2 DEF Fs!AppendRead, Fs!Enter
<1>4. /\ fsCall' \in [Callers -> FsCalls] /\ fsCall'[t] = c
      /\ \A u \in Callers \ {t} : fsCall'[u] = fsCall[u]
  BY <1>1, <1>3, FsCalling
<1>5. RamFileSize \in Nat
  BY DEF FsOK
<1>6. t \notin Fs!Paths
  BY DEF FsOK
<1>7. fsHeap \in [Fs!Paths \union Callers -> Int] /\ fsHeap[t] = 0 /\
        fsHeap[t] + RamFileSize = RamFileSize
  <2>1. fsHeap \in [Fs!Paths \union Callers -> Int] /\ fsHeap[t] = 0
    BY <1>1 DEF FsTyped, Fs!HeapIsHeld, Heaps
  <2> QED
    BY <1>5, <2>1
<1>8. /\ fsHeap' \in [Fs!Paths \union Callers -> Int] /\ fsHeap'[t] = RamFileSize
      /\ \A x \in (Fs!Paths \union Callers) \ {t} : fsHeap'[x] = fsHeap[x]
  BY <1>1, <1>5, <1>7 DEF Fs!Allocated
<1>9. \A q \in Fs!Paths : Fs!RamFile(q)' = Fs!RamFile(q)
  BY <1>1 DEF Fs!RamFile
<1>10. Fs!HeapIsHeld'
  <2>1. \A q \in Fs!Paths : fsHeap'[q] = Fs!RamFile(q)'.cap
    BY <1>1, <1>6, <1>8, <1>9 DEF Fs!HeapIsHeld
  <2> QED
    BY <1>1, <1>3, <1>4, <1>8, <2>1, HeapHeld
<1>11. /\ fsAcked' \in AckMap /\ \A q \in Fs!Paths \ {p} : fsAcked'[q] = fsAcked[q]
      /\ (fsAcked'[p].on = "unknown" \/ (fsAcked'[p].on = t /\ Fs!Alone(t, p)))
  BY <1>1, OwnTyped
<1>12. FsTyped' /\ RamTyped' /\ Fs!RamFits'
  BY <1>1, <1>4, <1>8, <1>11 DEF FsTyped, RamTyped, Fs!RamFits, DiskTyped, Heaps
<1>13. CallSees(t)'
  BY <1>3, <1>4 DEF CallSees
<1>30. \A q \in Fs!Paths \ {p} : FileContent(q)' = FileContent(q)
  BY <1>1, <1>3, <1>4, <1>9, <1>11, <1>12, <1>13, OthersRead
<1>14. Answers'
  BY <1>1, <1>3, <1>4, <1>9, <1>11, <1>12, <1>13, <1>30, FsStep
<1> QED
  BY <1>10, <1>12, <1>14 DEF FsInv

\* An append on disk, and a delete: nothing is promised of the path.
LEMMA AppendsDisk ==
  ASSUME FsOK, FsInv, NEW t \in Callers, NEW p \in Fs!Paths, NEW d \in Datas, Fs!AppendDisk(t, p, d)
  PROVE  FsInv'
<1>1. /\ RamTyped /\ Fs!RamFits /\ FsTyped /\ Fs!HeapIsHeld /\ Answers /\ d \in Seq(Nat)
      /\ fsCall[t].at = "idle" /\ ~Fs!IsRam(p) /\ UNCHANGED <<fsRam, fsHeap, fsCall>> /\
           Fs!Forget(p)
  BY DEF FsOK, FsInv, Fs!AppendDisk
<1>2. p \in DiskPaths /\ DiskTyped
  BY <1>1 DEF Fs!Paths, Fs!IsRam, FsTyped
<1>3. PICK e \in Seq(Nat) : fsDisk' = Fs!Put(fsDisk, p, e)
  <2>1. PICK n \in 0 .. Len(d) : fsDisk' = Fs!Put(fsDisk, p, Fs!Disk(p) \o SubSeq(d, 1, n))
    BY DEF Fs!AppendDisk
  <2>2. SubSeq(d, 1, n) \in Seq(Nat)
    <3>1. n \in Nat /\ \A i \in 1 .. n : i \in 1 .. Len(d)
      BY <1>1, LenProperties
    <3> QED
      BY <1>1, <3>1, SubSeqProperties
  <2>3. Fs!Disk(p) \o SubSeq(d, 1, n) \in Seq(Nat)
    BY <1>2, <2>2, DiskContent, ConcatProperties
  <2> QED
    BY <2>1, <2>3
<1>4. /\ DiskTyped'
      /\ \A q \in Fs!Paths \ {p} : /\ q \in DOMAIN fsDisk' <=> q \in DOMAIN fsDisk
                                   /\ q \in DOMAIN fsDisk => fsDisk'[q] = fsDisk[q]
  BY <1>2, <1>3, DiskPuts
<1>5. /\ fsAcked' \in AckMap /\ \A q \in Fs!Paths \ {p} : fsAcked'[q] = fsAcked[q]
      /\ fsAcked'[p].on = "unknown"
  BY <1>1, ForgetTyped
<1>6. /\ RamTyped' /\ Fs!RamFits' /\ Fs!HeapIsHeld' /\ fsHeap' \in Heaps
      /\ \A q \in Fs!Paths : Fs!RamFile(q)' = Fs!RamFile(q)
  BY <1>1, MemoryKept
<1>7. FsTyped'
  BY <1>1, <1>4, <1>5, <1>6 DEF FsTyped
<1>8. CallSees(t)'
  BY <1>1 DEF Answers, CallSees
<1>30. \A q \in Fs!Paths \ {p} : FileContent(q)' = FileContent(q)
  BY <1>1, <1>4, <1>5, <1>6, <1>7, <1>8, OthersRead
<1>9. Answers'
  BY <1>1, <1>4, <1>5, <1>6, <1>7, <1>8, <1>30, FsStep
<1> QED
  BY <1>6, <1>7, <1>9 DEF FsInv

\* fs_manager_delete() keeps the invariant.
LEMMA Deletes ==
  ASSUME FsOK, FsInv, NEW t \in Callers, NEW p \in Fs!Paths, Fs!Delete(t, p)
  PROVE  FsInv'
<1>1. /\ RamTyped /\ Fs!RamFits /\ FsTyped /\ Fs!HeapIsHeld /\ Answers /\ DiskTyped
      /\ fsCall[t].at = "idle" /\ UNCHANGED fsCall /\ Fs!Forget(p)
      /\ fsRam' = Fs!Drop(fsRam, p) /\ fsHeap' = Fs!Freed(fsHeap, p, Fs!RamFile(p).cap)
      /\ UNCHANGED fsDisk \/ fsDisk' = Fs!Drop(fsDisk, p)
  BY DEF FsInv, Fs!Delete, FsTyped
<1>2. /\ DiskTyped'
      /\ \A q \in Fs!Paths \ {p} : /\ q \in DOMAIN fsDisk' <=> q \in DOMAIN fsDisk
                                   /\ q \in DOMAIN fsDisk => fsDisk'[q] = fsDisk[q]
  <2>1. CASE UNCHANGED fsDisk
    BY <1>1, <2>1 DEF DiskTyped
  <2>2. CASE fsDisk' = Fs!Drop(fsDisk, p)
    <3>1. DOMAIN fsDisk' = DOMAIN fsDisk \ {p} /\ fsDisk' = [q \in DOMAIN fsDisk' |-> fsDisk[q]]
      BY <2>2 DEF Fs!Drop, Fs!Restrict
    <3> QED
      BY <1>1, <3>1 DEF DiskTyped
  <2> QED
    BY <1>1, <2>1, <2>2
<1>3. /\ RamTyped' /\ Fs!RamFits' /\ Fs!RamFile(p)' = Fs!NoFile
      /\ \A q \in Fs!Paths \ {p} : Fs!RamFile(q)' = Fs!RamFile(q)
  BY <1>1, DropsFile
<1>4. /\ fsHeap \in [Fs!Paths \union Callers -> Int] /\
           \A q \in Fs!Paths : fsHeap[q] = Fs!RamFile(q).cap
  BY <1>1 DEF FsTyped, Fs!HeapIsHeld, Heaps
<1>5. PICK n \in Nat : n = Fs!RamFile(p).cap
  BY <1>1, RamFileTyped
<1>6. fsHeap[p] - n = 0
  BY <1>4, <1>5
<1>7. /\ fsHeap' \in [Fs!Paths \union Callers -> Int] /\ fsHeap'[p] = 0
      /\ \A x \in (Fs!Paths \union Callers) \ {p} : fsHeap'[x] = fsHeap[x]
  BY <1>1, <1>4, <1>5, <1>6 DEF Fs!Freed
<1>8. \A x \in Callers : x \notin Fs!Paths
  BY DEF FsOK
<1>9. Fs!HeapIsHeld'
  <2>1. \A q \in Fs!Paths : fsHeap'[q] = Fs!RamFile(q)'.cap
    BY <1>3, <1>4, <1>7 DEF Fs!NoFile
  <2> QED
    BY <1>1, <1>7, <1>8, <2>1 DEF Fs!HeapIsHeld
<1>10. /\ fsAcked' \in AckMap /\ \A q \in Fs!Paths \ {p} : fsAcked'[q] = fsAcked[q]
       /\ fsAcked'[p].on = "unknown"
  BY <1>1, ForgetTyped
<1>11. FsTyped'
  BY <1>1, <1>2, <1>7, <1>10 DEF FsTyped, Heaps
<1>12. CallSees(t)'
  <2>1. fsCall[t] = Fs!Idle /\ fsCall'[t] = fsCall[t]
    BY <1>1 DEF Answers, CallSees
  <2> QED
    BY <2>1, FsIdle DEF CallSees
<1>13. \A q \in Fs!Paths \ {p} : FileContent(q)' = FileContent(q)
  BY <1>2, <1>3 DEF FileContent
<1>14. Answers'
  BY <1>1, <1>2, <1>10, <1>11, <1>12, <1>13, FsStep
<1> QED
  BY <1>3, <1>9, <1>11, <1>14 DEF FsInv

\* What is written at the start of an empty file is what it holds.
LEMMA OverlayEmpty ==
  ASSUME NEW d \in Seq(Nat) PROVE Fs!Overlay(<<>>, d) = d
<1>1. Len(d) \in Nat
  BY LenProperties
<1>2. SubSeq(<<>>, Len(d) + 1, 0) = <<>>
  <2>1. ~(Len(d) + 1 <= 0)
    BY <1>1
  <2> QED
    BY <1>1, <2>1
<1>3. d \o <<>> = d
  BY ConcatEmptySeq
<1> QED
  BY <1>2, <1>3 DEF Fs!Overlay

\* A write over a file gives a file.
LEMMA OverlayTyped ==
  ASSUME NEW s \in Seq(Nat), NEW d \in Seq(Nat) PROVE Fs!Overlay(s, d) \in Seq(Nat)
<1>1. Len(d) \in Nat /\ Len(s) \in Nat
  BY LenProperties
<1>2. SubSeq(s, Len(d) + 1, Len(s)) \in Seq(Nat)
  <2>1. \A i \in (Len(d) + 1) .. Len(s) : i \in 1 .. Len(s)
    BY <1>1
  <2> QED
    BY <1>1, <2>1, SubSeqProperties
<1> QED
  BY <1>2, ConcatProperties DEF Fs!Overlay

\* fs_write: whole, short, or the fall back.
LEMMA WritesDisk ==
  ASSUME FsOK, FsInv, NEW t \in Callers, Fs!WriteData(t) PROVE FsInv'
<1>1. /\ RamTyped /\ Fs!RamFits /\ FsTyped /\ Fs!HeapIsHeld /\ Answers
      /\ fsCall[t] \in FsCalls /\ CallSees(t) /\ fsCall[t].at = "truncated" /\
           UNCHANGED <<fsRam, fsHeap>>
  BY DEF FsInv, FsTyped, Answers, Fs!WriteData, Fs!At
<1>2. PICK p \in Fs!Paths, d \in Seq(Nat) : p = fsCall[t].path /\ d = fsCall[t].data /\ ~Fs!IsRam(p)
  BY <1>1 DEF CallSees, FsCalls
<1>3. p \in DiskPaths /\ DiskTyped
  BY <1>1, <1>2 DEF Fs!Paths, Fs!IsRam, FsTyped
<1>4. ASSUME NEW c \in FsCalls, fsCall' = [fsCall EXCEPT ![t] = c], c = Fs!Idle \/
               (c.at = "fallback" /\ c.path = p),
             NEW e \in Seq(Nat), UNCHANGED fsDisk \/ Fs!Store(p, e),
             fsAcked' \in AckMap, \A q \in Fs!Paths \ {p} : fsAcked'[q] = fsAcked[q],
             \/ fsAcked'[p].on = "unknown"
             \/ fsAcked'[p].on = t /\ fsAcked[p].on = t
             \/ fsAcked'[p].on \in {"ram", "disk"} /\ Fs!Alone(t, p) /\ c = Fs!Idle /\
                  AnswerHolds(p)'
      PROVE  FsInv'
  <2>1. /\ fsCall' \in [Callers -> FsCalls] /\ fsCall'[t] = c
        /\ \A u \in Callers \ {t} : fsCall'[u] = fsCall[u]
    BY <1>1, <1>4, FsCalling
  <2>2. /\ DiskTyped'
        /\ \A q \in Fs!Paths \ {p} : /\ q \in DOMAIN fsDisk' <=> q \in DOMAIN fsDisk
                                     /\ q \in DOMAIN fsDisk => fsDisk'[q] = fsDisk[q]
    <3>1. CASE UNCHANGED fsDisk
      BY <1>3, <3>1 DEF DiskTyped
    <3>2. CASE Fs!Store(p, e)
      BY <1>3, <3>2, DiskStores
    <3> QED
      BY <1>4, <3>1, <3>2
  <2>3. c.at # "append" /\ (c = Fs!Idle => c.at = "idle")
    BY <1>4, FsIdle
  <2>4. /\ RamTyped' /\ Fs!RamFits' /\ Fs!HeapIsHeld' /\ fsHeap' \in Heaps
        /\ \A q \in Fs!Paths : Fs!RamFile(q)' = Fs!RamFile(q)
    BY <1>1, <2>1, <2>3, MemoryKept
  <2>5. FsTyped'
    BY <1>4, <2>1, <2>2, <2>4 DEF FsTyped
  <2>6. CallSees(t)'
    BY <1>2, <1>4, <2>1, <2>3 DEF CallSees, Fs!IsRam
  <2>7. \A q \in Fs!Paths \ {p} : FileContent(q)' = FileContent(q)
    BY <2>2, <2>4, OthersRead
  <2>8. fsCall'[t].path = p \/ fsCall'[t].at = "idle"
    BY <1>4, <2>1, <2>3
  <2>9. Answers'
    BY <1>1, <1>2, <1>4, <2>1, <2>2, <2>3, <2>5, <2>6, <2>7, <2>8, FsStep
  <2> QED
    BY <2>4, <2>5, <2>9 DEF FsInv
<1>5. Fs!Disk(p) \in Seq(Nat)
  BY <1>3, DiskContent
<1>6. CASE /\ Fs!Store(p, Fs!Overlay(Fs!Disk(p), d)) /\ Fs!Return(t)
           /\ Fs!Answer(t, p, fsCall[t].cut /\ p \in DOMAIN fsDisk, "disk", d)
  <2>1. PICK e \in Seq(Nat) : e = Fs!Overlay(Fs!Disk(p), d)
    BY <1>5, OverlayTyped
  <2>2. PICK ok \in BOOLEAN : ok = (fsCall[t].cut /\ p \in DOMAIN fsDisk)
    OBVIOUS
  <2>3. /\ fsAcked' \in AckMap /\ \A q \in Fs!Paths \ {p} : fsAcked'[q] = fsAcked[q]
        /\ \/ fsAcked'[p].on = "unknown"
           \/ /\ ok /\ Fs!Alone(t, p) /\ (Fs!At(t, "idle") \/ fsAcked[p].on = t)
              /\ fsAcked'[p].on = "disk" /\ fsAcked'[p].data = d
    BY <1>1, <1>6, <2>2, AnswerTyped
  <2>4. Fs!Store(p, e) /\ fsCall' = [fsCall EXCEPT ![t] = Fs!Idle] /\ Fs!Idle \in FsCalls
    BY <1>6, <2>1, FsIdle DEF Fs!Return
  <2>5. ASSUME fsAcked'[p].on # "unknown" PROVE AnswerHolds(p)'
    <3>1. fsAcked[p].on = t /\ p \in DOMAIN fsDisk /\ fsCall[t].cut
      BY <1>1, <2>2, <2>3, <2>5 DEF Fs!At
    <3>2. Fs!Disk(p) = <<>>
      BY <1>1, <1>2, <3>1 DEF CallSees, Fs!Disk
    <3>3. e = d
      BY <2>1, <3>2, OverlayEmpty
    <3>4. p \in DOMAIN fsDisk' /\ fsDisk'[p] = d
      BY <1>3, <2>4, <3>1, <3>3, DiskStores
    <3>5. fsAcked'[p].data = d
      BY <2>3, <2>5
    <3> QED
      BY <1>2, <3>4, <3>5 DEF AnswerHolds, FileContent, Fs!IsRam
  <2> QED
    BY <1>4, <2>1, <2>3, <2>4, <2>5
<1>7. CASE d # <<>> /\ Fs!Store(p, Fs!Overlay(Fs!Disk(p), Fs!Front(d))) /\ Fs!Return(t) /\
             Fs!Forget(p)
  <2>1. Fs!Front(d) \in Seq(Nat)
    <3>1. Len(d) \in Nat /\ Len(d) - 1 \in Int /\ \A i \in 1 .. (Len(d) - 1) : i \in 1 .. Len(d)
      BY LenProperties
    <3> QED
      BY <3>1, SubSeqProperties DEF Fs!Front
  <2>2. PICK e \in Seq(Nat) : e = Fs!Overlay(Fs!Disk(p), Fs!Front(d))
    BY <1>5, <2>1, OverlayTyped
  <2>3. /\ fsAcked' \in AckMap /\ \A q \in Fs!Paths \ {p} : fsAcked'[q] = fsAcked[q]
        /\ fsAcked'[p].on = "unknown"
    BY <1>1, <1>7, ForgetTyped
  <2>4. Fs!Store(p, e) /\ fsCall' = [fsCall EXCEPT ![t] = Fs!Idle] /\ Fs!Idle \in FsCalls
    BY <1>7, <2>2, FsIdle DEF Fs!Return
  <2> QED
    BY <1>4, <2>2, <2>3, <2>4
<1>8. CASE fsCall' = [fsCall EXCEPT ![t].at = "fallback"] /\ UNCHANGED <<fsDisk, fsAcked>>
  <2>1. PICK c \in FsCalls : c = [fsCall[t] EXCEPT !.at = "fallback"] /\ c.at = "fallback" /\
          c.path = p
    <3>1. [fsCall[t] EXCEPT !.at = "fallback"] \in FsCalls
      BY <1>1 DEF FsCalls
    <3>2. [fsCall[t] EXCEPT !.at = "fallback"].at = "fallback" /\
            [fsCall[t] EXCEPT !.at = "fallback"].path = p
      BY <1>1, <1>2 DEF FsCalls
    <3> QED
      BY <3>1, <3>2
  <2>2. fsCall' = [fsCall EXCEPT ![t] = c]
    BY <1>1, <1>8, <2>1 DEF FsTyped
  <2>3. fsAcked[p].on = "unknown" \/ fsAcked[p].on = t
    BY <1>1, <1>2 DEF Answers, OwnerTold
  <2>4. fsAcked' \in AckMap /\ fsAcked' = fsAcked
    BY <1>1, <1>8 DEF FsTyped
  <2> QED
    BY <1>4, <1>5, <1>8, <2>1, <2>2, <2>3, <2>4
<1> QED
  BY <1>2, <1>6, <1>7, <1>8 DEF Fs!WriteData

\* For any threads, paths, data and size of the table: every unit that was
\* allocated is the buffer of a file or of an append in progress, files in RAM
\* fit their buffers and the table, and what a write nobody disturbed answered is
\* what the next read gives (fs_manager.c).  The invariant adds what a call in
\* progress knows of its path: nobody else is on a path that is marked as its
\* thread's, and a file it has cut is empty.
THEOREM WritesAreRead == ASSUME FsOK PROVE Fs!Spec => []Fs!StoreSound
<1>1. Fs!Init => FsInv
  <2> SUFFICES ASSUME Fs!Init PROVE FsInv
    OBVIOUS
  <2>1. DOMAIN fsRam = {} /\ fsRam = [q \in {} |-> Fs!NoFile]
    BY DEF Fs!Init
  <2>2. RamTyped
    BY <2>1, FsSets, FS_EmptySet DEF RamTyped
  <2>3. Fs!RamFits
    <3>1. Fs!Cardinality({}) = 0 /\ RamFiles \in Nat
      BY FsSets, FS_EmptySet DEF FsOK
    <3> QED
      BY <2>1, <3>1 DEF Fs!RamFits
  <2>4. DiskTyped
    <3>1. PICK D \in SUBSET (IF Persistent THEN DiskPaths
            ELSE {}) : fsDisk \in [D -> {<<>>} \union Datas]
      BY DEF Fs!Init
    <3>2. {<<>>} \union Datas \subseteq Seq(Nat)
      BY EmptySeq DEF FsOK
    <3> QED
      BY <3>1, <3>2 DEF DiskTyped
  <2>5. Fs!Unknown \in AckMarks /\ Fs!Unknown.on = "unknown"
    BY EmptySeq DEF Fs!Unknown, AckMarks
  <2>6. /\ fsCall \in [Callers -> FsCalls] /\ fsAcked \in AckMap /\ fsHeap \in Heaps
        /\ \A u \in Callers : fsCall[u] = Fs!Idle /\ fsCall[u].at = "idle"
        /\ \A q \in Fs!Paths : fsAcked[q].on = "unknown"
        /\ \A x \in Fs!Paths \union Callers : fsHeap[x] = 0
    <3>1. fsCall = [u \in Callers |-> Fs!Idle] /\ fsAcked = [q \in Fs!Paths |-> Fs!Unknown]
      BY DEF Fs!Init
    <3>2. fsHeap = [x \in Fs!Paths \union Callers |-> 0]
      BY DEF Fs!Init
    <3>3. fsHeap \in Heaps /\ \A x \in Fs!Paths \union Callers : fsHeap[x] = 0
      BY <3>2 DEF Heaps
    <3> QED
      BY <2>5, <3>1, <3>3, FsIdle DEF AckMap
  <2>7. Fs!HeapIsHeld
    BY <2>1, <2>6 DEF Fs!HeapIsHeld, Fs!RamFile, Fs!NoFile
  <2>8. Answers
    BY <2>6 DEF Answers, CallSees, OwnerTold, AnswerHolds
  <2> QED
    BY <2>2, <2>3, <2>4, <2>6, <2>7, <2>8 DEF FsInv, FsTyped
<1>2. FsInv /\ [Fs!Next]_(Fs!vars) => FsInv'
  <2> SUFFICES ASSUME FsInv, [Fs!Next]_(Fs!vars) PROVE FsInv'
    OBVIOUS
  <2>1. CASE UNCHANGED Fs!vars
    BY <2>1 DEF Fs!vars, FsInv, FsTyped, DiskTyped, RamTyped, Fs!RamFits, Fs!HeapIsHeld,
       Fs!RamFile, Answers, CallSees, OwnerTold, AnswerHolds,
                FileContent
  <2>2. CASE Fs!Next
    BY <2>2, WritesRam, Opens, AppendsRead, AppendsDisk, Deletes, Truncates, WritesDisk,
       FallsBack, AppendsRam DEF Fs!Next
  <2> QED
    BY <2>1, <2>2
<1>3. FsInv => Fs!StoreSound
  <2> SUFFICES ASSUME FsInv PROVE Fs!AnsweredIsRead
    BY DEF Fs!StoreSound, FsInv
  <2>1. \A q \in Fs!Paths : Fs!ReadOf(q) = FileContent(q)
    BY ReadsContent DEF FsInv
  <2> QED
    BY <2>1 DEF FsInv, Answers, AnswerHolds, Fs!AnsweredIsRead
<1> QED
  BY <1>1, <1>2, <1>3, PTL DEF Fs!Spec

-----------------------------------------------------------------------------
(* The card and its apps, and what is proved of it.                         *)

Card == INSTANCE RemovableStorage WITH
  Threads <- Callers, Nobody <- NoCaller, Names <- CardNames,
  Binaries <- CardBinaries, NameMax <- CardNameMax, apps <- cardApps,
  call <- cardCall, faults <- cardFaults

CardOK == NoCaller \notin Callers /\ CardBinaries \subseteq Seq(Nat) /\ <<>> \notin CardBinaries
          /\ MaxList \in Nat /\ MaxSize \in Nat

\* The finite sets of RemovableStorage are those of the library.
LEMMA CardSets == \A S : /\ Card!Cardinality(S) = Cardinality(S)
                         /\ Card!IsFiniteSet(S) <=> IsFiniteSet(S)
BY DEF Card!Cardinality, Cardinality, Card!IsFiniteSet, IsFiniteSet

CardOps == {"none", "mount", "unmount"} \cup Card!Scans \cup Card!Installs
CardPoints == {"idle", "mount", "unmount", "unmounted", "open", "entries", "next", "size", "read",
"manifest"}
ListedNames == CardNames \cup {Card!Cut(m) : m \in CardNames}
CardCalls ==
  [op : CardOps, at : CardPoints, todo : Seq(ListedNames), read : SUBSET CardNames, size : Nat,
   bin : Seq(Nat), dirty : BOOLEAN, ans : {"none", "ok", "error"}]
CardApps == [bin : Seq(Nat), manifests : SUBSET Jsons, dirty : BOOLEAN]
CardTyped ==
  /\ mounted \in BOOLEAN /\ holder \in Callers \cup {NoCaller}
  /\ card \in [CardNames -> CardBinaries \cup {Card!Absent}] /\
       cardApps \in [Card!AppNames -> CardApps]
  /\ cardCall \in [Callers -> CardCalls]

\* Only the one with the mutex changes the state, which is behind in the middle of
\* unmounting.
Mutex ==
  /\ told = state
  /\ holder = NoCaller => (mounted <=> state = "MOUNTED")
  /\ \A t \in Callers :
       /\ cardCall[t].at \in {"mount", "unmount", "unmounted"} <=> holder = t
       /\ cardCall[t].at = "mount" => ~mounted /\ state # "MOUNTED"
       /\ cardCall[t].at = "unmount" => mounted /\ state = "MOUNTED"
       /\ cardCall[t].at = "unmounted" => ~mounted /\ state = "MOUNTED"

\* Where a call is and what it knows, unless it is dirty: the files it read are
\* there, as is the one that it is about to read, and the apps of those it is done
\* with are installed.
Placed(c) ==
  /\ c.at \in {"size", "read", "manifest"} => c.op \in Card!Installs /\ c.todo # <<>>
  /\ c.at = "next" => c.op \in Card!Installs
  /\ c.at \in {"open", "entries"} => c.op \in Card!Scans /\ c.ans = "none"
  /\ c.at = "open" => c.todo = <<>> /\ c.read = {}
  /\ c.at = "entries" => /\ Card!IsFiniteSet(c.read) /\ Card!Cardinality(c.read) = Len(c.todo)
                         /\ Len(c.todo) <= MaxList
                         /\ \A m \in c.read : Card!Cut(m) \in Card!ToSet(c.todo)
  /\ c.op = "install all" /\ c.ans = "ok" /\ c.at = "idle" => c.todo = <<>>
Reading(c) == c.at = "entries" => mounted /\ c.read \subseteq Card!Files
Measured(c) ==
  c.at = "read" => /\ mounted /\ Head(c.todo) \in CardNames /\ card[Head(c.todo)] # Card!Absent
                   /\ c.size = Len(card[Head(c.todo)])
Scanned(c) ==
  c.op \in Card!Scans /\ c.ans = "ok" =>
    /\ c.read = Card!Files \/ Card!Cardinality(c.read) = MaxList
    /\ c.at # "idle" => mounted
    /\ c.op = "install all" =>
         \A n \in Card!Files, m \in c.read :
           n = Card!Cut(m) /\ Len(card[n]) <= MaxSize => cardApps[Card!AppName(n)] # Card!NoApp \/
             n \in Card!ToSet(c.todo)
CallSound(c) ==
  /\ Placed(c)
  /\ ~c.dirty => Reading(c) /\ Measured(c) /\ (c.at = "manifest" => c.bin \in CardBinaries) /\
       Scanned(c)

AppsWhole == \A n \in Card!AppNames : cardApps[n] # Card!NoApp =>
  cardApps[n].bin \in CardBinaries \/ cardApps[n].dirty

CardInv == CardTyped /\ Mutex /\ AppsWhole /\ \A t \in Callers : CallSound(cardCall[t])

\* What a call knows stays so while the card is not touched, whatever is installed.
LEMMA KnowsStill ==
  ASSUME card' = card, mounted => mounted', \A n \in Card!AppNames : cardApps[n] # Card!NoApp =>
           cardApps'[n] # Card!NoApp,
         NEW c, CallSound(c)
  PROVE  CallSound(c)'
<1>1. Card!Files' = Card!Files
  BY DEF Card!Files
<1>2. \A n \in Card!Files : Card!AppName(n) \in Card!AppNames
  BY DEF Card!Files, Card!AppNames
<1>3. Placed(c)' /\ (Reading(c) => Reading(c)') /\ (Measured(c) => Measured(c)')
  BY <1>1 DEF CallSound, Placed, Reading, Measured
<1>4. Scanned(c) => Scanned(c)'
  <2> SUFFICES ASSUME Scanned(c), c.op \in Card!Scans, c.ans = "ok"
               PROVE  /\ c.read = Card!Files \/ Card!Cardinality(c.read) = MaxList
                      /\ c.at # "idle" => mounted'
                      /\ c.op = "install all" =>
                           \A n \in Card!Files, m \in c.read :
                             n = Card!Cut(m) /\ Len(card[n]) <= MaxSize =>
                               cardApps'[Card!AppName(n)] # Card!NoApp \/ n \in Card!ToSet(c.todo)
    BY <1>1 DEF Scanned, Card!AppName, Card!Cut, Card!NoApp
  <2> QED
    BY <1>2 DEF Scanned
<1> QED
  BY <1>3, <1>4 DEF CallSound, Placed

\* One call's step.
LEMMA OneCall ==
  ASSUME CardTyped, \A u \in Callers : CallSound(cardCall[u]),
         NEW t \in Callers, NEW c \in CardCalls, cardCall' = [cardCall EXCEPT ![t] = c],
         CallSound(c)',
         card' = card, mounted => mounted', \A n \in Card!AppNames : cardApps[n] # Card!NoApp =>
           cardApps'[n] # Card!NoApp
  PROVE  cardCall' \in [Callers -> CardCalls] /\ \A u \in Callers : CallSound(cardCall[u])'
<1>1. /\ cardCall' \in [Callers -> CardCalls] /\ cardCall'[t] = c
      /\ \A u \in Callers \ {t} : cardCall'[u] = cardCall[u]
  BY DEF CardTyped
<1>2. ASSUME NEW u \in Callers PROVE CallSound(cardCall[u])'
  <2>1. PICK e : e = cardCall'[u]
    OBVIOUS
  <2>2. CallSound(e)'
    <3>1. CASE u = t
      BY <1>1, <2>1, <3>1
    <3>2. CASE u # t
      <4>1. e = cardCall[u] /\ CallSound(cardCall[u])
        BY <1>1, <2>1, <3>2
      <4>2. CallSound(e)
        BY <4>1
      <4> QED
        BY <4>2, KnowsStill
    <3> QED
      BY <3>1, <3>2
  <2> QED
    BY <2>1, <2>2 DEF CallSound, Placed, Reading, Measured, Scanned
<1> QED
  BY <1>1, <1>2

\* A step that makes all calls dirty: what they knew need not hold any more.
LEMMA AllDirty ==
  ASSUME CardTyped, \A u \in Callers : CallSound(cardCall[u]), NEW T \in SUBSET Callers,
         cardCall' \in [Callers -> CardCalls],
         \A u \in T : cardCall'[u] = [cardCall[u] EXCEPT !.dirty = TRUE],
         \A u \in Callers \ T : cardCall'[u].dirty /\ Placed(cardCall'[u])
  PROVE  \A u \in Callers : CallSound(cardCall[u])'
<1> SUFFICES ASSUME NEW u \in Callers PROVE CallSound(cardCall[u])'
  OBVIOUS
<1>1. cardCall[u] \in CardCalls /\ Placed(cardCall[u])
  BY DEF CardTyped, CallSound
<1>2. Placed(cardCall'[u]) /\ cardCall'[u].dirty
  <2>1. CASE u \in T
    <3>1. cardCall'[u] = [cardCall[u] EXCEPT !.dirty = TRUE]
      BY <2>1
    <3>2. /\ cardCall'[u].dirty /\ cardCall'[u].op = cardCall[u].op /\
               cardCall'[u].at = cardCall[u].at
          /\ cardCall'[u].todo = cardCall[u].todo /\ cardCall'[u].read = cardCall[u].read /\
               cardCall'[u].ans = cardCall[u].ans
      BY <1>1, <3>1 DEF CardCalls
    <3> QED
      BY <1>1, <3>2 DEF Placed
  <2> QED
    BY <2>1
<1> QED
  BY <1>2 DEF CallSound, Placed

\* All calls, dirty.
LEMMA Dirties ==
  ASSUME CardTyped
  PROVE  /\ Card!Dirty \in [Callers -> CardCalls]
         /\ \A u \in Callers : Card!Dirty[u] = [cardCall[u] EXCEPT !.dirty = TRUE] /\
              Card!Dirty[u].at = cardCall[u].at
<1>1. ASSUME NEW u \in Callers PROVE [cardCall[u] EXCEPT !.dirty = TRUE] \in CardCalls /\
               [cardCall[u] EXCEPT !.dirty = TRUE].at = cardCall[u].at
  <2>1. cardCall[u] \in CardCalls
    BY DEF CardTyped
  <2> QED
    BY <2>1 DEF CardCalls
<1> QED
  BY <1>1 DEF Card!Dirty

\* A step of calls that have nothing to do with the mutex.
LEMMA MutexKept ==
  ASSUME Mutex, UNCHANGED <<state, told, mounted, holder>>,
         \A u \in Callers :
           cardCall'[u].at = cardCall[u].at \/
             {cardCall[u].at, cardCall'[u].at} \cap {"mount", "unmount", "unmounted"} = {}
  PROVE  Mutex'
BY DEF Mutex

\* An idle call knows nothing.
LEMMA CardIdle == Card!Idle \in CardCalls /\ Card!Idle.at = "idle" /\ CallSound(Card!Idle) /\
                    CallSound(Card!Idle)'
<1>1. <<>> \in Seq(Nat) /\ <<>> \in Seq(ListedNames)
  BY EmptySeq
<1> QED
  BY <1>1 DEF Card!Idle, CardCalls, CardOps, CardPoints, Card!Scans, Card!Installs, Card!Absent,
     CallSound, Placed, Reading, Measured, Scanned

\* sd_manager_mount() and _unmount().
LEMMA CardMounts ==
  ASSUME CardOK, CardInv, NEW t \in Callers,
         Card!Mount(t) \/ Card!MountDone(t) \/ Card!Unmount(t) \/ Card!UnmountDone(t)
  PROVE  CardInv'
<1>0. /\ CardTyped /\ Mutex /\ AppsWhole /\ (\A u \in Callers : CallSound(cardCall[u]))
      /\ cardCall[t] \in CardCalls /\ Placed(cardCall[t])
  BY DEF CardInv, CardTyped, CallSound
<1>1. ASSUME NEW op \in {"mount", "unmount"},
             cardCall' = [cardCall EXCEPT ![t] = [Card!Idle EXCEPT !.op = op, !.at = op,
             !.todo = <<>>]],
             holder = NoCaller, holder' = t, UNCHANGED <<state, told, mounted, card, cardApps>>,
             op = "mount" <=> state # "MOUNTED"
      PROVE  CardInv'
  <2>0. PICK c : c = [Card!Idle EXCEPT !.op = op, !.at = op, !.todo = <<>>]
    OBVIOUS
  <2>1. c \in CardCalls /\ c.op = op /\ c.at = op /\ c.todo = <<>> /\ c.ans = "none" /\ c.read = {}
    <3>1. op \in CardOps /\ op \in CardPoints /\ <<>> \in Seq(ListedNames)
      BY EmptySeq DEF CardOps, CardPoints
    <3> QED
      BY <2>0, <3>1, CardIdle DEF CardCalls, Card!Idle
  <2>2. cardCall' = [cardCall EXCEPT ![t] = c]
    BY <1>1, <2>0
  <2>3. CallSound(c)'
    BY <2>1 DEF CallSound, Placed, Reading, Measured, Scanned, Card!Scans, Card!Installs
  <2>4. cardCall' \in [Callers -> CardCalls] /\ \A u \in Callers : CallSound(cardCall[u])'
    BY <1>0, <1>1, <2>1, <2>2, <2>3, OneCall
  <2>5. /\ cardCall'[t].at = op /\ \A u \in Callers \ {t} : cardCall'[u] = cardCall[u]
        /\ \A u \in Callers : u # NoCaller
    BY <1>0, <2>1, <2>2 DEF CardTyped, CardOK
  <2>6. Mutex'
    BY <1>0, <1>1, <2>5 DEF Mutex
  <2>7. CardTyped' /\ AppsWhole'
    BY <1>0, <1>1, <2>4 DEF CardTyped, AppsWhole, Card!NoApp
  <2> QED
    BY <2>4, <2>6, <2>7 DEF CardInv
<1>2. CASE Card!Mount(t)
  BY <1>1, <1>2 DEF Card!Mount, Card!Calls, Card!media
<1>3. CASE Card!Unmount(t)
  BY <1>1, <1>3 DEF Card!Unmount, Card!Calls, Card!media
<1>4. ASSUME NEW a \in {"ok", "error"},
             cardCall' = [cardCall EXCEPT ![t].at = "idle", ![t].ans = a],
             cardCall[t].at \in {"mount", "unmounted"}, cardCall[t].op \in {"mount", "unmount"},
             holder' = NoCaller, told' = state', mounted' <=> state' = "MOUNTED",
             mounted' \in BOOLEAN,
             UNCHANGED <<card, cardApps>>
      PROVE  CardInv'
  <2>0. PICK c : c = [cardCall[t] EXCEPT !.at = "idle", !.ans = a]
    OBVIOUS
  <2>1. c \in CardCalls /\ c.op = cardCall[t].op /\ c.at = "idle"
    BY <1>0, <2>0 DEF CardCalls, CardPoints
  <2>2. cardCall' = [cardCall EXCEPT ![t] = c]
    BY <1>0, <1>4, <2>0 DEF CardTyped, CardCalls
  <2>3. CallSound(c)'
    <3>1. c.op \notin Card!Scans /\ c.op # "install all"
      BY <1>4, <2>1 DEF Card!Scans
    <3> QED
      BY <2>1, <3>1 DEF CallSound, Placed, Reading, Measured, Scanned
  <2>4. holder = t /\ ~mounted /\
          \A u \in Callers \ {t} : cardCall[u].at \notin {"mount", "unmount", "unmounted"}
    <3>1. holder = t /\ ~mounted
      BY <1>0, <1>4 DEF Mutex
    <3>2. \A u \in Callers \ {t} : holder # u
      BY <3>1
    <3> QED
      BY <1>0, <3>1, <3>2 DEF Mutex
  <2>5. cardCall' \in [Callers -> CardCalls] /\ \A u \in Callers : CallSound(cardCall[u])'
    BY <1>0, <1>4, <2>1, <2>2, <2>3, <2>4, OneCall
  <2>6. /\ cardCall'[t].at = "idle" /\ \A u \in Callers \ {t} : cardCall'[u] = cardCall[u]
        /\ \A u \in Callers : u # NoCaller
    BY <1>0, <2>1, <2>2 DEF CardTyped, CardOK
  <2>7. \A u \in Callers : cardCall'[u].at \notin {"mount", "unmount", "unmounted"}
    BY <2>4, <2>6
  <2>8. Mutex'
    BY <1>4, <2>6, <2>7 DEF Mutex
  <2>9. CardTyped' /\ AppsWhole'
    BY <1>0, <1>4, <2>5 DEF CardTyped, AppsWhole, Card!NoApp
  <2> QED
    BY <2>5, <2>8, <2>9 DEF CardInv
<1>5. CASE Card!MountDone(t)
  <2>1. ~mounted /\ told = state
    BY <1>0, <1>5 DEF Mutex, Card!MountDone, Card!At
  <2>2. /\ cardCall[t].at = "mount" /\ cardCall[t].op = "mount" /\ holder' = NoCaller /\
             UNCHANGED <<card, cardApps>>
        /\ \/ Card!Notify("MOUNTED") /\ mounted' = TRUE /\ Card!Ends(t, "ok")
           \/ Card!Notify("ERROR") /\ Card!Ends(t, "error") /\ UNCHANGED mounted
    BY <1>5 DEF Card!MountDone, Card!At, Card!media
  <2>3. told' = state' /\ (mounted' <=> state' = "MOUNTED") /\ mounted' \in BOOLEAN
    <3>1. told' = state'
      BY <2>1, <2>2 DEF Card!Notify
    <3>2. state' # "MOUNTED" => mounted' = mounted
      BY <2>2 DEF Card!Notify
    <3>3. state' = "MOUNTED" => mounted' = TRUE
      BY <2>2 DEF Card!Notify
    <3>4. mounted \in BOOLEAN
      BY <1>0 DEF CardTyped
    <3>5. CASE state' = "MOUNTED"
      BY <3>1, <3>3, <3>5
    <3>6. CASE state' # "MOUNTED"
      BY <2>1, <3>1, <3>2, <3>4, <3>6
    <3> QED
      BY <3>5, <3>6
  <2>4. \E a \in {"ok", "error"} : cardCall' = [cardCall EXCEPT ![t].at = "idle", ![t].ans = a]
    BY <2>2 DEF Card!Ends
  <2> QED
    BY <1>4, <2>2, <2>3, <2>4
<1>6. CASE Card!UnmountDone(t)
  <2>1. ~mounted /\ told = state
    BY <1>0, <1>6 DEF Mutex, Card!UnmountDone, Card!At
  <2>2. /\ cardCall[t].at = "unmounted" /\ cardCall[t].op = "unmount" /\ holder' = NoCaller /\
             UNCHANGED <<mounted, card, cardApps>>
        /\ Card!Notify("UNMOUNTED") /\ Card!Ends(t, "ok")
    BY <1>6 DEF Card!UnmountDone, Card!At, Card!media
  <2>3. told' = state' /\ (mounted' <=> state' = "MOUNTED") /\ mounted' \in BOOLEAN
    <3>1. told' = state'
      BY <2>1, <2>2 DEF Card!Notify
    <3>2. state' # "MOUNTED" => mounted' = mounted
      BY <2>2 DEF Card!Notify
    <3>3. state' # "MOUNTED"
      BY <2>2 DEF Card!Notify
    <3>4. mounted \in BOOLEAN
      BY <1>0 DEF CardTyped
    <3> QED
      BY <2>1, <2>2, <3>1, <3>2, <3>3, <3>4
  <2>4. \E a \in {"ok", "error"} : cardCall' = [cardCall EXCEPT ![t].at = "idle", ![t].ans = a]
    BY <2>2 DEF Card!Ends
  <2> QED
    BY <1>4, <2>2, <2>3, <2>4
<1> QED
  BY <1>2, <1>3, <1>5, <1>6

\* What every step that leaves the card and its state alone must show of its call.
LEMMA CardCall ==
  ASSUME CardInv, NEW t \in Callers, NEW c \in CardCalls, cardCall' = [cardCall EXCEPT ![t] = c],
         CallSound(c)',
         UNCHANGED <<Card!mount, card>>,
         {cardCall[t].at, c.at} \cap {"mount", "unmount", "unmounted"} = {},
         cardApps' \in [Card!AppNames -> CardApps], AppsWhole',
         \A n \in Card!AppNames : cardApps[n] # Card!NoApp => cardApps'[n] # Card!NoApp
  PROVE  CardInv'
<1>0. /\ CardTyped /\ Mutex /\ AppsWhole /\ (\A u \in Callers : CallSound(cardCall[u]))
      /\ UNCHANGED <<state, told, mounted, holder>>
  BY DEF CardInv, Card!mount
<1>1. cardCall' \in [Callers -> CardCalls] /\ \A u \in Callers : CallSound(cardCall[u])'
  BY <1>0, OneCall
<1>2. cardCall'[t] = c /\ \A u \in Callers \ {t} : cardCall'[u] = cardCall[u]
  BY <1>0 DEF CardTyped
<1>3. Mutex'
  <2>1. \A u \in Callers :
          cardCall'[u].at = cardCall[u].at \/
            {cardCall[u].at, cardCall'[u].at} \cap {"mount", "unmount", "unmounted"} = {}
    BY <1>2
  <2> QED
    BY <1>0, <2>1, MutexKept
<1> QED
  BY <1>0, <1>1, <1>3 DEF CardInv, CardTyped

\* The same of one that installs nothing.
LEMMA CardStep ==
  ASSUME CardInv, NEW t \in Callers, NEW c \in CardCalls, cardCall' = [cardCall EXCEPT ![t] = c],
         CallSound(c),
         UNCHANGED <<Card!mount, Card!media, cardApps>>,
         {cardCall[t].at, c.at} \cap {"mount", "unmount", "unmounted"} = {}
  PROVE  CardInv'
<1>1. UNCHANGED <<Card!mount, card>> /\ card' = card /\ (mounted => mounted')
  BY DEF Card!mount, Card!media
<1>2. CallSound(c)'
  BY <1>1, KnowsStill
<1>3. cardApps' \in [Card!AppNames -> CardApps] /\ AppsWhole'
  BY DEF CardInv, CardTyped, AppsWhole, Card!NoApp
<1> QED
  BY <1>1, <1>2, <1>3, CardCall

\* A scan of the card keeps the invariant.
LEMMA CardScans ==
  ASSUME CardOK, CardInv, NEW t \in Callers,
         (\E op \in Card!Scans : Card!Scan(t, op)) \/ Card!ScanOpen(t) \/ Card!ScanEntry(t) \/
           Card!ScanEnd(t)
  PROVE  CardInv'
<1>0. /\ CardTyped /\ cardCall[t] \in CardCalls /\ CallSound(cardCall[t]) /\ Placed(cardCall[t])
  BY DEF CardInv, CardTyped, CallSound
<1>1. ASSUME NEW op \in Card!Scans, Card!Scan(t, op) PROVE CardInv'
  <2>1. op \in CardOps /\ "open" \in CardPoints /\ <<>> \in Seq(ListedNames)
    BY EmptySeq DEF CardOps, CardPoints
  <2>2. PICK c : c = [Card!Idle EXCEPT !.op = op, !.at = "open", !.todo = <<>>]
    OBVIOUS
  <2>3. c \in CardCalls /\ c.op = op /\ c.at = "open" /\ c.todo = <<>> /\ c.ans = "none" /\
          c.read = {}
    BY <2>1, <2>2, CardIdle DEF CardCalls, Card!Idle
  <2>4. cardCall' = [cardCall EXCEPT ![t] = c] /\ cardCall[t].at = "idle" /\
          UNCHANGED <<Card!mount, Card!media, cardApps>>
    BY <1>1, <2>2 DEF Card!Scan, Card!Calls
  <2>5. CallSound(c)
    BY <2>3 DEF CallSound, Placed, Reading, Measured, Scanned
  <2> QED
    BY <2>3, <2>4, <2>5, CardStep
<1>2. CASE Card!ScanOpen(t)
  <2>1. /\ cardCall[t].at = "open" /\ cardCall[t].op \in Card!Scans /\ cardCall[t].ans = "none"
        /\ cardCall[t].todo = <<>> /\ cardCall[t].read = {}
    BY <1>0, <1>2 DEF Card!ScanOpen, Card!At, Placed
  <2>2. CASE mounted /\ Card!Goes(t, "entries")
    <3>1. PICK c : c = [cardCall[t] EXCEPT !.at = "entries"]
      OBVIOUS
    <3>2. /\ c \in CardCalls /\ c.at = "entries" /\ c.op \in Card!Scans /\ c.ans = "none"
          /\ c.todo = <<>> /\ c.read = {}
      BY <1>0, <2>1, <3>1 DEF CardCalls, CardPoints
    <3>3. cardCall' = [cardCall EXCEPT ![t] = c]
      BY <1>0, <2>2, <3>1 DEF Card!Goes, CardTyped, CardCalls
    <3>4. Card!IsFiniteSet({}) /\ Card!Cardinality({}) = 0 /\ Len(<<>>) = 0 /\ 0 <= MaxList
      BY CardSets, FS_EmptySet DEF CardOK
    <3>5. CallSound(c)
      BY <2>2, <3>2, <3>4 DEF CallSound, Placed, Reading, Measured, Scanned
    <3> QED
      BY <1>2, <2>1, <3>2, <3>3, <3>5, CardStep DEF Card!ScanOpen
  <2>3. CASE Card!Ends(t, "error")
    <3>1. PICK c : c = [cardCall[t] EXCEPT !.at = "idle", !.ans = "error"]
      OBVIOUS
    <3>2. c \in CardCalls /\ c.at = "idle" /\ c.op \in Card!Scans /\ c.ans = "error"
      BY <1>0, <2>1, <3>1 DEF CardCalls, CardPoints
    <3>3. cardCall' = [cardCall EXCEPT ![t] = c]
      BY <1>0, <2>3, <3>1 DEF Card!Ends, CardTyped, CardCalls
    <3>4. CallSound(c)
      BY <3>2 DEF CallSound, Placed, Reading, Measured, Scanned
    <3> QED
      BY <1>2, <2>1, <3>2, <3>3, <3>4, CardStep DEF Card!ScanOpen
  <2> QED
    BY <1>2, <2>2, <2>3 DEF Card!ScanOpen
<1>3. CASE Card!ScanEntry(t)
  <2>1. /\ cardCall[t].at = "entries" /\ cardCall[t].op \in Card!Scans /\
             cardCall[t].ans = "none" /\ mounted
        /\ Card!IsFiniteSet(cardCall[t].read) /\
             Card!Cardinality(cardCall[t].read) = Len(cardCall[t].todo)
        /\ Len(cardCall[t].todo) < MaxList
    BY <1>0, <1>3 DEF Card!ScanEntry, Card!At, Placed, Card!Room
  <2>2. PICK n \in Card!Files \ cardCall[t].read :
          cardCall' = [cardCall EXCEPT ![t].todo = Append(@, Card!Cut(n)), ![t].read = @ \cup {n}]
    BY <1>3 DEF Card!ScanEntry
  <2>3. n \in CardNames /\ Card!Cut(n) \in ListedNames /\ cardCall[t].todo \in Seq(ListedNames)
    BY <1>0, <2>2 DEF Card!Files, ListedNames, CardCalls
  <2>4. PICK todo \in Seq(ListedNames) :
          /\ todo = Append(cardCall[t].todo, Card!Cut(n)) /\ Len(todo) = Len(cardCall[t].todo) + 1
          /\ \A m \in cardCall[t].read \cup {n} : Card!Cut(m) \in Card!ToSet(todo)
    <3> DEFINE old == cardCall[t].todo
               new == Append(old, Card!Cut(n))
    <3>1. /\ new \in Seq(ListedNames) /\ Len(new) = Len(old) + 1 /\ new[Len(old) + 1] = Card!Cut(n)
          /\ \A i \in 1 .. Len(old) : new[i] = old[i]
      BY <2>3, AppendProperties
    <3>2. DOMAIN new = 1 .. Len(old) + 1 /\ DOMAIN old = 1 .. Len(old) /\ Len(old) \in Nat
      BY <2>3, <3>1
    <3> HIDE DEF new, old
    <3>3. /\ \A x \in Card!ToSet(old) : x \in Card!ToSet(new)
          /\ Card!Cut(n) \in Card!ToSet(new)
      BY <3>1, <3>2 DEF Card!ToSet
    <3>4. \A m \in cardCall[t].read : Card!Cut(m) \in Card!ToSet(old)
      BY <1>0, <2>1 DEF Placed, old
    <3> QED
      BY <3>1, <3>3, <3>4 DEF new, old
  <2>5. PICK read \in SUBSET CardNames : read = cardCall[t].read \cup {n}
    BY <1>0, <2>3 DEF CardCalls
  <2>6. Card!IsFiniteSet(read) /\ Card!Cardinality(read) = Card!Cardinality(cardCall[t].read) + 1
    BY <2>1, <2>2, <2>5, CardSets, FS_AddElement
  <2>7. PICK c : c = [cardCall[t] EXCEPT !.todo = todo, !.read = read]
    OBVIOUS
  <2>8. /\ c \in CardCalls /\ c.at = "entries" /\ c.op \in Card!Scans /\ c.ans = "none"
        /\ c.todo = todo /\ c.read = read /\ c.dirty = cardCall[t].dirty
    BY <1>0, <2>1, <2>7 DEF CardCalls
  <2>9. cardCall' = [cardCall EXCEPT ![t] = c]
    BY <1>0, <2>2, <2>4, <2>5, <2>7 DEF CardTyped, CardCalls
  <2>10. Placed(c)
    <3>1. Card!Cardinality(c.read) = Len(c.todo) /\ Len(c.todo) <= MaxList
      <4>1. PICK k \in Nat : k = Len(cardCall[t].todo)
        BY <2>3
      <4>2. Len(todo) = k + 1 /\ k < MaxList /\ Card!Cardinality(read) = k + 1 /\ MaxList \in Nat
        BY <2>1, <2>4, <2>6, <4>1 DEF CardOK
      <4>3. k + 1 <= MaxList
        BY <4>2
      <4> QED
        BY <2>8, <4>2, <4>3
    <3> QED
      BY <2>4, <2>5, <2>6, <2>8, <3>1 DEF Placed
  <2>11. ~c.dirty => c.read \subseteq Card!Files
    BY <1>0, <2>1, <2>2, <2>5, <2>8 DEF CallSound, Reading
  <2>12. CallSound(c)
    BY <2>1, <2>8, <2>10, <2>11 DEF CallSound, Reading, Measured, Scanned
  <2> QED
    BY <1>3, <2>1, <2>8, <2>9, <2>12, CardStep DEF Card!ScanEntry
<1>4. CASE Card!ScanEnd(t)
  <2>1. /\ cardCall[t].at = "entries" /\ cardCall[t].op \in Card!Scans
        /\ Card!IsFiniteSet(cardCall[t].read) /\
             Card!Cardinality(cardCall[t].read) = Len(cardCall[t].todo)
        /\ Len(cardCall[t].todo) <= MaxList /\ UNCHANGED <<Card!mount, Card!media, cardApps>>
    BY <1>0, <1>4 DEF Card!ScanEnd, Card!At, Placed
  <2> DEFINE at == IF cardCall[t].op = "scan" THEN "idle" ELSE "next"
             todo == IF cardCall[t].op = "scan" THEN <<>> ELSE cardCall[t].todo
  <2>2. PICK d \in BOOLEAN :
          /\ cardCall' = [cardCall EXCEPT ![t].dirty = @ \/ d, ![t].at = at, ![t].todo = todo,
             ![t].ans = "ok"]
          /\ d \/ ((Card!Room(cardCall[t]) /\ mounted) => Card!Files \subseteq cardCall[t].read)
    <3>1. PICK d \in BOOLEAN :
            /\ cardCall' = [cardCall EXCEPT ![t].dirty = @ \/ d,
               ![t].at = IF cardCall[t].op = "scan" THEN "idle" ELSE "next",
                              ![t].todo = IF cardCall[t].op = "scan" THEN <<>> ELSE @,
                              ![t].ans = "ok"]
            /\ d \/ ((Card!Room(cardCall[t]) /\ mounted) => Card!Files \subseteq cardCall[t].read)
      BY <1>4 DEF Card!ScanEnd
    <3> QED
      BY <1>0, <3>1 DEF CardTyped
  <2>3. at \in {"idle", "next"} /\ todo \in Seq(ListedNames) /\
          (at = "idle" => todo = <<>> /\ cardCall[t].op = "scan")
        /\ (at = "next" => cardCall[t].op = "install all" /\ todo = cardCall[t].todo)
    BY <1>0, <2>1, EmptySeq DEF CardCalls, Card!Scans
  <2> HIDE DEF at, todo
  <2>4. PICK c : c = [cardCall[t] EXCEPT !.dirty = cardCall[t].dirty \/ d, !.at = at,
        !.todo = todo, !.ans = "ok"]
    OBVIOUS
  <2>5. /\ c \in CardCalls /\ c.at = at /\ c.op = cardCall[t].op /\ c.ans = "ok" /\ c.todo = todo
        /\ c.read = cardCall[t].read /\ (c.dirty <=> cardCall[t].dirty \/ d)
    BY <1>0, <2>3, <2>4 DEF CardCalls, CardPoints
  <2>6. cardCall' = [cardCall EXCEPT ![t] = c]
    BY <1>0, <2>2, <2>4 DEF CardTyped, CardCalls
  <2>7. Placed(c)
    BY <2>1, <2>3, <2>5 DEF Placed, Card!Installs
  <2>8. ASSUME ~c.dirty PROVE Scanned(c)
    <3>1. mounted /\ cardCall[t].read \subseteq Card!Files
      BY <1>0, <2>1, <2>5, <2>8 DEF CallSound, Reading
    <3>2. cardCall[t].read = Card!Files \/ Card!Cardinality(cardCall[t].read) = MaxList
      <4>1. CASE Card!Room(cardCall[t])
        BY <2>2, <2>5, <2>8, <3>1, <4>1
      <4>2. CASE ~Card!Room(cardCall[t])
        <5>1. PICK k \in Nat : k = Len(cardCall[t].todo)
          BY <1>0 DEF CardCalls
        <5>2. ~(k < MaxList) /\ k <= MaxList /\ MaxList \in Nat
          BY <2>1, <4>2, <5>1 DEF Card!Room, CardOK
        <5>3. k = MaxList
          BY <5>2
        <5> QED
          BY <2>1, <5>1, <5>3
      <4> QED
        BY <4>1, <4>2
    <3>3. ASSUME c.op = "install all", NEW n \in Card!Files, NEW m \in c.read, n = Card!Cut(m)
                 PROVE n \in Card!ToSet(c.todo)
      <4>1. Card!Cut(m) \in Card!ToSet(cardCall[t].todo) /\ todo = cardCall[t].todo
        <5>1. c.read = cardCall[t].read /\ at = "next"
          BY <2>3, <2>5, <3>3
        <5>2. todo = cardCall[t].todo
          BY <2>3, <5>1
        <5>3. \A x \in cardCall[t].read : Card!Cut(x) \in Card!ToSet(cardCall[t].todo)
          BY <1>0, <2>1 DEF Placed
        <5> QED
          BY <3>3, <5>1, <5>2, <5>3
      <4> QED
        BY <2>5, <3>3, <4>1
    <3> QED
      BY <2>5, <3>1, <3>2, <3>3 DEF Scanned
  <2>9. CallSound(c)
    BY <2>3, <2>5, <2>7, <2>8 DEF CallSound, Reading, Measured
  <2>10. {cardCall[t].at, c.at} \cap {"mount", "unmount", "unmounted"} = {}
    BY <2>1, <2>3, <2>5
  <2> QED
    BY <2>1, <2>5, <2>6, <2>9, <2>10, CardStep
<1> QED
  BY <1>1, <1>2, <1>3, <1>4

\* What a list has but for its head is in what is left of it.
LEMMA InTail ==
  ASSUME NEW S, NEW s \in Seq(S), s # <<>>, NEW x \in Card!ToSet(s), x # Head(s)
         PROVE x \in Card!ToSet(Tail(s))
<1>1. /\ Tail(s) \in Seq(S) /\ Len(Tail(s)) = Len(s) - 1 /\
           \A i \in 1 .. Len(Tail(s)) : Tail(s)[i] = s[i + 1]
      /\ Head(s) = s[1] /\ Len(s) \in Nat
  BY HeadTailProperties
<1>2. PICK i \in 1 .. Len(s) : x = s[i]
  BY DEF Card!ToSet
<1>3. i # 1
  BY <1>1, <1>2
<1>4. i - 1 \in 1 .. Len(Tail(s)) /\ (i - 1) + 1 = i
  BY <1>1, <1>3
<1>5. Tail(s)[i - 1] = x /\ DOMAIN Tail(s) = 1 .. Len(Tail(s))
  BY <1>1, <1>2, <1>4
<1> QED
  BY <1>4, <1>5 DEF Card!ToSet

\* All of a sequence.
LEMMA WholeSeq ==
  ASSUME NEW s \in Seq(Nat) PROVE SubSeq(s, 1, Len(s)) = s
<1> DEFINE r == SubSeq(s, 1, Len(s))
<1>1. Len(s) \in Nat /\ \A i \in 1 .. Len(s) : s[i] \in Nat
  BY ElementOfSeq
<1>2. /\ r \in Seq(Nat) /\ Len(r) = IF 1 <= Len(s) THEN Len(s) - 1 + 1 ELSE 0
      /\ \A i \in 1 .. Len(s) - 1 + 1 : r[i] = s[1 + i - 1]
  BY <1>1, SubSeqProperties
<1> HIDE DEF r
<1>3. Len(r) = Len(s) /\ \A i \in 1 .. Len(s) : r[i] = s[i]
  BY <1>1, <1>2
<1>4. r = s
  BY <1>2, <1>3, SeqEqual
<1> QED
  BY <1>4 DEF r

\* An install of one file, or of the first of a list.
LEMMA CardInstalls ==
  ASSUME CardOK, CardInv, NEW t \in Callers,
         (\E n \in CardNames : Card!Install(t, n)) \/ Card!InstallNext(t) \/ Card!InstallSize(t) \/
           Card!InstallRead(t)
  PROVE  CardInv'
<1>0. /\ CardTyped /\ cardCall[t] \in CardCalls /\ CallSound(cardCall[t]) /\ Placed(cardCall[t])
  BY DEF CardInv, CardTyped, CallSound
<1>1. ASSUME NEW n \in CardNames, Card!Install(t, n) PROVE CardInv'
  <2>1. "install" \in CardOps /\ "next" \in CardPoints /\ <<n>> \in Seq(ListedNames)
    BY DEF CardOps, CardPoints, Card!Installs, ListedNames
  <2>2. PICK c : c = [Card!Idle EXCEPT !.op = "install", !.at = "next", !.todo = <<n>>]
    OBVIOUS
  <2>3. c \in CardCalls /\ c.op = "install" /\ c.at = "next" /\ c.ans = "none"
    BY <2>1, <2>2, CardIdle DEF CardCalls, Card!Idle
  <2>4. cardCall' = [cardCall EXCEPT ![t] = c] /\ cardCall[t].at = "idle" /\
          UNCHANGED <<Card!mount, Card!media, cardApps>>
    BY <1>1, <2>2 DEF Card!Install, Card!Calls
  <2>5. CallSound(c)
    BY <2>3 DEF CallSound, Placed, Reading, Measured, Scanned, Card!Installs
  <2> QED
    BY <2>3, <2>4, <2>5, CardStep
<1>2. CASE Card!InstallNext(t) /\ cardCall[t].todo = <<>>
  <2>1. PICK c : c = [cardCall[t] EXCEPT !.at = "idle"]
    OBVIOUS
  <2>2. /\ c \in CardCalls /\ c.at = "idle" /\ c.op = cardCall[t].op /\ c.ans = cardCall[t].ans
        /\ c.todo = <<>> /\ c.read = cardCall[t].read /\ c.dirty = cardCall[t].dirty
    BY <1>0, <1>2, <2>1 DEF CardCalls, CardPoints
  <2>3. cardCall' = [cardCall EXCEPT ![t] = c] /\ cardCall[t].at = "next" /\
          UNCHANGED <<Card!mount, Card!media, cardApps>>
    BY <1>0, <1>2, <2>1 DEF Card!InstallNext, Card!Goes, Card!At, CardTyped, CardCalls
  <2>4. Placed(c)
    BY <2>2 DEF Placed
  <2>5. ~c.dirty => Scanned(c)
    BY <1>0, <1>2, <2>2 DEF CallSound, Scanned
  <2>6. CallSound(c)
    BY <2>2, <2>4, <2>5 DEF CallSound, Reading, Measured
  <2> QED
    BY <2>2, <2>3, <2>6, CardStep
\* What is left of the list.
<1>3. ASSUME cardCall[t].at \in {"next", "size", "read"}, cardCall[t].todo # <<>>,
             cardCall[t].op \in Card!Installs,
             NEW d \in BOOLEAN, UNCHANGED <<Card!mount, Card!media, cardApps>>,
             (d = FALSE /\ Card!Skips(t)) \/ (d = TRUE /\ Card!Fails(t)),
             ~d /\ ~cardCall[t].dirty /\ mounted =>
               Head(cardCall[t].todo) \notin Card!Files \/
                 ~(Len(card[Head(cardCall[t].todo)]) <= MaxSize)
      PROVE  CardInv'
  <2>1. PICK todo \in Seq(ListedNames) : todo = Tail(cardCall[t].todo)
    BY <1>0, <1>3, HeadTailProperties DEF CardCalls
  <2> DEFINE a == IF cardCall[t].op = "install" THEN "error" ELSE cardCall[t].ans
  <2>2. a \in {"none", "ok", "error"}
    BY <1>0 DEF CardCalls
  <2> HIDE DEF a
  <2>3. PICK c : c = [cardCall[t] EXCEPT !.at = "next", !.todo = todo, !.size = 0,
        !.bin = Card!Absent, !.ans = a,
                        !.dirty = cardCall[t].dirty \/ d]
    OBVIOUS
  <2>4. Card!Absent \in Seq(Nat) /\ "next" \in CardPoints
    BY EmptySeq DEF Card!Absent, CardPoints
  <2>5. /\ c \in CardCalls /\ c.at = "next" /\ c.op = cardCall[t].op /\ c.ans = a /\ c.todo = todo
        /\ c.read = cardCall[t].read /\ (c.dirty <=> cardCall[t].dirty \/ d)
    BY <1>0, <2>2, <2>3, <2>4 DEF CardCalls
  <2>6. cardCall' = [cardCall EXCEPT ![t] = c]
    <3>1. cardCall[t].dirty \in BOOLEAN
      BY <1>0 DEF CardCalls
    <3>2. CASE d = FALSE /\ Card!Skips(t)
      <4>1. c = Card!After(t, "error")
        BY <1>0, <2>1, <2>3, <3>1, <3>2 DEF Card!After, CardCalls, a
      <4> QED
        BY <3>2, <4>1 DEF Card!Skips
    <3>3. CASE d = TRUE /\ Card!Fails(t)
      <4>1. c = [Card!After(t, "error") EXCEPT !.dirty = TRUE]
        BY <1>0, <2>1, <2>3, <3>1, <3>3 DEF Card!After, CardCalls, a
      <4> QED
        BY <3>3, <4>1 DEF Card!Fails
    <3> QED
      BY <1>3, <3>2, <3>3
  <2>7. Placed(c)
    BY <1>3, <2>5 DEF Placed, Card!Installs
  <2>8. ASSUME ~c.dirty PROVE Scanned(c)
    <3> SUFFICES ASSUME c.op \in Card!Scans, c.ans = "ok" PROVE Scanned(c)
      BY DEF Scanned
    <3>1. cardCall[t].op = "install all" /\ cardCall[t].ans = "ok" /\ cardCall[t].op \in Card!Scans
      BY <1>3, <2>5 DEF Card!Installs, Card!Scans, a
    <3>2. /\ cardCall[t].read = Card!Files \/ Card!Cardinality(cardCall[t].read) = MaxList
          /\ mounted
          /\ \A n \in Card!Files, m \in cardCall[t].read :
               n = Card!Cut(m) /\ Len(card[n]) <= MaxSize =>
                 cardApps[Card!AppName(n)] # Card!NoApp \/ n \in Card!ToSet(cardCall[t].todo)
      BY <1>0, <1>3, <2>5, <2>8, <3>1 DEF CallSound, Scanned
    <3>3. ASSUME NEW n \in Card!Files, Len(card[n]) <= MaxSize, n \in Card!ToSet(cardCall[t].todo)
                 PROVE n \in Card!ToSet(todo)
      <4>1. n # Head(cardCall[t].todo)
        BY <1>3, <2>5, <2>8, <3>2, <3>3
      <4> QED
        BY <1>0, <1>3, <2>1, <3>3, <4>1, InTail DEF CardCalls
    <3> QED
      BY <2>5, <3>1, <3>2, <3>3 DEF Scanned
  <2>9. CallSound(c)
    BY <2>5, <2>7, <2>8 DEF CallSound, Reading, Measured
  <2> QED
    BY <1>3, <2>5, <2>6, <2>9, CardStep
<1>4. mounted => state = "MOUNTED"
  BY DEF CardInv, CardTyped, Mutex
<1>5. CASE Card!InstallNext(t) /\ cardCall[t].todo # <<>>
  <2>1. cardCall[t].at = "next" /\ cardCall[t].op \in Card!Installs /\
          UNCHANGED <<Card!mount, Card!media, cardApps>>
    BY <1>5 DEF Card!InstallNext, Card!At
  <2>2. CASE Card!Skips(t) /\ state # "MOUNTED"
    BY <1>3, <1>4, <1>5, <2>1, <2>2
  <2>3. CASE Card!Goes(t, "size")
    <3>1. PICK c : c = [cardCall[t] EXCEPT !.at = "size"]
      OBVIOUS
    <3>2. /\ c \in CardCalls /\ c.at = "size" /\ c.op = cardCall[t].op /\ c.ans = cardCall[t].ans
          /\ c.todo = cardCall[t].todo /\ c.read = cardCall[t].read /\ c.dirty = cardCall[t].dirty
      BY <1>0, <3>1 DEF CardCalls, CardPoints
    <3>3. cardCall' = [cardCall EXCEPT ![t] = c]
      BY <1>0, <2>3, <3>1 DEF Card!Goes, CardTyped, CardCalls
    <3>4. CallSound(c)
      BY <1>0, <1>5, <2>1, <3>2 DEF CallSound, Placed, Reading, Measured, Scanned
    <3> QED
      BY <2>1, <3>2, <3>3, <3>4, CardStep
  <2> QED
    BY <1>5, <2>2, <2>3 DEF Card!InstallNext
<1>6. CASE Card!InstallSize(t)
  <2> DEFINE n == Head(cardCall[t].todo)
             b == IF mounted /\ n \in CardNames THEN card[n] ELSE Card!Absent
  <2>1. /\ cardCall[t].at = "size" /\ cardCall[t].op \in Card!Installs /\ cardCall[t].todo # <<>>
        /\ UNCHANGED <<Card!mount, Card!media, cardApps>>
    BY <1>0, <1>6 DEF Card!InstallSize, Card!At, Placed
  <2>2. CASE (b = Card!Absent \/ Len(b) > MaxSize) /\ Card!Skips(t)
    <3>1. mounted => n \notin Card!Files \/ Len(card[n]) > MaxSize
      BY <2>2 DEF Card!Files
    <3>2. n \in Card!Files /\ Len(card[n]) > MaxSize => ~(Len(card[n]) <= MaxSize)
      <4> SUFFICES ASSUME n \in Card!Files, Len(card[n]) > MaxSize PROVE ~(Len(card[n]) <= MaxSize)
        OBVIOUS
      <4>1. card[n] \in Seq(Nat)
        BY <1>0 DEF CardTyped, CardOK, Card!Files
      <4>2. Len(card[n]) \in Int /\ MaxSize \in Int
        BY <4>1 DEF CardOK
      <4> QED
        BY <4>2
    <3> QED
      BY <1>3, <2>1, <2>2, <3>1, <3>2
  <2>3. CASE b # Card!Absent /\ cardCall' = [cardCall EXCEPT ![t].at = "read", ![t].size = Len(b)]
    <3>1. mounted /\ n \in CardNames /\ b = card[n] /\ b \in Seq(Nat)
      BY <1>0, <2>3 DEF CardTyped, CardOK
    <3>2. PICK k \in Nat : k = Len(card[n])
      BY <3>1
    <3>3. PICK c : c = [cardCall[t] EXCEPT !.at = "read", !.size = k]
      OBVIOUS
    <3>4. /\ c \in CardCalls /\ c.at = "read" /\ c.op = cardCall[t].op /\ c.ans = cardCall[t].ans /\
               c.size = k
          /\ c.todo = cardCall[t].todo /\ c.read = cardCall[t].read /\ c.dirty = cardCall[t].dirty
      BY <1>0, <3>2, <3>3 DEF CardCalls, CardPoints
    <3>5. cardCall' = [cardCall EXCEPT ![t] = c]
      BY <1>0, <2>3, <3>1, <3>2, <3>3 DEF CardTyped, CardCalls
    <3>6. Placed(c) /\ Measured(c)
      BY <1>0, <2>1, <2>3, <3>1, <3>2, <3>4 DEF Placed, Measured
    <3>7. ~c.dirty => Scanned(c)
      BY <1>0, <2>1, <3>1, <3>4 DEF CallSound, Scanned
    <3>8. CallSound(c)
      BY <3>4, <3>6, <3>7 DEF CallSound, Reading
    <3> QED
      BY <2>1, <3>4, <3>5, <3>8, CardStep
  <2> QED
    BY <1>6, <2>2, <2>3 DEF Card!InstallSize, Card!Contents, Card!Name
<1>7. CASE Card!InstallRead(t)
  <2> DEFINE n == Head(cardCall[t].todo)
             b == IF mounted /\ n \in CardNames THEN card[n] ELSE Card!Absent
  <2>1. /\ cardCall[t].at = "read" /\ cardCall[t].op \in Card!Installs /\ cardCall[t].todo # <<>>
        /\ UNCHANGED <<Card!mount, Card!media, cardApps>>
    BY <1>0, <1>7 DEF Card!InstallRead, Card!At, Placed
  <2>2. ~cardCall[t].dirty => /\ mounted /\ n \in CardNames /\ b = card[n] /\ b \in CardBinaries
                              /\ cardCall[t].size = Len(b)
    BY <1>0, <2>1 DEF CallSound, Measured, CardTyped
  <2>3. b \in Seq(Nat) /\ Len(b) \in Nat /\ cardCall[t].size \in Nat
    <3>1. <<>> \in Seq(Nat)
      BY EmptySeq
    <3>2. b \in Seq(Nat)
      BY <1>0, <3>1 DEF CardTyped, CardOK, Card!Absent
    <3> QED
      BY <1>0, <3>2 DEF CardCalls
  <2>4. CASE Len(b) < cardCall[t].size /\ Card!Skips(t)
    <3>1. cardCall[t].dirty
      BY <2>2, <2>3, <2>4
    <3> QED
      BY <1>3, <2>1, <2>4, <3>1
  <2>5. CASE Card!Fails(t)
    BY <1>3, <2>1, <2>5
  <2>6. CASE ~(Len(b) < cardCall[t].size) /\
               cardCall' = [cardCall EXCEPT ![t].at = "manifest",
               ![t].bin = SubSeq(b, 1, cardCall[t].size)]
    <3>1. PICK bin \in Seq(Nat) : bin = SubSeq(b, 1, cardCall[t].size)
      <4>1. PICK s \in Seq(Nat) : s = b
        BY <2>3
      <4>2. PICK k \in Nat : k = cardCall[t].size
        BY <2>3
      <4>3. \A i \in 1 .. k : s[i] \in Nat
        <5>1. Len(s) \in Nat /\ k <= Len(s)
          BY <2>3, <2>6, <4>1, <4>2
        <5>2. \A i \in 1 .. k : i \in 1 .. Len(s)
          BY <4>2, <5>1
        <5> QED
          BY <4>1, <5>2, ElementOfSeq
      <4>4. SubSeq(s, 1, k) \in Seq(Nat)
        BY <4>2, <4>3, SubSeqProperties
      <4> QED
        BY <4>1, <4>2, <4>4
    <3>2. ~cardCall[t].dirty => bin \in CardBinaries
      <4> SUFFICES ASSUME ~cardCall[t].dirty PROVE bin \in CardBinaries
        OBVIOUS
      <4>1. b \in CardBinaries /\ cardCall[t].size = Len(b)
        BY <2>2
      <4>2. SubSeq(b, 1, Len(b)) = b
        BY <2>3, WholeSeq
      <4> QED
        BY <3>1, <4>1, <4>2
    <3>3. PICK c : c = [cardCall[t] EXCEPT !.at = "manifest", !.bin = bin]
      OBVIOUS
    <3>4. /\ c \in CardCalls /\ c.at = "manifest" /\ c.op = cardCall[t].op /\
               c.ans = cardCall[t].ans /\ c.bin = bin
          /\ c.todo = cardCall[t].todo /\ c.read = cardCall[t].read /\ c.dirty = cardCall[t].dirty
      BY <1>0, <3>1, <3>3 DEF CardCalls, CardPoints
    <3>5. cardCall' = [cardCall EXCEPT ![t] = c]
      BY <1>0, <2>6, <3>1, <3>3 DEF CardTyped, CardCalls
    <3>6. Placed(c)
      BY <2>1, <3>4 DEF Placed
    <3>7. ~c.dirty => Scanned(c)
      BY <1>0, <2>1, <3>4 DEF CallSound, Scanned
    <3>8. CallSound(c)
      BY <3>2, <3>4, <3>6, <3>7 DEF CallSound, Reading, Measured
    <3> QED
      BY <2>1, <3>4, <3>5, <3>8, CardStep
  <2> QED
    BY <1>7, <2>4, <2>5, <2>6 DEF Card!InstallRead, Card!Contents, Card!Name
<1> QED
  BY <1>1, <1>2, <1>5, <1>6, <1>7

\* The App Manager gets what was read, or forgets the app.
LEMMA CardManifest ==
  ASSUME CardOK, CardInv, NEW t \in Callers, Card!InstallManifest(t) PROVE CardInv'
<1>0. /\ CardTyped /\ Mutex /\ AppsWhole /\ (\A u \in Callers : CallSound(cardCall[u]))
      /\ cardCall[t] \in CardCalls /\ CallSound(cardCall[t]) /\ Placed(cardCall[t])
  BY DEF CardInv, CardTyped, CallSound
<1>1. /\ cardCall[t].at = "manifest" /\ cardCall[t].op \in Card!Installs /\ cardCall[t].todo # <<>>
      /\ UNCHANGED <<Card!mount, card>> /\ card' = card /\
           UNCHANGED <<state, told, mounted, holder>>
  BY <1>0 DEF Card!InstallManifest, Card!At, Placed, Card!media, Card!mount
<1>2. PICK h \in ListedNames : h = Head(cardCall[t].todo)
  BY <1>0, <1>1, HeadTailProperties DEF CardCalls
<1>3. PICK todo \in Seq(ListedNames) : todo = Tail(cardCall[t].todo)
  BY <1>0, <1>1, HeadTailProperties DEF CardCalls
<1>4. PICK n \in Card!AppNames : n = Card!AppName(h)
  BY <1>2 DEF Card!AppNames, ListedNames
\* What is left of the list, with answer a.
<1>5. ASSUME NEW a \in {"ok", "error"}, NEW d \in BOOLEAN
      PROVE  \E c \in CardCalls :
               /\ d = FALSE => c = Card!After(t, a)
               /\ d = TRUE => c = [Card!After(t, a) EXCEPT !.dirty = TRUE]
               /\ c.at = "next" /\ c.op = cardCall[t].op /\ c.todo = todo /\
                    c.read = cardCall[t].read
               /\ c.op = "install all" => c.ans = cardCall[t].ans
               /\ c.dirty <=> cardCall[t].dirty \/ d
               /\ Placed(c)
  <2> DEFINE b == IF cardCall[t].op = "install" THEN a ELSE cardCall[t].ans
  <2>1. b \in {"none", "ok", "error"} /\ (cardCall[t].op = "install all" => b = cardCall[t].ans)
    BY <1>0 DEF CardCalls
  <2>2. cardCall[t].dirty \in BOOLEAN /\ Card!Absent \in Seq(Nat) /\ "next" \in CardPoints
    BY <1>0, EmptySeq DEF CardCalls, Card!Absent, CardPoints
  <2>3. Card!After(t, a) = [cardCall[t] EXCEPT !.at = "next", !.todo = todo, !.size = 0,
        !.bin = Card!Absent, !.ans = b]
    BY <1>0, <1>3 DEF Card!After, CardCalls
  <2> HIDE DEF b
  <2>4. PICK c : c = [cardCall[t] EXCEPT !.at = "next", !.todo = todo, !.size = 0,
        !.bin = Card!Absent, !.ans = b,
                        !.dirty = cardCall[t].dirty \/ d]
    OBVIOUS
  <2>5. /\ c \in CardCalls /\ c.at = "next" /\ c.op = cardCall[t].op /\ c.ans = b /\ c.todo = todo
        /\ c.read = cardCall[t].read /\ (c.dirty <=> cardCall[t].dirty \/ d)
    BY <1>0, <2>1, <2>2, <2>4 DEF CardCalls
  <2>6. /\ d = FALSE => c = Card!After(t, a)
        /\ d = TRUE => c = [Card!After(t, a) EXCEPT !.dirty = TRUE]
    <3>1. PICK k \in CardCalls : k = cardCall[t]
      BY <1>0
    <3>2. PICK e : e = Card!After(t, a)
      OBVIOUS
    <3>3. e = [k EXCEPT !.at = "next", !.todo = todo, !.size = 0, !.bin = Card!Absent, !.ans = b]
      BY <2>3, <3>1, <3>2
    <3>4. c = [k EXCEPT !.at = "next", !.todo = todo, !.size = 0, !.bin = Card!Absent, !.ans = b,
          !.dirty = k.dirty \/ d]
      BY <2>4, <3>1
    <3>5. ASSUME d = FALSE PROVE c = e
      <4>1. (k.dirty \/ d) = k.dirty
        BY <2>2, <3>1, <3>5
      <4> QED
        BY <3>3, <3>4, <4>1 DEF CardCalls
    <3>6. ASSUME d = TRUE PROVE c = [e EXCEPT !.dirty = TRUE]
      <4>1. (k.dirty \/ d) = TRUE
        BY <3>6
      <4> QED
        BY <3>3, <3>4, <4>1 DEF CardCalls
    <3> QED
      BY <3>2, <3>5, <3>6
  <2>7. Placed(c)
    BY <1>1, <2>5 DEF Placed, Card!Installs
  <2> QED
    BY <2>1, <2>5, <2>6, <2>7
<1>6. ASSUME NEW ms \in {{}, Card!Manifests(Card!Name(t))},
             cardCall' = [cardCall EXCEPT ![t] = Card!After(t, "ok")],
             cardApps' = [cardApps EXCEPT ![n] = [bin |-> cardCall[t].bin, manifests |-> ms,
             dirty |-> cardCall[t].dirty]]
      PROVE  CardInv'
  <2>1. PICK c \in CardCalls :
          /\ c = Card!After(t, "ok") /\ c.at = "next" /\ c.op = cardCall[t].op /\ c.todo = todo /\
               c.read = cardCall[t].read
          /\ c.op = "install all" => c.ans = cardCall[t].ans
          /\ c.dirty <=> cardCall[t].dirty
          /\ Placed(c)
    BY <1>5
  <2>2. PICK app : app = [bin |-> cardCall[t].bin, manifests |-> ms, dirty |-> cardCall[t].dirty]
    OBVIOUS
  <2>3. app \in CardApps /\ app.bin = cardCall[t].bin /\ app.dirty = cardCall[t].dirty
    <3>1. ms \in SUBSET Jsons
      BY DEF Card!Manifests
    <3> QED
      BY <1>0, <2>2, <3>1 DEF CardCalls, CardApps
  <2>4. app.bin \in CardBinaries \/ app.dirty
    BY <1>0, <1>1, <2>3 DEF CallSound
  <2>5. app # Card!NoApp
    <3>1. Card!NoApp.bin = <<>> /\ Card!NoApp.dirty = FALSE
      BY DEF Card!NoApp, Card!Absent
    <3> QED
      BY <2>4, <3>1 DEF CardOK
  <2>6. /\ cardApps' \in [Card!AppNames -> CardApps] /\ cardApps'[n] = app
        /\ \A m \in Card!AppNames \ {n} : cardApps'[m] = cardApps[m]
    BY <1>0, <1>6, <2>2, <2>3 DEF CardTyped
  <2>7. AppsWhole'
    <3>1. \A m \in Card!AppNames : cardApps'[m] # Card!NoApp => cardApps'[m].bin \in CardBinaries \/
            cardApps'[m].dirty
      BY <1>0, <2>4, <2>6 DEF AppsWhole
    <3> QED
      BY <3>1 DEF AppsWhole, Card!NoApp
  <2>8. \A m \in Card!AppNames : cardApps[m] # Card!NoApp => cardApps'[m] # Card!NoApp
    BY <2>5, <2>6
  <2>9. CallSound(c)'
    <3>1. ASSUME ~c.dirty PROVE Scanned(c)'
      <4> SUFFICES ASSUME c.op = "install all", c.ans = "ok"
                   PROVE  /\ c.read = Card!Files \/ Card!Cardinality(c.read) = MaxList
                          /\ mounted
                          /\ \A k \in Card!Files, m \in c.read :
                               k = Card!Cut(m) /\ Len(card[k]) <= MaxSize =>
                                 cardApps'[Card!AppName(k)] # Card!NoApp \/ k \in Card!ToSet(c.todo)
        BY <1>1, <2>1 DEF Scanned, Card!Files, Card!AppName, Card!Cut, Card!NoApp, Card!Installs,
           Card!Scans
      <4>1. /\ c.read = Card!Files \/ Card!Cardinality(c.read) = MaxList
            /\ mounted
            /\ \A k \in Card!Files, m \in c.read :
                 k = Card!Cut(m) /\ Len(card[k]) <= MaxSize =>
                   cardApps[Card!AppName(k)] # Card!NoApp \/ k \in Card!ToSet(cardCall[t].todo)
        BY <1>0, <1>1, <2>1, <3>1 DEF CallSound, Scanned, Card!Scans
      <4>2. ASSUME NEW k \in Card!Files, k \in Card!ToSet(cardCall[t].todo)
                   PROVE cardApps'[Card!AppName(k)] # Card!NoApp \/ k \in Card!ToSet(c.todo)
        <5>1. CASE k = h
          BY <1>4, <2>5, <2>6, <5>1
        <5>2. CASE k # h
          BY <1>0, <1>1, <1>2, <1>3, <2>1, <4>2, <5>2, InTail DEF CardCalls
        <5> QED
          BY <5>1, <5>2
      <4>3. \A k \in Card!Files : Card!AppName(k) \in Card!AppNames
        BY DEF Card!Files, Card!AppNames
      <4> QED
        BY <2>8, <4>1, <4>2, <4>3
    <3>2. Placed(c)' /\ (c.at = "next")
      BY <2>1 DEF Placed
    <3> QED
      BY <3>1, <3>2 DEF CallSound, Reading, Measured
  <2>10. {cardCall[t].at, c.at} \cap {"mount", "unmount", "unmounted"} = {}
    BY <1>1, <2>1
  <2> QED
    BY <1>1, <1>6, <2>1, <2>6, <2>7, <2>8, <2>9, <2>10, CardCall
<1>7. CASE Card!Fails(t) /\ UNCHANGED cardApps
  <2>1. PICK c \in CardCalls :
          /\ c = [Card!After(t, "error") EXCEPT !.dirty = TRUE] /\ c.at = "next" /\ c.dirty
          /\ Placed(c)
    BY <1>5
  <2>2. CallSound(c)
    BY <2>1 DEF CallSound
  <2>3. cardCall' = [cardCall EXCEPT ![t] = c] /\ UNCHANGED <<Card!mount, Card!media, cardApps>>
    BY <1>1, <1>7, <2>1 DEF Card!Fails, Card!InstallManifest
  <2>4. {cardCall[t].at, c.at} \cap {"mount", "unmount", "unmounted"} = {}
    BY <1>1, <2>1
  <2> QED
    BY <2>1, <2>2, <2>3, <2>4, CardStep
<1>8. CASE /\ cardApps' = [cardApps EXCEPT ![n] = Card!NoApp]
           /\ cardCall' = [Card!Dirty EXCEPT ![t] = [Card!After(t, "error") EXCEPT !.dirty = TRUE]]
  <2>1. PICK c \in CardCalls :
          /\ c = [Card!After(t, "error") EXCEPT !.dirty = TRUE] /\ c.at = "next" /\ c.dirty
          /\ Placed(c)
    BY <1>5
  <2>2. cardCall' = [Card!Dirty EXCEPT ![t] = c]
    BY <1>8, <2>1
  <2>3. /\ Card!Dirty \in [Callers -> CardCalls]
        /\ \A u \in Callers : Card!Dirty[u] = [cardCall[u] EXCEPT !.dirty = TRUE] /\
             Card!Dirty[u].at = cardCall[u].at
    BY <1>0, Dirties
  <2>4. /\ cardCall' \in [Callers -> CardCalls] /\ cardCall'[t] = c
        /\ \A u \in Callers \ {t} : cardCall'[u] = [cardCall[u] EXCEPT !.dirty = TRUE] /\
             cardCall'[u].at = cardCall[u].at
    BY <2>1, <2>2, <2>3
  <2>5. \A u \in Callers : CallSound(cardCall[u])'
    <3>1. PICK T \in SUBSET Callers : T = Callers \ {t}
      OBVIOUS
    <3>2. \A u \in T : cardCall'[u] = [cardCall[u] EXCEPT !.dirty = TRUE]
      BY <2>4, <3>1
    <3>3. \A u \in Callers \ T : cardCall'[u].dirty /\ Placed(cardCall'[u])
      <4>1. c.dirty /\ Placed(c)
        BY <2>1
      <4> QED
        BY <2>4, <3>1, <4>1
    <3> QED
      BY <1>0, <2>4, <3>2, <3>3, AllDirty
  <2>6. Mutex'
    <3>1. \A u \in Callers :
            cardCall'[u].at = cardCall[u].at \/
              {cardCall[u].at, cardCall'[u].at} \cap {"mount", "unmount", "unmounted"} = {}
      BY <1>1, <2>1, <2>4
    <3> QED
      BY <1>0, <1>1, <3>1, MutexKept
  <2>7. Card!NoApp \in CardApps
    BY EmptySeq DEF Card!NoApp, CardApps, Card!Absent
  <2>8. cardApps' \in [Card!AppNames -> CardApps] /\
          \A m \in Card!AppNames : cardApps'[m] = Card!NoApp \/ cardApps'[m] = cardApps[m]
    BY <1>0, <1>8, <2>7 DEF CardTyped
  <2>9. AppsWhole'
    BY <1>0, <2>8 DEF AppsWhole, Card!NoApp
  <2>10. CardTyped'
    BY <1>0, <1>1, <2>4, <2>8 DEF CardTyped
  <2> QED
    BY <2>5, <2>6, <2>9, <2>10 DEF CardInv
<1> QED
  BY <1>2, <1>4, <1>6, <1>7, <1>8 DEF Card!InstallManifest, Card!Name

\* The card is unmounted, or what is on it changes.
LEMMA CardLeaves ==
  ASSUME CardOK, CardInv,
         (\E t \in Callers : Card!UnmountFs(t)) \/ \E n \in CardNames,
         b \in CardBinaries \cup {Card!Absent} : Card!CardChanges(n, b)
  PROVE  CardInv'
<1>0. /\ CardTyped /\ Mutex /\ AppsWhole /\ (\A u \in Callers : CallSound(cardCall[u]))
  BY DEF CardInv
<1>1. /\ Card!Dirty \in [Callers -> CardCalls]
      /\ \A u \in Callers : Card!Dirty[u] = [cardCall[u] EXCEPT !.dirty = TRUE] /\
           Card!Dirty[u].at = cardCall[u].at
  BY <1>0, Dirties
<1>2. ASSUME NEW n \in CardNames, NEW b \in CardBinaries \cup {Card!Absent},
             Card!CardChanges(n, b) PROVE CardInv'
  <2>1. cardCall' = Card!Dirty /\ UNCHANGED <<state, told, mounted, holder, cardApps>> /\
          card' = [card EXCEPT ![n] = b]
    BY <1>2 DEF Card!CardChanges, Card!mount
  <2>2. \A u \in Callers : CallSound(cardCall[u])'
    BY <1>0, <1>1, <2>1, AllDirty
  <2>3. Mutex'
    BY <1>0, <1>1, <2>1, MutexKept
  <2> QED
    BY <1>0, <1>1, <2>1, <2>2, <2>3 DEF CardInv, CardTyped, AppsWhole, Card!NoApp
<1>3. ASSUME NEW t \in Callers, Card!UnmountFs(t) PROVE CardInv'
  <2>1. /\ cardCall[t].at = "unmount" /\ cardCall[t].op = "unmount" /\
             UNCHANGED <<state, told, card, cardApps>>
        /\ holder = t /\ mounted /\ state = "MOUNTED" /\ cardCall[t] \in CardCalls
    BY <1>0, <1>3 DEF Card!UnmountFs, Card!At, Card!media, Mutex, CardTyped
  <2>2. CASE mounted' = FALSE /\ cardCall' = [Card!Dirty EXCEPT ![t].at = "unmounted"] /\
               UNCHANGED holder
    <3>1. PICK c : c = [Card!Dirty[t] EXCEPT !.at = "unmounted"]
      OBVIOUS
    <3>2. /\ c \in CardCalls /\ c.at = "unmounted" /\ c.dirty /\ c.op = "unmount"
      <4>1. Card!Dirty[t] \in CardCalls /\ Card!Dirty[t].dirty /\ Card!Dirty[t].op = "unmount"
        BY <1>1, <2>1 DEF CardCalls
      <4> QED
        BY <3>1, <4>1 DEF CardCalls, CardPoints
    <3>3. /\ cardCall' \in [Callers -> CardCalls] /\ cardCall'[t] = c
          /\ \A u \in Callers \ {t} : cardCall'[u] = [cardCall[u] EXCEPT !.dirty = TRUE] /\
               cardCall'[u].at = cardCall[u].at
      BY <1>1, <2>2, <3>1, <3>2
    <3>4. Placed(c)
      BY <3>2 DEF Placed
    <3>5. \A u \in Callers : CallSound(cardCall[u])'
      <4>1. (Callers \ {t}) \in SUBSET Callers /\ \A u \in Callers \ (Callers \ {t}) : u = t
        OBVIOUS
      <4> QED
        BY <1>0, <3>2, <3>3, <3>4, <4>1, AllDirty
    <3>6. \A u \in Callers \ {t} : cardCall[u].at \notin {"mount", "unmount", "unmounted"}
      BY <1>0, <2>1 DEF Mutex
    <3>7. Mutex'
      <4>1. holder' = t /\ holder' # NoCaller /\ told' = state' /\ state' = "MOUNTED" /\ ~mounted'
        BY <1>0, <2>1, <2>2 DEF Mutex, CardOK
      <4>2. \A u \in Callers \ {t} : cardCall'[u].at \notin {"mount", "unmount", "unmounted"}
        BY <3>3, <3>6
      <4> QED
        BY <3>2, <3>3, <4>1, <4>2 DEF Mutex
    <3>8. CardTyped' /\ AppsWhole'
      BY <1>0, <2>1, <2>2, <3>3 DEF CardTyped, AppsWhole, Card!NoApp
    <3> QED
      BY <3>5, <3>7, <3>8 DEF CardInv
  <2>3. CASE Card!Ends(t, "error") /\ holder' = NoCaller /\ UNCHANGED mounted
    <3>1. PICK c : c = [cardCall[t] EXCEPT !.at = "idle", !.ans = "error"]
      OBVIOUS
    <3>2. c \in CardCalls /\ c.op = "unmount" /\ c.at = "idle"
      BY <2>1, <3>1 DEF CardCalls, CardPoints
    <3>3. cardCall' = [cardCall EXCEPT ![t] = c]
      BY <1>0, <2>3, <3>1 DEF Card!Ends, CardTyped, CardCalls
    <3>4. CallSound(c)'
      BY <3>2 DEF CallSound, Placed, Reading, Measured, Scanned, Card!Scans
    <3>5. cardCall' \in [Callers -> CardCalls] /\ \A u \in Callers : CallSound(cardCall[u])'
      BY <1>0, <2>1, <2>3, <3>2, <3>3, <3>4, OneCall
    <3>6. cardCall'[t].at = "idle" /\ \A u \in Callers \ {t} : cardCall'[u] = cardCall[u]
      BY <1>0, <3>2, <3>3 DEF CardTyped
    <3>7. \A u \in Callers \ {t} : cardCall[u].at \notin {"mount", "unmount", "unmounted"}
      BY <1>0, <2>1 DEF Mutex
    <3>8. \A u \in Callers : cardCall'[u].at \notin {"mount", "unmount", "unmounted"} /\
            u # NoCaller
      BY <3>6, <3>7 DEF CardOK
    <3>9. told' = state' /\ state' = "MOUNTED" /\ mounted'
      BY <1>0, <2>1, <2>3 DEF Mutex
    <3>10. Mutex'
      BY <2>3, <3>8, <3>9 DEF Mutex
    <3>11. CardTyped' /\ AppsWhole'
      BY <1>0, <2>1, <2>3, <3>5 DEF CardTyped, AppsWhole, Card!NoApp
    <3> QED
      BY <3>5, <3>10, <3>11 DEF CardInv
  <2> QED
    BY <1>3, <2>2, <2>3 DEF Card!UnmountFs
<1> QED
  BY <1>2, <1>3

\* The state is that of the card, and the apps on it are listed and installed whole.
THEOREM CardAppsAreWhole == ASSUME CardOK PROVE Card!Spec => []Card!StorageSound
<1>1. Card!Init => CardInv
  <2> SUFFICES ASSUME Card!Init PROVE CardInv
    OBVIOUS
  <2>1. Card!NoApp \in CardApps
    BY EmptySeq DEF Card!NoApp, CardApps, Card!Absent
  <2>2. /\ CardTyped /\ AppsWhole /\ \A t \in Callers : cardCall[t] = Card!Idle /\ holder # t
    BY <2>1, CardIdle DEF Card!Init, CardTyped, AppsWhole, CardOK
  <2>3. Mutex
    BY <2>2, CardIdle DEF Card!Init, Mutex
  <2> QED
    BY <2>2, <2>3, CardIdle DEF CardInv
<1>2. CardInv /\ [Card!Next]_(Card!vars) => CardInv'
  <2> SUFFICES ASSUME CardInv, [Card!Next]_(Card!vars) PROVE CardInv'
    OBVIOUS
  <2>1. CASE UNCHANGED Card!vars
    BY <2>1 DEF Card!vars, Card!mount, Card!media, CardInv, CardTyped, Mutex, AppsWhole,
       Card!NoApp, CallSound, Placed, Reading, Measured,
                Scanned, Card!Files
  <2> QED
    BY <2>1, CardMounts, CardScans, CardInstalls, CardManifest, CardLeaves DEF Card!Next
<1>3. CardInv => Card!StorageSound
  <2> SUFFICES ASSUME CardInv PROVE Card!StorageSound
    OBVIOUS
  <2>1. holder = NoCaller => (mounted <=> state = "MOUNTED") /\ told = state
    BY DEF CardInv, Mutex
  <2>2. \A n \in Card!AppNames : cardApps[n] # Card!NoApp =>
          (cardApps[n].bin \in CardBinaries \/ cardApps[n].dirty)
    BY DEF CardInv, AppsWhole
  <2>3. ASSUME NEW t \in Callers, cardCall[t].at = "idle", cardCall[t].ans = "ok",
               ~cardCall[t].dirty
        PROVE  /\ cardCall[t].op \in Card!Scans =>
                    (cardCall[t].read = Card!Files \/ Card!Cardinality(cardCall[t].read) = MaxList)
               /\ cardCall[t].op = "install all" =>
                    \A n \in Card!Files \cap {Card!Cut(m) : m \in cardCall[t].read} :
                      Len(card[n]) <= MaxSize => cardApps[Card!AppName(n)] # Card!NoApp
    <3>1. Placed(cardCall[t]) /\ Scanned(cardCall[t])
      BY <2>3 DEF CardInv, CallSound
    <3>2. "install all" \in Card!Scans
      BY DEF Card!Scans
    <3>3. cardCall[t].op = "install all" => cardCall[t].todo = <<>>
      BY <2>3, <3>1 DEF Placed
    <3>4. Card!ToSet(<<>>) = {}
      BY DEF Card!ToSet
    <3> QED
      BY <2>3, <3>1, <3>2, <3>3, <3>4 DEF Scanned
  <2> QED
    BY <2>1, <2>2, <2>3 DEF Card!StorageSound
<1> QED
  BY <1>1, <1>2, <1>3, PTL DEF Card!Spec

-----------------------------------------------------------------------------
(* Handles and drivers of the hardware, and what is proved of it.           *)

Hw == INSTANCE Hal WITH
  Names <- DriverNames, NoName <- Unnamed, heap <- hwHeap, call <- hwCall, faults <- hwFaults

\* The finite sets of Hal are those of the library.
LEMMA HwSets == \A S : /\ Hw!Cardinality(S) = Cardinality(S)
                       /\ Hw!IsFiniteSet(S) <=> IsFiniteSet(S)
BY DEF Hw!Cardinality, Cardinality, Hw!IsFiniteSet, IsFiniteSet

\* RemoveFirst takes an occurrence out of a sequence that has one.
LEMMA RemovesOne ==
  ASSUME NEW S, NEW s \in Seq(S), NEW e, Hw!Contains(s, e)
  PROVE  \E i \in 1 .. Len(s) : s[i] = e /\ Hw!RemoveFirst(s, e) = Hw!RemoveAt(s, i)
<1> DEFINE I == {i \in 1 .. Len(s) : s[i] = e}
<1>1. I \subseteq Nat /\ I # {}
  BY DEF Hw!Contains
<1>2. \E x \in I : \A y \in I : x <= y
  BY <1>1, Least
<1>4. Hw!Min(I) \in I
  BY <1>2 DEF Hw!Min
<1>5. Hw!RemoveFirst(s, e) = Hw!RemoveAt(s, Hw!Min(I))
  BY <1>1 DEF Hw!RemoveFirst, Hw!SelectInSeq, Hw!Contains
<1> QED
  BY <1>4, <1>5

\* What is left of a sequence when the entry at i is taken out.
LEMMA RemovedAt ==
  ASSUME NEW S, NEW s \in Seq(S), NEW i \in 1 .. Len(s)
  PROVE  /\ Hw!RemoveAt(s, i) \in Seq(S) /\ Len(Hw!RemoveAt(s, i)) = Len(s) - 1
         /\ \A k \in 1 .. Len(s) - 1 :
              Hw!RemoveAt(s, i)[k] = IF k < i THEN s[k] ELSE s[k + 1]
<1> DEFINE a == SubSeq(s, 1, i - 1)
           b == SubSeq(s, i + 1, Len(s))
<1>1. Len(s) \in Nat /\ \A k \in 1 .. Len(s) : s[k] \in S
  OBVIOUS
<1>2. /\ a \in Seq(S) /\ Len(a) = i - 1
      /\ \A k \in 1 .. i - 1 : a[k] = s[k]
  <2>1. \A k \in 1 .. i - 1 : s[k] \in S
    BY <1>1
  <2> QED
    BY <1>1, <2>1, SubSeqProperties
<1>3. /\ b \in Seq(S) /\ Len(b) = Len(s) - i
      /\ \A k \in 1 .. Len(s) - i : b[k] = s[i + k]
  <2>1. \A k \in i + 1 .. Len(s) : s[k] \in S
    BY <1>1
  <2>2. /\ b \in Seq(S) /\ Len(b) = IF i + 1 <= Len(s) THEN Len(s) - (i + 1) + 1 ELSE 0
        /\ \A k \in 1 .. Len(s) - (i + 1) + 1 : b[k] = s[i + 1 + k - 1]
    BY <1>1, <2>1, SubSeqProperties
  <2> HIDE DEF b
  <2> QED
    BY <1>1, <2>2
<1> HIDE DEF a, b
<1>4. /\ a \o b \in Seq(S) /\ Len(a \o b) = Len(s) - 1
      /\ \A k \in 1 .. Len(s) - 1 :
           (a \o b)[k] = IF k <= i - 1 THEN a[k] ELSE b[k - (i - 1)]
  <2>1. /\ a \o b \in Seq(S) /\ Len(a \o b) = Len(a) + Len(b)
        /\ \A k \in 1 .. Len(a) + Len(b) :
             (a \o b)[k] = IF k <= Len(a) THEN a[k] ELSE b[k - Len(a)]
    BY <1>2, <1>3, ConcatProperties
  <2>2. Len(a) + Len(b) = Len(s) - 1
    BY <1>1, <1>2, <1>3
  <2> QED
    BY <1>2, <2>1, <2>2
<1>5. \A k \in 1 .. Len(s) - 1 : (a \o b)[k] = IF k < i THEN s[k] ELSE s[k + 1]
  <2> SUFFICES ASSUME NEW k \in 1 .. Len(s) - 1
               PROVE  (a \o b)[k] = IF k < i THEN s[k] ELSE s[k + 1]
    OBVIOUS
  <2>1. CASE k < i
    BY <1>2, <1>4, <2>1
  <2>2. CASE ~(k < i)
    <3>1. k - (i - 1) \in 1 .. Len(s) - i /\ i + (k - (i - 1)) = k + 1
      BY <1>1, <2>2
    <3>2. (a \o b)[k] = b[k - (i - 1)]
      BY <1>4, <2>2
    <3> QED
      BY <1>3, <2>2, <3>1, <3>2
  <2> QED
    BY <2>1, <2>2
<1>6. Hw!RemoveAt(s, i) = a \o b
  BY DEF Hw!RemoveAt, a, b
<1> QED
  BY <1>4, <1>5, <1>6

HwBlock == [kind : {"free", "gpio", "spi", "i2c", "buffer"}, pin : Pins \cup {0}, cb : Nat,
            data : Nat, speed : Speeds \cup {0}]
OnPins == {"configure", "data", "add", "enable", "disable"}
HalCall == [at : OnPins \cup {"idle", "write"}, h : Blocks \cup {NoBlock}]
HalTyped ==
  /\ hwHeap \in [Blocks -> HwBlock] /\ list \in Seq(Blocks) /\ sets \in Nat
  /\ hwCall \in HalCall /\ dangling \in BOOLEAN /\ again \subseteq Blocks

\* What the call under way works on.
CallHas ==
  /\ Hw!At("idle") \/ hwCall.h \in Blocks
  /\ hwCall.at \in OnPins => hwHeap[hwCall.h].kind = "gpio"
  /\ Hw!At("write") => hwHeap[hwCall.h].kind = "buffer"
  /\ Hw!At("data") => hwHeap[hwCall.h].cb \in {0, sets}
  /\ \A b \in Blocks : hwHeap[b].kind = "buffer" => Hw!At("write") /\ hwCall.h = b

\* A handle's callback and data were set together, but for the one between.
Together(h) == hwHeap[h].cb = 0 \/ hwHeap[h].cb = hwHeap[h].data
Setting(h) == Hw!At("data") /\ hwCall.h = h
ListHas ==
  /\ Hw!IsInjective(list) /\ \A h \in Hw!ToSet(list) : hwHeap[h].kind = "gpio"
  /\ Hw!At("configure") => hwCall.h \notin Hw!ToSet(list)
  /\ \A h \in Blocks : hwHeap[h].kind = "gpio" =>
       \/ Together(h)
       \/ Setting(h) /\ (h \in Hw!ToSet(list) /\ hwHeap[h].pin \in enabled => h \in again)
  /\ \A c \in called : c.h \in Hw!ToSet(list) /\ (c.h \notin again => c.cb = c.data)
HandlesInv == HalTyped /\ CallHas /\ (~dangling => ListHas)

\* A block is taken.
LEMMA AllocatedKeeps ==
  ASSUME HandlesInv, NEW h \in Blocks, NEW r \in HwBlock, hwHeap[h].kind = "free",
         hwHeap' = [hwHeap EXCEPT ![h] = r], r.cb = 0, Hw!At("idle"), hwCall' \in HalCall,
         UNCHANGED <<list, enabled, called, sets, dangling, again>>,
         \/ r.kind = "gpio" /\ hwCall'.at = "configure" /\ hwCall'.h = h
         \/ r.kind \in {"spi", "i2c"} /\ hwCall'.at = "idle"
         \/ r.kind = "buffer" /\ hwCall'.at = "write" /\ hwCall'.h = h
  PROVE  HandlesInv'
<1>1. /\ hwHeap' \in [Blocks -> HwBlock] /\ hwHeap'[h] = r
      /\ \A b \in Blocks \ {h} : hwHeap'[b] = hwHeap[b]
  BY DEF HandlesInv, HalTyped
<1>2. HalTyped'
  BY <1>1 DEF HandlesInv, HalTyped
<1>3. \A b \in Blocks : hwHeap[b].kind # "buffer"
  BY DEF HandlesInv, CallHas, Hw!At
<1>4. CallHas'
  BY <1>1, <1>3 DEF HandlesInv, CallHas, Hw!At, OnPins
<1>5. ~dangling => ListHas'
  <2> SUFFICES ASSUME ~dangling PROVE ListHas'
    OBVIOUS
  <2>1. ListHas /\ h \notin Hw!ToSet(list)
    BY DEF HandlesInv, ListHas
  <2>2. \A b \in Hw!ToSet(list) : hwHeap'[b].kind = "gpio"
    <3>1. Hw!ToSet(list) \subseteq Blocks
      BY DEF HandlesInv, HalTyped, Hw!ToSet
    <3> QED
      BY <1>1, <2>1, <3>1 DEF ListHas
  <2>3. \A b \in Blocks : hwHeap'[b].kind = "gpio" => Together(b)'
    BY <1>1, <2>1 DEF ListHas, Together, Setting, Hw!At
  <2>4. Hw!At("configure")' => hwCall'.h \notin Hw!ToSet(list')
    BY <2>1 DEF Hw!At
  <2> QED
    BY <2>1, <2>2, <2>3, <2>4 DEF ListHas
<1> QED
  BY <1>2, <1>4, <1>5 DEF HandlesInv

\* Opening a handle, and a buffer.
LEMMA HandlesOpen ==
  ASSUME HandlesInv, NEW h \in Blocks,
         \/ \E p \in Pins : Hw!GpioOpen(h, p)
         \/ Hw!SpiOpen(h)
         \/ \E s \in Speeds : Hw!I2cOpen(h, s)
         \/ \E o \in Blocks : Hw!I2cWriteReg(o, h)
  PROVE  HandlesInv'
<1>0. /\ hwCall \in HalCall /\ hwHeap \in [Blocks -> HwBlock]
      /\ [at |-> "configure", h |-> h] \in HalCall /\ [at |-> "write", h |-> h] \in HalCall
      /\ Hw!Free.kind = "free" /\ Hw!Free.cb = 0
  BY DEF HandlesInv, HalTyped, HalCall, OnPins, Hw!Free
<1>1. ASSUME NEW p \in Pins, Hw!GpioOpen(h, p) PROVE HandlesInv'
  <2> DEFINE r == [Hw!Free EXCEPT !.kind = "gpio", !.pin = p]
  <2>1. r \in HwBlock /\ r.kind = "gpio" /\ r.cb = 0
    BY DEF Hw!Free, HwBlock
  <2>2. /\ hwHeap[h].kind = "free" /\ hwHeap' = [hwHeap EXCEPT ![h] = r] /\ Hw!At("idle")
        /\ hwCall' = [at |-> "configure", h |-> h]
        /\ UNCHANGED <<list, enabled, called, sets, dangling, again>>
    BY <1>0, <1>1 DEF Hw!GpioOpen, Hw!Allocated, Hw!gpios
  <2> HIDE DEF r
  <2> QED
    BY <1>0, <2>1, <2>2, AllocatedKeeps
<1>2. CASE Hw!SpiOpen(h)
  <2> DEFINE r == [Hw!Free EXCEPT !.kind = "spi"]
  <2>1. r \in HwBlock /\ r.kind = "spi" /\ r.cb = 0
    BY DEF Hw!Free, HwBlock
  <2>2. /\ hwHeap[h].kind = "free" /\ hwHeap' = [hwHeap EXCEPT ![h] = r] /\ Hw!At("idle") /\
             hwCall' = hwCall
        /\ UNCHANGED <<list, enabled, called, sets, dangling, again>>
    BY <1>0, <1>2 DEF Hw!SpiOpen, Hw!Allocated, Hw!gpios
  <2> HIDE DEF r
  <2> QED
    BY <1>0, <2>1, <2>2, AllocatedKeeps DEF Hw!At
<1>3. ASSUME NEW s \in Speeds, Hw!I2cOpen(h, s) PROVE HandlesInv'
  <2> DEFINE r == [Hw!Free EXCEPT !.kind = "i2c", !.speed = s]
  <2>1. r \in HwBlock /\ r.kind = "i2c" /\ r.cb = 0
    BY DEF Hw!Free, HwBlock
  <2>2. /\ hwHeap[h].kind = "free" /\ hwHeap' = [hwHeap EXCEPT ![h] = r] /\ Hw!At("idle") /\
             hwCall' = hwCall
        /\ UNCHANGED <<list, enabled, called, sets, dangling, again>>
    BY <1>0, <1>3 DEF Hw!I2cOpen, Hw!Allocated, Hw!gpios
  <2> HIDE DEF r
  <2> QED
    BY <1>0, <2>1, <2>2, AllocatedKeeps DEF Hw!At
<1>4. ASSUME NEW o \in Blocks, Hw!I2cWriteReg(o, h) PROVE HandlesInv'
  <2> DEFINE r == [Hw!Free EXCEPT !.kind = "buffer"]
  <2>1. r \in HwBlock /\ r.kind = "buffer" /\ r.cb = 0
    BY DEF Hw!Free, HwBlock
  <2>2. /\ hwHeap[h].kind = "free" /\ hwHeap' = [hwHeap EXCEPT ![h] = r] /\ Hw!At("idle")
        /\ hwCall' = [at |-> "write", h |-> h]
        /\ UNCHANGED <<list, enabled, called, sets, dangling, again>>
    BY <1>0, <1>4 DEF Hw!I2cWriteReg, Hw!Allocated, Hw!gpios
  <2> HIDE DEF r
  <2> QED
    BY <1>0, <2>1, <2>2, AllocatedKeeps
<1> QED
  BY <1>1, <1>2, <1>3, <1>4

\* A block that no list holds is given back, or one that dangles from now on.
LEMMA FreedKeeps ==
  ASSUME HandlesInv, NEW h \in Blocks, Hw!Freed(h), UNCHANGED <<list, called, sets>>,
         enabled' \subseteq enabled, dangling' \in BOOLEAN, dangling => dangling',
         ~dangling' => h \notin Hw!ToSet(list), again' \subseteq again,
         again \subseteq again' \cup {h},
         hwCall' \in HalCall, hwCall'.at = "idle",
         Hw!At("idle") \/ hwCall.h = h
  PROVE  HandlesInv'
<1>0. Hw!Free \in HwBlock /\ Hw!Free.kind = "free"
  BY DEF Hw!Free, HwBlock
<1>1. /\ hwHeap' \in [Blocks -> HwBlock] /\ hwHeap'[h].kind = "free"
      /\ \A b \in Blocks \ {h} : hwHeap'[b] = hwHeap[b]
  BY <1>0 DEF HandlesInv, HalTyped, Hw!Freed
<1>2. HalTyped'
  BY <1>1 DEF HandlesInv, HalTyped
<1>3. CallHas'
  BY <1>1 DEF HandlesInv, CallHas, Hw!At, OnPins
<1>5. ~dangling' => ListHas'
  <2> SUFFICES ASSUME ~dangling' PROVE ListHas'
    OBVIOUS
  <2>1. ListHas /\ h \notin Hw!ToSet(list) /\ Hw!ToSet(list) \subseteq Blocks
    BY DEF HandlesInv, HalTyped, Hw!ToSet
  <2>2. \A b \in Hw!ToSet(list) : hwHeap'[b].kind = "gpio"
    BY <1>1, <2>1 DEF ListHas
  <2>3. \A b \in Blocks : hwHeap'[b].kind = "gpio" => Together(b)'
    BY <1>1, <2>1 DEF ListHas, Together, Setting, Hw!At
  <2>4. \A c \in called : c.h \in Hw!ToSet(list) /\ (c.h \notin again' => c.cb = c.data)
    BY <2>1 DEF ListHas
  <2>5. ~Hw!At("configure")'
    BY DEF Hw!At
  <2> QED
    BY <2>1, <2>2, <2>3, <2>4, <2>5 DEF ListHas
<1> QED
  BY <1>2, <1>3, <1>5 DEF HandlesInv

\* Closing one, and the end of a configuration and of a buffer.
LEMMA HandlesClose ==
  ASSUME HandlesInv,
         \/ \E h \in Blocks : Hw!GpioClose(h) \/ Hw!SpiClose(h) \/ Hw!I2cClose(h)
         \/ Hw!GpioConfigure \/ Hw!I2cWritten
  PROVE  HandlesInv'
<1>0. /\ hwCall \in HalCall /\ Hw!Idle \in HalCall /\ Hw!Idle.at = "idle" /\ dangling \in BOOLEAN
      /\ Hw!ToSet(list) \subseteq Blocks /\ list \in Seq(Blocks)
  BY DEF HandlesInv, HalTyped, HalCall, Hw!Idle, Hw!ToSet
<1>1. ASSUME NEW h \in Blocks, Hw!GpioClose(h) PROVE HandlesInv'
  <2>1. /\ Hw!Freed(h) /\ UNCHANGED <<list, called, sets, hwCall>> /\ Hw!At("idle")
        /\ enabled' \subseteq enabled /\ again' = again \ {h}
        /\ dangling' = (dangling \/ Hw!Contains(list, h))
    BY <1>1 DEF Hw!GpioClose
  <2>2. Hw!Contains(list, h) <=> h \in Hw!ToSet(list)
    BY <1>0 DEF Hw!Contains, Hw!ToSet
  <2>3. dangling' \in BOOLEAN /\ (dangling => dangling') /\ (~dangling' => h \notin Hw!ToSet(list))
    BY <2>1, <2>2
  <2>4. again' \subseteq again /\ again \subseteq again' \cup {h} /\ hwCall' \in HalCall /\
          hwCall'.at = "idle"
    BY <1>0, <2>1 DEF Hw!At
  <2> QED
    BY <2>1, <2>3, <2>4, FreedKeeps
<1>2. ASSUME NEW h \in Blocks, Hw!SpiClose(h) \/ Hw!I2cClose(h) PROVE HandlesInv'
  <2>1. /\ Hw!Freed(h) /\ UNCHANGED <<list, enabled, called, sets, dangling, again, hwCall>> /\
             Hw!At("idle")
        /\ hwHeap[h].kind # "gpio"
    BY <1>2 DEF Hw!SpiClose, Hw!I2cClose, Hw!gpios, Hw!Open
  <2>2. ~dangling => h \notin Hw!ToSet(list)
    BY <2>1 DEF HandlesInv, ListHas
  <2>3. hwCall' \in HalCall /\ hwCall'.at = "idle"
    BY <1>0, <2>1 DEF Hw!At
  <2> QED
    BY <1>0, <2>1, <2>2, <2>3, FreedKeeps
<1>3. CASE Hw!I2cWritten
  <2>1. /\ Hw!Freed(hwCall.h) /\ UNCHANGED <<list, enabled, called, sets, dangling, again>> /\
             Hw!At("write")
        /\ hwCall' = Hw!Idle
    BY <1>3 DEF Hw!I2cWritten, Hw!gpios
  <2>2. hwCall.h \in Blocks /\ hwHeap[hwCall.h].kind = "buffer"
    BY <2>1 DEF HandlesInv, CallHas, Hw!At
  <2>3. ~dangling => hwCall.h \notin Hw!ToSet(list)
    BY <2>2 DEF HandlesInv, ListHas
  <2> QED
    BY <1>0, <2>1, <2>2, <2>3, FreedKeeps
<1>4. CASE Hw!GpioConfigure
  <2>1. /\ UNCHANGED <<list, enabled, called, sets, dangling, again>> /\ Hw!At("configure") /\
             hwCall' = Hw!Idle
        /\ hwCall.h \in Blocks
    BY <1>4 DEF Hw!GpioConfigure, Hw!gpios, HandlesInv, CallHas, Hw!At
  <2>2. CASE UNCHANGED hwHeap
    <3>1. HalTyped'
      BY <1>0, <2>1, <2>2 DEF HandlesInv, HalTyped
    <3>2. CallHas'
      BY <1>0, <2>1, <2>2 DEF HandlesInv, CallHas, Hw!At, OnPins
    <3>3. ~dangling => ListHas'
      BY <1>0, <2>1, <2>2 DEF HandlesInv, ListHas, Together, Setting, Hw!At
    <3> QED
      BY <2>1, <3>1, <3>2, <3>3 DEF HandlesInv
  <2>3. CASE Hw!Freed(hwCall.h) /\ hwFaults' = hwFaults + 1
    <3>1. ~dangling => hwCall.h \notin Hw!ToSet(list)
      BY <2>1 DEF HandlesInv, ListHas
    <3> QED
      BY <1>0, <2>1, <2>3, <3>1, FreedKeeps
  <2> QED
    BY <1>4, <2>2, <2>3 DEF Hw!GpioConfigure
<1> QED
  BY <1>1, <1>2, <1>3, <1>4

\* A step of a call about an open pin's handle.
LEMMA HandlesCall ==
  ASSUME HandlesInv,
         \/ \E h \in Blocks : Hw!SetInterrupt(h)
         \/ Hw!SetData \/ Hw!DisableInterrupt \/ Hw!EnableInterrupt
  PROVE  HandlesInv'
<1>0. /\ hwCall \in HalCall /\ Hw!Idle \in HalCall /\ Hw!Idle.at = "idle" /\
           hwHeap \in [Blocks -> HwBlock]
      /\ Hw!ToSet(list) \subseteq Blocks /\ list \in Seq(Blocks) /\ sets \in Nat
  BY DEF HandlesInv, HalTyped, HalCall, Hw!Idle, Hw!ToSet
<1>1. ASSUME NEW h \in Blocks, Hw!SetInterrupt(h) PROVE HandlesInv'
  <2>1. PICK cb \in {0, sets + 1} : hwHeap' = [hwHeap EXCEPT ![h].cb = cb]
    BY <1>1 DEF Hw!SetInterrupt
  <2>2. /\ Hw!At("idle") /\ hwHeap[h].kind = "gpio" /\ sets' = sets + 1 /\
             hwCall' = [at |-> "data", h |-> h]
        /\ again' = IF Hw!Contains(list, h) /\ hwHeap[h].pin \in enabled THEN again \cup {h}
             ELSE again
        /\ UNCHANGED <<list, enabled, called, dangling>>
    BY <1>1 DEF Hw!SetInterrupt, Hw!Open
  <2>3. /\ hwHeap' \in [Blocks -> HwBlock] /\ hwHeap'[h].kind = "gpio" /\ hwHeap'[h].cb = cb
        /\ hwHeap'[h].pin = hwHeap[h].pin
        /\ \A b \in Blocks \ {h} : hwHeap'[b] = hwHeap[b]
    <3>1. cb \in Nat
      BY <1>0, <2>1
    <3> QED
      BY <1>0, <2>1, <2>2, <3>1 DEF HwBlock
  <2>4. hwCall' \in HalCall /\ again' \subseteq Blocks
    BY <2>2 DEF HalCall, OnPins, HandlesInv, HalTyped
  <2>5. HalTyped'
    BY <2>2, <2>3, <2>4 DEF HandlesInv, HalTyped
  <2>6. CallHas'
    BY <2>1, <2>2, <2>3 DEF HandlesInv, CallHas, Hw!At, OnPins
  <2>7. ~dangling => ListHas'
    <3> SUFFICES ASSUME ~dangling PROVE ListHas'
      OBVIOUS
    <3>1. ListHas
      BY DEF HandlesInv
    <3>2. \A b \in Hw!ToSet(list) : hwHeap'[b].kind = "gpio"
      BY <1>0, <2>3, <3>1 DEF ListHas
    <3>3. Hw!Contains(list, h) <=> h \in Hw!ToSet(list)
      BY <1>0 DEF Hw!Contains, Hw!ToSet
    <3>4. \A b \in Blocks : hwHeap'[b].kind = "gpio" =>
            \/ Together(b)'
            \/ Setting(b)' /\ (b \in Hw!ToSet(list) /\ hwHeap'[b].pin \in enabled => b \in again')
      BY <2>2, <2>3, <3>1, <3>3 DEF ListHas, Together, Setting, Hw!At
    <3>5. \A c \in called : c.h \in Hw!ToSet(list) /\ (c.h \notin again' => c.cb = c.data)
      BY <2>2, <3>1 DEF ListHas
    <3>6. ~Hw!At("configure")'
      BY <2>2 DEF Hw!At
    <3> QED
      BY <2>2, <3>1, <3>2, <3>4, <3>5, <3>6 DEF ListHas
  <2> QED
    BY <2>2, <2>5, <2>6, <2>7 DEF HandlesInv
<1>2. CASE Hw!SetData
  <2>1. /\ Hw!At("data") /\ hwHeap' = [hwHeap EXCEPT ![hwCall.h].data = sets]
        /\ hwCall' = Hw!Idle \/ (hwCall'.at \in {"add", "disable"} /\ hwCall'.h = hwCall.h)
        /\ hwCall' \in HalCall
        /\ UNCHANGED <<list, enabled, called, sets, dangling, again>>
    BY <1>0, <1>2 DEF Hw!SetData, Hw!gpios, HalCall, OnPins, HandlesInv, CallHas, Hw!At
  <2>2. hwCall.h \in Blocks /\ hwHeap[hwCall.h].kind = "gpio" /\ hwHeap[hwCall.h].cb \in {0, sets}
    BY <2>1 DEF HandlesInv, CallHas, Hw!At, OnPins
  <2>3. /\ hwHeap' \in [Blocks -> HwBlock]
        /\ \A b \in Blocks : hwHeap'[b].kind = hwHeap[b].kind /\ hwHeap'[b].cb = hwHeap[b].cb
        /\ \A b \in Blocks \ {hwCall.h} : hwHeap'[b] = hwHeap[b]
        /\ hwHeap'[hwCall.h].data = sets
    BY <1>0, <2>1, <2>2 DEF HwBlock
  <2>5. HalTyped'
    BY <2>1, <2>3 DEF HandlesInv, HalTyped
  <2>6. CallHas'
    BY <1>0, <2>1, <2>2, <2>3 DEF HandlesInv, CallHas, Hw!At, OnPins
  <2>7. ~dangling => ListHas'
    <3> SUFFICES ASSUME ~dangling PROVE ListHas'
      OBVIOUS
    <3>1. ListHas
      BY DEF HandlesInv
    <3>2. \A b \in Hw!ToSet(list) : hwHeap'[b].kind = "gpio"
      BY <1>0, <2>3, <3>1 DEF ListHas
    <3>4. \A b \in Blocks : hwHeap'[b].kind = "gpio" => Together(b)'
      BY <2>1, <2>2, <2>3, <3>1 DEF ListHas, Together, Setting, Hw!At
    <3>6. ~Hw!At("configure")'
      BY <1>0, <2>1 DEF Hw!At
    <3> QED
      BY <2>1, <3>1, <3>2, <3>4, <3>6 DEF ListHas
  <2> QED
    BY <2>1, <2>5, <2>6, <2>7 DEF HandlesInv
<1>3. CASE Hw!DisableInterrupt \/ Hw!EnableInterrupt
  <2>1. /\ hwCall.at \in {"enable", "disable"} /\ hwCall' = Hw!Idle
        /\ UNCHANGED <<hwHeap, list, called, sets, dangling, again>>
    BY <1>3 DEF Hw!DisableInterrupt, Hw!EnableInterrupt, Hw!At
  <2>5. HalTyped'
    BY <1>0, <2>1 DEF HandlesInv, HalTyped
  <2>6. CallHas'
    BY <1>0, <2>1 DEF HandlesInv, CallHas, Hw!At, OnPins
  <2>7. ~dangling => ListHas'
    BY <1>0, <2>1 DEF HandlesInv, ListHas, Together, Setting, Hw!At
  <2> QED
    BY <2>1, <2>5, <2>6, <2>7 DEF HandlesInv
<1> QED
  BY <1>1, <1>2, <1>3

\* Adding a callback moves it to the front.
LEMMA AddedFacts ==
  ASSUME NEW s \in Seq(Blocks), Hw!IsInjective(s), NEW h \in Blocks
  PROVE  LET t == <<h>> \o Hw!RemoveFirst(s, h)
         IN  t \in Seq(Blocks) /\ Hw!IsInjective(t) /\ Hw!ToSet(t) = Hw!ToSet(s) \cup {h}
<1>1. PICK r \in Seq(Blocks) : /\ r = Hw!RemoveFirst(s, h) /\ Hw!IsInjective(r)
                               /\ Hw!ToSet(r) = Hw!ToSet(s) \ {h}
  <2>1. CASE ~Hw!Contains(s, h)
    <3>1. Hw!RemoveFirst(s, h) = s
      BY <2>1 DEF Hw!RemoveFirst, Hw!Contains
    <3>2. h \notin Hw!ToSet(s)
      BY <2>1 DEF Hw!Contains, Hw!ToSet
    <3> QED
      BY <3>1, <3>2
  <2>2. CASE Hw!Contains(s, h)
    <3>1. PICK i \in 1 .. Len(s) : s[i] = h /\ Hw!RemoveFirst(s, h) = Hw!RemoveAt(s, i)
      BY <2>2, RemovesOne
    <3>2. PICK r \in Seq(Blocks) : /\ r = Hw!RemoveAt(s, i) /\ Len(r) = Len(s) - 1
                                   /\ \A k \in 1 .. Len(s) - 1 : r[k] = IF k < i THEN s[k]
                                        ELSE s[k + 1]
      BY RemovedAt
    <3>3. Len(s) \in Nat /\ DOMAIN s = 1 .. Len(s) /\ DOMAIN r = 1 .. Len(s) - 1
      BY <3>2
    <3>4. \A k \in 1 .. Len(s) - 1 : \E j \in DOMAIN s : r[k] = s[j] /\
            j = (IF k < i THEN k ELSE k + 1)
      BY <3>2, <3>3
    <3>5. Hw!IsInjective(r)
      <4> SUFFICES ASSUME NEW a \in 1 .. Len(s) - 1, NEW b \in 1 .. Len(s) - 1, r[a] = r[b]
                          PROVE a = b
        BY <3>3 DEF Hw!IsInjective
      <4>1. PICK j \in DOMAIN s : r[a] = s[j] /\ j = (IF a < i THEN a ELSE a + 1)
        BY <3>4
      <4>2. PICK k \in DOMAIN s : r[b] = s[k] /\ k = (IF b < i THEN b ELSE b + 1)
        BY <3>4
      <4>3. j = k
        BY <4>1, <4>2 DEF Hw!IsInjective
      <4> QED
        BY <3>1, <3>3, <4>1, <4>2, <4>3
    <3>6. \A j \in DOMAIN s : j # i => s[j] \in Hw!ToSet(r)
      <4> SUFFICES ASSUME NEW j \in DOMAIN s, j # i PROVE \E k \in DOMAIN r : s[j] = r[k]
        BY DEF Hw!ToSet
      <4>1. CASE j < i
        BY <3>2, <3>3, <4>1
      <4>2. CASE i < j
        <5>1. j - 1 \in 1 .. Len(s) - 1 /\ ~(j - 1 < i) /\ j - 1 + 1 = j
          BY <3>1, <3>3, <4>2
        <5> QED
          BY <3>2, <3>3, <5>1
      <4> QED
        BY <3>1, <3>3, <4>1, <4>2
    <3>7. Hw!ToSet(r) = Hw!ToSet(s) \ {h}
      <4>1. ASSUME NEW x \in Hw!ToSet(r) PROVE x \in Hw!ToSet(s) \ {h}
        <5>1. PICK k \in 1 .. Len(s) - 1 : x = r[k]
          BY <3>3 DEF Hw!ToSet
        <5>2. PICK j \in DOMAIN s : r[k] = s[j] /\ j = (IF k < i THEN k ELSE k + 1)
          BY <3>4
        <5>3. j # i
          BY <3>1, <3>3, <5>2
        <5>4. s[j] # h
          BY <3>1, <3>3, <5>3 DEF Hw!IsInjective
        <5> QED
          BY <5>1, <5>2, <5>4 DEF Hw!ToSet
      <4>2. ASSUME NEW x \in Hw!ToSet(s) \ {h} PROVE x \in Hw!ToSet(r)
        BY <3>1, <3>6 DEF Hw!ToSet
      <4> QED
        BY <4>1, <4>2
    <3> QED
      BY <3>1, <3>2, <3>5, <3>7
  <2> QED
    BY <2>1, <2>2
<1>2. PICK t \in Seq(Blocks) : /\ t = <<h>> \o r /\ Len(t) = Len(r) + 1 /\ t[1] = h
                               /\ \A i \in 1 .. Len(r) : t[i + 1] = r[i]
  <2> DEFINE a == <<h>>
  <2>1. a \in Seq(Blocks) /\ Len(a) = 1 /\ a[1] = h
    OBVIOUS
  <2> HIDE DEF a
  <2>2. /\ a \o r \in Seq(Blocks) /\ Len(a \o r) = Len(a) + Len(r)
        /\ \A k \in 1 .. Len(a) + Len(r) : (a \o r)[k] = IF k <= Len(a) THEN a[k] ELSE r[k - Len(a)]
    <3>1. r \in Seq(Blocks)
      BY <1>1
    <3> QED
      BY <2>1, <3>1, ConcatProperties
  <2>3. Len(r) \in Nat
    BY <1>1
  <2>4. \A i \in 1 .. Len(r) : (a \o r)[i + 1] = r[i]
    <3> SUFFICES ASSUME NEW i \in 1 .. Len(r) PROVE (a \o r)[i + 1] = r[i]
      OBVIOUS
    <3>1. i + 1 \in 1 .. Len(a) + Len(r) /\ ~(i + 1 <= Len(a)) /\ i + 1 - Len(a) = i
      BY <2>1, <2>3
    <3> QED
      BY <2>2, <3>1
  <2>5. (a \o r)[1] = h
    BY <2>1, <2>2, <2>3
  <2>6. a \o r = <<h>> \o r
    BY DEF a
  <2>7. Len(a \o r) = Len(r) + 1 /\ a \o r \in Seq(Blocks)
    BY <2>1, <2>2, <2>3
  <2> DEFINE t == a \o r
  <2>8. /\ t \in Seq(Blocks) /\ t = <<h>> \o r /\ Len(t) = Len(r) + 1 /\ t[1] = h
        /\ \A i \in 1 .. Len(r) : t[i + 1] = r[i]
    BY <2>4, <2>5, <2>6, <2>7
  <2> HIDE DEF t
  <2> QED
    BY <2>8
<1>3. /\ DOMAIN t = 1 .. Len(r) + 1 /\ DOMAIN r = 1 .. Len(r) /\ Len(r) \in Nat
  BY <1>2
<1>4. \A j \in 1 .. Len(r) + 1 : j # 1 => j - 1 \in 1 .. Len(r) /\ t[j] = r[j - 1]
  <2> SUFFICES ASSUME NEW j \in 1 .. Len(r) + 1, j # 1
               PROVE  j - 1 \in 1 .. Len(r) /\ t[j] = r[j - 1]
    OBVIOUS
  <2>1. j - 1 \in 1 .. Len(r) /\ j - 1 + 1 = j
    BY <1>3
  <2> QED
    BY <1>2, <2>1
<1>5. \A i \in DOMAIN r : r[i] # h
  BY <1>1 DEF Hw!ToSet
<1>6. Hw!IsInjective(t)
  BY <1>1, <1>2, <1>3, <1>4, <1>5 DEF Hw!IsInjective
<1>7. Hw!ToSet(t) = Hw!ToSet(s) \cup {h}
  <2>1. ASSUME NEW x \in Hw!ToSet(t) PROVE x \in Hw!ToSet(r) \cup {h}
    BY <1>2, <1>3, <1>4 DEF Hw!ToSet
  <2>2. ASSUME NEW x \in Hw!ToSet(r) PROVE x \in Hw!ToSet(t)
    <3>1. PICK i \in 1 .. Len(r) : x = r[i]
      BY <1>3 DEF Hw!ToSet
    <3>2. i + 1 \in DOMAIN t
      BY <1>3
    <3> QED
      BY <1>2, <3>1, <3>2 DEF Hw!ToSet
  <2>3. h \in Hw!ToSet(t)
    <3>1. 1 \in DOMAIN t
      BY <1>3
    <3> QED
      BY <1>2, <3>1 DEF Hw!ToSet
  <2> QED
    BY <1>1, <2>1, <2>2, <2>3
<1> QED
  BY <1>1, <1>2, <1>6, <1>7

\* A callback is added.
LEMMA HandlesAdd == ASSUME HandlesInv, Hw!AddCallback PROVE HandlesInv'
<1>1. /\ Hw!At("add") /\ hwCall' = [hwCall EXCEPT !.at = "enable"] /\ hwCall.h \in Blocks
      /\ hwHeap[hwCall.h].kind = "gpio"
      /\ UNCHANGED <<hwHeap, enabled, called, sets, dangling, again>>
  BY DEF Hw!AddCallback, Hw!Goes, HandlesInv, CallHas, Hw!At, OnPins
<1>2. hwCall' \in HalCall /\ hwCall'.at = "enable" /\ hwCall'.h = hwCall.h
  BY <1>1 DEF HandlesInv, HalTyped, HalCall, OnPins
<1>3. dangling => list' = list
  BY DEF Hw!AddCallback
<1>4. ~dangling => list' \in Seq(Blocks) /\ Hw!IsInjective(list') /\
        Hw!ToSet(list') = Hw!ToSet(list) \cup {hwCall.h}
  BY <1>1, AddedFacts DEF Hw!AddCallback, Hw!Added, HandlesInv, HalTyped, ListHas
<1>5. HalTyped'
  BY <1>1, <1>2, <1>3, <1>4 DEF HandlesInv, HalTyped
<1>6. CallHas'
  BY <1>1, <1>2 DEF HandlesInv, CallHas, Hw!At, OnPins
<1>7. ~dangling => ListHas'
  BY <1>1, <1>2, <1>4 DEF HandlesInv, ListHas, Together, Setting, Hw!At
<1> QED
  BY <1>1, <1>5, <1>6, <1>7 DEF HandlesInv

\* An interrupt calls what is listed.
LEMMA HandlesCalled == ASSUME HandlesInv, NEW p \in Pins, Hw!Interrupt(p) PROVE HandlesInv'
<1>1. /\ p \in enabled /\ ~dangling /\
           UNCHANGED <<hwHeap, list, enabled, hwCall, sets, dangling, again>>
      /\ called' = {[h |-> h, cb |-> hwHeap[h].cb, data |-> hwHeap[h].data] :
                      h \in {b \in Hw!ToSet(list) : hwHeap[b].pin = p /\ hwHeap[b].cb # 0}}
  BY DEF Hw!Interrupt
<1>2. ListHas /\ Hw!ToSet(list) \subseteq Blocks
  BY <1>1 DEF HandlesInv, HalTyped, Hw!ToSet
<1>3. ASSUME NEW c \in called'
      PROVE  c.h \in Hw!ToSet(list) /\ (c.h \notin again => c.cb = c.data)
  <2>1. PICK h \in Hw!ToSet(list) : /\ hwHeap[h].pin = p /\ hwHeap[h].cb # 0
                                    /\ c = [h |-> h, cb |-> hwHeap[h].cb, data |-> hwHeap[h].data]
    BY <1>1, <1>3
  <2>2. h \in Blocks /\ hwHeap[h].kind = "gpio"
    BY <1>2 DEF ListHas
  <2>3. h \notin again => hwHeap[h].cb = hwHeap[h].data
    BY <1>1, <1>2, <2>1, <2>2 DEF ListHas, Together
  <2> QED
    BY <2>1, <2>3
<1>4. ListHas'
  BY <1>1, <1>2, <1>3 DEF ListHas, Together, Setting, Hw!At
<1> QED
  BY <1>1, <1>4 DEF HandlesInv, HalTyped, CallHas, Hw!At

\* A step on handles keeps the invariant.
LEMMA HandlesKeep == HandlesInv /\ [Hw!HandlesNext]_(Hw!handleVars) => HandlesInv'
<1>1. ASSUME HandlesInv, UNCHANGED Hw!handleVars PROVE HandlesInv'
  BY <1>1 DEF Hw!handleVars, HandlesInv, HalTyped, CallHas, ListHas, Together, Setting, Hw!At
<1> QED
  BY <1>1, HandlesOpen, HandlesClose, HandlesCall, HandlesAdd, HandlesCalled DEF Hw!HandlesNext

\* Every driver in the table, and what each caller was given.
HeldDriver == [at : Nat, name : DriverNames \cup {Unnamed}, moved : BOOLEAN]
DriversInv ==
  /\ drivers \in Seq([name : DriverNames, type : Types]) /\ Len(drivers) <= MaxDrivers
  /\ ready \/ drivers = <<>>
  /\ held \in [Callers -> HeldDriver]
  /\ \A i, j \in 1 .. Len(drivers) : drivers[i].name = drivers[j].name => i = j
  /\ \A c \in Callers : (held[c].at # 0 /\ ~held[c].moved) =>
       held[c].at <= Len(drivers) /\ drivers[held[c].at].name = held[c].name

\* What a search finds.
LEMMA SearchFinds ==
  ASSUME NEW S, NEW s \in Seq(S), NEW I \in SUBSET (1 .. Len(s))
  PROVE  LET m == IF I # {} THEN Hw!Min(I) ELSE 0 IN m \in 0 .. Len(s) /\ (m # 0 <=> m \in I) /\
           (m = 0 <=> I = {})
<1>1. I \subseteq Nat /\ 0 \notin I /\ 0 \in 0 .. Len(s)
  OBVIOUS
<1>2. CASE I # {}
  <2>1. PICK k \in I : k = Hw!Min(I)
    BY <1>1, <1>2, Least DEF Hw!Min
  <2>2. k \in 0 .. Len(s) /\ k # 0
    BY <1>1, <2>1
  <2> QED
    BY <1>2, <2>1, <2>2
<1>3. CASE I = {}
  BY <1>1, <1>3
<1> QED
  BY <1>2, <1>3

\* A search by name finds the entry of the name.
LEMMA EntryFinds ==
  ASSUME DriversInv, NEW name
  PROVE  /\ Hw!Entry(name) \in 0 .. Len(drivers)
         /\ Hw!Entry(name) # 0 => drivers[Hw!Entry(name)].name = name
         /\ Hw!Entry(name) = 0 => \A i \in 1 .. Len(drivers) : drivers[i].name # name
<1> DEFINE I == {i \in 1 .. Len(drivers) : drivers[i].name = name}
           m == IF I # {} THEN Hw!Min(I) ELSE 0
<1>1. m \in 0 .. Len(drivers) /\ (m # 0 <=> m \in I) /\ (m = 0 <=> I = {})
  BY SearchFinds DEF DriversInv
<1>2. Hw!Entry(name) = m
  BY DEF Hw!Entry, Hw!SelectInSeq
<1> HIDE DEF m
<1> QED
  BY <1>1, <1>2

\* A search by type gives an entry or none.
LEMMA TypeFinds ==
  ASSUME DriversInv, NEW type
  PROVE  Hw!ByType(type) \in 0 .. Len(drivers)
<1> DEFINE I == {i \in 1 .. Len(drivers) : drivers[i].type = type}
           m == IF I # {} THEN Hw!Min(I) ELSE 0
<1>1. m \in 0 .. Len(drivers)
  BY SearchFinds DEF DriversInv
<1>2. Hw!ByType(type) = m
  BY DEF Hw!ByType, Hw!SelectInSeq
<1> QED
  BY <1>1, <1>2

\* What a caller is given is where the driver is.
LEMMA GivenKeeps ==
  ASSUME DriversInv, NEW c \in Callers, NEW i \in 0 .. Len(drivers), Hw!Given(c, i)
  PROVE  DriversInv'
<1>1. /\ held \in [Callers -> HeldDriver] /\ drivers \in Seq([name : DriverNames, type : Types])
      /\ UNCHANGED <<ready, drivers>> /\ Hw!Nothing \in HeldDriver /\ Hw!Nothing.at = 0
  BY DEF DriversInv, Hw!Given, Hw!Nothing, HeldDriver
<1>2. CASE ~ready \/ i = 0
  <2>1. held' = [held EXCEPT ![c] = Hw!Nothing]
    BY <1>2 DEF Hw!Given
  <2> QED
    BY <1>1, <2>1 DEF DriversInv
<1>3. CASE ready /\ i # 0
  <2> DEFINE r == [at |-> i, name |-> drivers[i].name, moved |-> FALSE]
  <2>1. held' = [held EXCEPT ![c] = r]
    BY <1>3 DEF Hw!Given
  <2>2. i \in 1 .. Len(drivers) /\ drivers[i].name \in DriverNames
    <3>1. i \in 1 .. Len(drivers)
      BY <1>1, <1>3
    <3>2. drivers[i] \in [name : DriverNames, type : Types]
      BY <1>1, <3>1, ElementOfSeq
    <3> QED
      BY <3>1, <3>2
  <2>3. r \in HeldDriver /\ r.at = i /\ r.name = drivers[i].name
    BY <2>2 DEF HeldDriver
  <2> HIDE DEF r
  <2> QED
    BY <1>1, <2>1, <2>2, <2>3 DEF DriversInv
<1> QED
  BY <1>2, <1>3

\* A driver is registered.
LEMMA DriverRegistered ==
  ASSUME DriversInv, MaxDrivers \in Nat, NEW n \in DriverNames, NEW ty \in Types, Hw!Register(n, ty)
  PROVE  DriversInv'
<1> DEFINE d == [name |-> n, type |-> ty]
<1>1. /\ drivers' = Append(drivers, d) /\ Len(drivers) < MaxDrivers /\ UNCHANGED <<ready, held>> /\
           ready
      /\ drivers \in Seq([name : DriverNames, type : Types]) /\
           d \in [name : DriverNames, type : Types] /\ d.name = n
      /\ Len(drivers) \in Nat
  BY DEF Hw!Register, Hw!Full, DriversInv
<1>2. \A i \in 1 .. Len(drivers) : drivers[i].name # n
  BY EntryFinds DEF Hw!Register, Hw!Registered
<1> HIDE DEF d
<1>3. /\ drivers' \in Seq([name : DriverNames, type : Types]) /\ Len(drivers') = Len(drivers) + 1
      /\ \A i \in 1 .. Len(drivers) : drivers'[i] = drivers[i]
      /\ drivers'[Len(drivers) + 1] = d
  BY <1>1
<1>4. \A i, j \in 1 .. Len(drivers') : drivers'[i].name = drivers'[j].name => i = j
  <2> SUFFICES ASSUME NEW i \in 1 .. Len(drivers) + 1, NEW j \in 1 .. Len(drivers) + 1,
                      drivers'[i].name = drivers'[j].name
               PROVE  i = j
    BY <1>3
  <2>1. CASE i = Len(drivers) + 1 \/ j = Len(drivers) + 1
    BY <1>1, <1>2, <1>3, <2>1
  <2>2. CASE i \in 1 .. Len(drivers) /\ j \in 1 .. Len(drivers)
    BY <1>3, <2>2 DEF DriversInv
  <2> QED
    BY <1>1, <2>1, <2>2
<1>5. \A c \in Callers : (held[c].at # 0 /\ ~held[c].moved) =>
        held[c].at <= Len(drivers) + 1 /\ drivers'[held[c].at].name = held[c].name
  BY <1>1, <1>3 DEF DriversInv, HeldDriver
<1>6. Len(drivers') <= MaxDrivers
  BY <1>1, <1>3
<1>7. \A c \in Callers : (held'[c].at # 0 /\ ~held'[c].moved) =>
        held'[c].at <= Len(drivers') /\ drivers'[held'[c].at].name = held'[c].name
  BY <1>1, <1>3, <1>5
<1> QED
  BY <1>1, <1>3, <1>4, <1>6, <1>7 DEF DriversInv

\* The entries after the one that is taken out move up.
LEMMA DriverUnregistered ==
  ASSUME DriversInv, MaxDrivers \in Nat, NEW n \in DriverNames, Hw!Unregister(n)
  PROVE  DriversInv'
<1>1. PICK e \in 1 .. Len(drivers) : e = Hw!Entry(n)
  <2>1. Hw!Entry(n) # 0 /\ Hw!Entry(n) \in 0 .. Len(drivers)
    BY EntryFinds DEF Hw!Unregister
  <2> QED
    BY <2>1
<1>2. /\ drivers' = Hw!RemoveAt(drivers, e) /\ ready' = ready /\ ready
      /\ held' = [c \in Callers |-> [held[c] EXCEPT !.moved = @ \/ e <= held[c].at]]
      /\ drivers \in Seq([name : DriverNames, type : Types]) /\ Len(drivers) \in Nat
      /\ held \in [Callers -> HeldDriver]
  BY <1>1 DEF Hw!Unregister, DriversInv
<1>3. /\ drivers' \in Seq([name : DriverNames, type : Types]) /\ Len(drivers') = Len(drivers) - 1
      /\ \A k \in 1 .. Len(drivers) - 1 :
           drivers'[k] = IF k < e THEN drivers[k] ELSE drivers[k + 1]
  BY <1>2, RemovedAt
<1>4. \A c \in Callers : /\ held'[c] \in HeldDriver
                         /\ held'[c].at = held[c].at /\ held'[c].name = held[c].name
                         /\ ~held'[c].moved => ~held[c].moved /\ ~(e <= held[c].at)
  <2> SUFFICES ASSUME NEW c \in Callers
               PROVE  /\ held'[c] \in HeldDriver
                      /\ held'[c].at = held[c].at /\ held'[c].name = held[c].name
                      /\ ~held'[c].moved => ~held[c].moved /\ ~(e <= held[c].at)
    OBVIOUS
  <2>1. held[c] \in HeldDriver
    BY <1>2
  <2>2. PICK b \in BOOLEAN : b = (held[c].moved \/ e <= held[c].at)
    BY <2>1 DEF HeldDriver
  <2>3. held'[c] = [held[c] EXCEPT !.moved = b]
    BY <1>2, <2>2
  <2>4. held'[c] \in HeldDriver /\ held'[c].at = held[c].at /\ held'[c].name = held[c].name /\
          held'[c].moved = b
    BY <2>1, <2>3 DEF HeldDriver
  <2> QED
    BY <2>2, <2>4
<1>5. held' \in [Callers -> HeldDriver]
  BY <1>2, <1>4
<1>6. \A k \in 1 .. Len(drivers) - 1 :
        \E j \in 1 .. Len(drivers) : drivers'[k] = drivers[j] /\ j = (IF k < e THEN k ELSE k + 1)
  BY <1>2, <1>3
<1>7. \A i, j \in 1 .. Len(drivers') : drivers'[i].name = drivers'[j].name => i = j
  <2> SUFFICES ASSUME NEW i \in 1 .. Len(drivers) - 1, NEW j \in 1 .. Len(drivers) - 1,
                      drivers'[i].name = drivers'[j].name
               PROVE  i = j
    BY <1>3
  <2>1. PICK a \in 1 .. Len(drivers) : drivers'[i] = drivers[a] /\ a = (IF i < e THEN i ELSE i + 1)
    BY <1>6
  <2>2. PICK b \in 1 .. Len(drivers) : drivers'[j] = drivers[b] /\ b = (IF j < e THEN j ELSE j + 1)
    BY <1>6
  <2>3. a = b
    BY <2>1, <2>2 DEF DriversInv
  <2> QED
    BY <2>1, <2>2, <2>3
<1>8. \A c \in Callers : (held'[c].at # 0 /\ ~held'[c].moved) =>
        held'[c].at <= Len(drivers') /\ drivers'[held'[c].at].name = held'[c].name
  <2> SUFFICES ASSUME NEW c \in Callers, held[c].at # 0, ~held'[c].moved
               PROVE  held[c].at <= Len(drivers) - 1 /\ drivers'[held[c].at].name = held[c].name
    BY <1>3, <1>4
  <2>1. held[c].at \in Nat /\ held[c].at < e /\ drivers[held[c].at].name = held[c].name
    <3>1. held[c].at \in Nat
      BY <1>2 DEF HeldDriver
    <3>2. ~held[c].moved /\ ~(e <= held[c].at)
      BY <1>4
    <3>3. drivers[held[c].at].name = held[c].name
      BY <3>2 DEF DriversInv
    <3> QED
      BY <1>2, <3>1, <3>2, <3>3
  <2>2. held[c].at \in 1 .. Len(drivers) - 1
    BY <1>2, <2>1
  <2> QED
    BY <1>3, <2>1, <2>2
<1>9. Len(drivers') <= MaxDrivers
  BY <1>2, <1>3 DEF DriversInv
<1> QED
  BY <1>2, <1>3, <1>5, <1>7, <1>8, <1>9 DEF DriversInv

\* A step on the registry keeps the invariant.
LEMMA DriversKeep == MaxDrivers \in Nat /\ DriversInv /\ [Hw!DriversNext]_(Hw!driverVars) =>
                       DriversInv'
<1> SUFFICES ASSUME MaxDrivers \in Nat, DriversInv, [Hw!DriversNext]_(Hw!driverVars)
                    PROVE DriversInv'
  OBVIOUS
<1>1. CASE Hw!InitRegistry
  BY <1>1 DEF Hw!InitRegistry, DriversInv
<1>2. ASSUME NEW c \in Callers, (\E n \in DriverNames : Hw!Get(c, n)) \/
               \E ty \in Types : Hw!GetByType(c, ty)
      PROVE  DriversInv'
  <2>1. PICK i \in 0 .. Len(drivers) : Hw!Given(c, i)
    <3>1. ASSUME NEW n \in DriverNames, Hw!Get(c, n)
                 PROVE \E i \in 0 .. Len(drivers) : Hw!Given(c, i)
      BY <3>1, EntryFinds DEF Hw!Get
    <3>2. ASSUME NEW ty \in Types, Hw!GetByType(c, ty)
                 PROVE \E i \in 0 .. Len(drivers) : Hw!Given(c, i)
      BY <3>2, TypeFinds DEF Hw!GetByType
    <3> QED
      BY <1>2, <3>1, <3>2
  <2> QED
    BY <2>1, GivenKeeps
<1>3. CASE UNCHANGED Hw!driverVars
  BY <1>3 DEF Hw!driverVars, DriversInv
<1> QED
  BY <1>1, <1>2, <1>3, DriverRegistered, DriverUnregistered DEF Hw!DriversNext

\* The invariants give the properties.
LEMMA HandlesImply == HandlesInv => Hw!HandlesSound
<1> SUFFICES ASSUME HandlesInv PROVE Hw!HandlesSound
  OBVIOUS
<1>1. Hw!ToSet(list) \subseteq Blocks
  BY DEF HandlesInv, HalTyped, Hw!ToSet
<1>2. Hw!At("idle") => \A b \in Blocks : hwHeap[b].kind # "buffer"
  BY DEF HandlesInv, CallHas, Hw!At
<1>3. ~dangling => Hw!IsInjective(list) /\ \A h \in Hw!ToSet(list) : Hw!Open(h, "gpio")
  BY <1>1 DEF HandlesInv, ListHas, Hw!Open
<1>4. ~dangling => \A c \in called : c.h \notin again => c.cb = c.data
  BY DEF HandlesInv, ListHas
<1> QED
  BY <1>2, <1>3, <1>4 DEF Hw!HandlesSound

\* The invariant gives the property.
LEMMA DriversImply == MaxDrivers \in Nat /\ DriversInv => Hw!DriversSound
<1> SUFFICES ASSUME MaxDrivers \in Nat, DriversInv, NEW i \in 1 .. Len(drivers)
             PROVE  i \in Hw!Listed(<<drivers[i].type>>, MaxDrivers) /\
                      i \in Hw!Listed(<<>>, MaxDrivers)
  BY DEF DriversInv, Hw!DriversSound
<1>1. i \in Hw!OfType(<<drivers[i].type>>) /\ i \in Hw!OfType(<<>>)
  BY DEF Hw!OfType
<1>2. ASSUME NEW types PROVE Hw!Cardinality({j \in Hw!OfType(types) : j < i}) < MaxDrivers
  <2>1. {j \in Hw!OfType(types) : j < i} \subseteq 1 .. i - 1
    BY DEF Hw!OfType
  <2>2. Len(drivers) \in Nat /\ Len(drivers) <= MaxDrivers
    BY DEF DriversInv
  <2>3. Hw!IsFiniteSet(1 .. i - 1) /\ Hw!Cardinality(1 .. i - 1) = i - 1
    BY HwSets, FS_Interval
  <2>4. Hw!Cardinality({j \in Hw!OfType(types) : j < i}) <= i - 1
    BY <2>1, <2>3, HwSets, FS_Subset
  <2>5. Hw!Cardinality({j \in Hw!OfType(types) : j < i}) \in Nat
    BY <2>1, <2>3, HwSets, FS_Subset, FS_CardinalityType
  <2> QED
    BY <2>2, <2>4, <2>5
<1> QED
  BY <1>1, <1>2 DEF Hw!Listed

\* Interrupts find callbacks with their data, and drivers are where they were.
THEOREM HardwareIsFound == ASSUME MaxDrivers \in Nat PROVE Hw!Spec =>
                                    [](Hw!HandlesSound /\ Hw!DriversSound)
<1>1. Hw!Init => HandlesInv /\ DriversInv
  <2>1. Hw!HandlesInit => HandlesInv
    <3> SUFFICES ASSUME Hw!HandlesInit PROVE HandlesInv
      OBVIOUS
    <3>1. Hw!Free \in HwBlock /\ Hw!Free.kind = "free" /\ Hw!Idle \in HalCall /\ Hw!Idle.at = "idle"
      BY DEF Hw!Free, HwBlock, Hw!Idle, HalCall
    <3>2. Hw!ToSet(list) = {} /\ Hw!IsInjective(list) /\ list \in Seq(Blocks)
      BY DEF Hw!HandlesInit, Hw!ToSet, Hw!IsInjective
    <3> QED
      BY <3>1, <3>2 DEF Hw!HandlesInit, HandlesInv, HalTyped, CallHas, ListHas, OnPins, Hw!At
  <2>2. Hw!DriversInit => DriversInv
    BY DEF Hw!DriversInit, DriversInv, Hw!Nothing, HeldDriver
  <2> QED
    BY <2>1, <2>2 DEF Hw!Init
<1>2. HandlesInv /\ DriversInv /\ [Hw!Next]_(Hw!vars) => (HandlesInv /\ DriversInv)'
  BY HandlesKeep, DriversKeep DEF Hw!Next, Hw!HandlesNext, Hw!DriversNext, Hw!vars
<1> QED
  BY <1>1, <1>2, HandlesImply, DriversImply, PTL DEF Hw!Spec

-----------------------------------------------------------------------------
(* The runtime, and what is proved of it.                                   *)

Runtime == INSTANCE AkiraRuntime WITH
  Names <- RuntimeNames, NoName <- Unnamed, MaxFaults <- RuntimeFaults, disk <- runtimeDisk, ram <- runtimeRam,
  call <- runtimeCall, faults <- runtimeFaults

RuntimeOK == Containers \subseteq Nat /\ Binaries \subseteq Seq(Nat) /\ MaxPolls \in Nat

Image == Seq(Nat)
Container == [name : RuntimeNames \cup {Unnamed}, bin : Image, ran : Image,
              status : {"UNKNOWN", "CREATED", "RUNNING", "STOPPED", "ERROR"}]
Installing == {"save", "fallback", "create"}
RuntimeCalls == [at : Installing \cup {"idle", "poll"}, name : RuntimeNames \cup {Unnamed},
bin : Image,
                 id : Containers \cup {-1}, polls : Nat,
                 ans : {"none", "created", "error", "started"}]
RuntimeTyped ==
  /\ runtimeDisk \in [RuntimeNames -> Image] /\ owner \in [RuntimeNames -> Containers \cup {-1}]
  /\ containers \in [Containers -> Container] /\ runtimeCall \in RuntimeCalls
  /\ requests \subseteq Containers /\ fresh \subseteq Containers

\* An install is of an app without a container, and goes on to create one with
\* its image in the file unless it was cut.
CallKnows ==
  /\ runtimeCall.at \in Installing => runtimeCall.name \in RuntimeNames /\
       owner[runtimeCall.name] = -1
  /\ Runtime!At("create") /\ runtimeCall.name \notin cut =>
       Runtime!IsPrefix(runtimeCall.bin, runtimeDisk[runtimeCall.name])
  /\ Runtime!At("poll") => runtimeCall.id \in Containers
  /\ Runtime!At("idle") /\ runtimeCall.ans = "started" /\ runtimeCall.id \in fresh =>
       containers[runtimeCall.id].ran # Runtime!NoImage

\* An app's container has its name, and the file begins with what it was
\* installed from, as does what it runs.
Owns(n) ==
  LET c == containers[owner[n]] IN
  owner[n] # -1 =>
    /\ c.name = n /\ c.status # "UNKNOWN"
    /\ n \notin cut => /\ Runtime!IsPrefix(c.bin, runtimeDisk[n])
                       /\ c.status = "RUNNING" => Runtime!IsPrefix(c.bin, c.ran)

\* A container that ran has an image.
RanOK(k) ==
  /\ containers[k] = Runtime!Free \/ containers[k].name \in RuntimeNames
  /\ containers[k].status \in {"RUNNING", "STOPPED"} => containers[k].ran # Runtime!NoImage

RuntimeInv ==
  /\ RuntimeTyped /\ CallKnows
  /\ \A n \in RuntimeNames : Owns(n)
  /\ \A k \in Containers : RanOK(k)
  /\ \A n \in RuntimeNames \ (installed \cup stuck) : runtimeDisk[n] = Runtime!NoImage

\* An empty image is an image.
LEMMA NoImageIsOne == Runtime!NoImage \in Image
BY EmptySeq DEF Runtime!NoImage, Image

\* When a sequence begins with another.
LEMMA Begins ==
  ASSUME NEW b \in Image, NEW s \in Image, Len(b) <= Len(s), \A i \in 1 .. Len(b) : b[i] = s[i]
  PROVE  Runtime!IsPrefix(b, s)
<1>1. Len(b) \in Nat /\ Len(s) \in Nat /\ \A i \in 1 .. Len(b) : b[i] \in Nat /\ s[i] \in Nat
  BY ElementOfSeq DEF Image
<1> DEFINE u == SubSeq(b, 1, Len(b))
           v == SubSeq(s, 1, Len(b))
<1>2. u \in Seq(Nat) /\ Len(u) = Len(b) /\ \A i \in 1 .. Len(b) : u[i] = b[i]
  <2>1. /\ u \in Seq(Nat) /\ Len(u) = IF 1 <= Len(b) THEN Len(b) - 1 + 1 ELSE 0
        /\ \A i \in 1 .. Len(b) - 1 + 1 : u[i] = b[1 + i - 1]
    BY <1>1, SubSeqProperties
  <2> HIDE DEF u
  <2> QED
    BY <1>1, <2>1
<1>3. v \in Seq(Nat) /\ Len(v) = Len(b) /\ \A i \in 1 .. Len(b) : v[i] = s[i]
  <2>1. /\ v \in Seq(Nat) /\ Len(v) = IF 1 <= Len(b) THEN Len(b) - 1 + 1 ELSE 0
        /\ \A i \in 1 .. Len(b) - 1 + 1 : v[i] = s[1 + i - 1]
    BY <1>1, SubSeqProperties
  <2> HIDE DEF v
  <2> QED
    BY <1>1, <2>1
<1>4. u = v
  <2> HIDE DEF u, v
  <2> QED
    BY <1>1, <1>2, <1>3, SeqEqual
<1> QED
  BY <1>4 DEF Runtime!IsPrefix

\* An image written over another, and one cut short.
LEMMA Written ==
  ASSUME NEW b \in Image, NEW old \in Image
  PROVE  /\ Runtime!Over(b, old) \in Image /\ Runtime!IsPrefix(b, Runtime!Over(b, old)) /\
              Runtime!IsPrefix(b, b)
         /\ Runtime!Front(b) \in Image
<1>1. /\ Len(b) \in Nat /\ Len(old) \in Nat /\ \A i \in 1 .. Len(b) - 1 : b[i] \in Nat
      /\ \A i \in Len(b) + 1 .. Len(old) : old[i] \in Nat
  BY ElementOfSeq DEF Image
<1> DEFINE r == SubSeq(old, Len(b) + 1, Len(old))
<1>2. r \in Seq(Nat) /\ Runtime!Front(b) \in Seq(Nat)
  BY <1>1, SubSeqProperties DEF Runtime!Front
<1>3. Runtime!Over(b, old) = b \o r
  BY DEF Runtime!Over
<1> HIDE DEF r
<1>4. /\ b \o r \in Seq(Nat) /\ Len(b \o r) = Len(b) + Len(r)
      /\ \A i \in 1 .. Len(b) + Len(r) : (b \o r)[i] = IF i <= Len(b) THEN b[i] ELSE r[i - Len(b)]
  BY <1>2, ConcatProperties DEF Image
<1>5. Len(b) <= Len(b \o r) /\ \A i \in 1 .. Len(b) : b[i] = (b \o r)[i]
  BY <1>1, <1>2, <1>4
<1>6. Runtime!IsPrefix(b, b \o r)
  <2> DEFINE s == b \o r
  <2>1. s \in Image /\ Len(b) <= Len(s) /\ \A i \in 1 .. Len(b) : b[i] = s[i]
    BY <1>4, <1>5 DEF Image
  <2> HIDE DEF s
  <2>2. Runtime!IsPrefix(b, s)
    BY <2>1, Begins
  <2> QED
    BY <2>2 DEF s
<1>7. Runtime!IsPrefix(b, b)
  BY <1>1, Begins
<1> QED
  BY <1>2, <1>3, <1>4, <1>6, <1>7 DEF Image

\* The part of the invariant that is about containers.
AppsOwn == (\A n \in RuntimeNames : Owns(n)) /\ (\A k \in Containers : RanOK(k))

\* The image of an app without a container is written, and the call goes on.
LEMMA ImageWritten ==
  ASSUME RuntimeInv, NEW n \in RuntimeNames, n = runtimeCall.name, owner[n] = -1,
         NEW image \in Image, runtimeDisk' = [runtimeDisk EXCEPT ![n] = image],
         cut \ {n} \subseteq cut', cut' \subseteq cut \cup {n},
         UNCHANGED <<stuck, Runtime!ocre, owner>>,
         \/ image = Runtime!NoImage /\ runtimeCall'.at = "fallback" /\ installed' = installed
         \/ installed' = installed \cup {n} /\ runtimeCall'.at = "create" /\
              (n \notin cut' => Runtime!IsPrefix(runtimeCall.bin, image)),
         runtimeCall' = [runtimeCall EXCEPT !.at = runtimeCall'.at]
  PROVE  RuntimeInv'
<1>1. /\ runtimeDisk' \in [RuntimeNames -> Image] /\ runtimeDisk'[n] = image
      /\ \A m \in RuntimeNames \ {n} : runtimeDisk'[m] = runtimeDisk[m]
  BY DEF RuntimeInv, RuntimeTyped
<1>2. runtimeCall' \in RuntimeCalls /\ runtimeCall'.name = n /\
        runtimeCall'.bin = runtimeCall.bin /\ runtimeCall'.at \in {"fallback", "create"}
  BY DEF RuntimeInv, RuntimeTyped, RuntimeCalls, Installing
<1>3. RuntimeTyped'
  BY <1>1, <1>2 DEF RuntimeInv, RuntimeTyped, Runtime!ocre
<1>4. CallKnows'
  BY <1>1, <1>2 DEF CallKnows, Runtime!At, Installing
<1>5. ASSUME NEW m \in RuntimeNames PROVE Owns(m)'
  BY <1>1 DEF RuntimeInv, Owns, Runtime!ocre
<1>6. ASSUME NEW k \in Containers PROVE RanOK(k)'
  BY DEF RuntimeInv, RanOK, Runtime!ocre
<1>7. \A m \in RuntimeNames \ (installed' \cup stuck') : runtimeDisk'[m] = Runtime!NoImage
  BY <1>1, <1>2 DEF RuntimeInv
<1> QED
  BY <1>3, <1>4, <1>5, <1>6, <1>7 DEF RuntimeInv

\* Saving an image.
LEMMA ImageSaved == ASSUME RuntimeOK, RuntimeInv, Runtime!SaveBinary \/ Runtime!Fallback
                           PROVE RuntimeInv'
<1>1. PICK n \in RuntimeNames : n = runtimeCall.name /\ owner[n] = -1
  BY DEF Runtime!SaveBinary, Runtime!Fallback, Runtime!At, RuntimeInv, CallKnows, Installing
<1>2. /\ runtimeCall \in RuntimeCalls /\ runtimeCall.bin \in Image /\ runtimeDisk[n] \in Image /\
           Runtime!NoImage \in Image
      /\ \A a : [runtimeCall EXCEPT !.at = a].at = a
  BY DEF RuntimeInv, RuntimeTyped, RuntimeCalls, Runtime!NoImage, Image
<1>3. /\ Runtime!Over(runtimeCall.bin, runtimeDisk[n]) \in Image /\
           Runtime!IsPrefix(runtimeCall.bin, Runtime!Over(runtimeCall.bin, runtimeDisk[n]))
      /\ Runtime!IsPrefix(runtimeCall.bin, runtimeCall.bin) /\
           Runtime!Front(runtimeCall.bin) \in Image
  BY <1>2, Written
<1>4. ASSUME NEW a \in {"fallback", "create"}, Runtime!Goes(a) PROVE runtimeCall'.at = a /\
               runtimeCall' = [runtimeCall EXCEPT !.at = runtimeCall'.at]
  BY <1>2, <1>4 DEF Runtime!Goes
<1>5. /\ UNCHANGED <<stuck, Runtime!ocre, owner>>
  BY DEF Runtime!SaveBinary, Runtime!Fallback
<1>6. ASSUME UNCHANGED <<runtimeDisk, installed>>, Runtime!Goes("fallback"), UNCHANGED cut
             PROVE RuntimeInv'
  <2>1. runtimeCall' \in RuntimeCalls /\ runtimeCall'.at = "fallback" /\ runtimeCall'.name = n
    BY <1>1, <1>2, <1>6 DEF Runtime!Goes, RuntimeCalls, Installing
  <2> QED
    BY <1>1, <1>5, <1>6, <2>1 DEF RuntimeInv, RuntimeTyped, CallKnows, Owns, RanOK, Runtime!ocre,
       Runtime!At, Installing
<1>7. CASE Runtime!SaveBinary
  <2>1. CASE Runtime!Saves(Runtime!Over(runtimeCall.bin, runtimeDisk[runtimeCall.name])) /\
               Runtime!Saved /\ cut' = cut \ {runtimeCall.name}
    BY <1>1, <1>3, <1>4, <1>5, <2>1, ImageWritten DEF Runtime!Saves, Runtime!Saved
  <2>2. CASE Runtime!Saves(Runtime!NoImage) /\ Runtime!Goes("fallback") /\
               UNCHANGED <<installed, cut>>
    BY <1>1, <1>2, <1>4, <1>5, <2>2, ImageWritten DEF Runtime!Saves
  <2>3. CASE Runtime!Goes("fallback") /\ UNCHANGED <<runtimeDisk, installed, cut>>
    BY <1>6, <2>3
  <2> QED
    BY <1>7, <2>1, <2>2, <2>3 DEF Runtime!SaveBinary
<1>8. CASE Runtime!Fallback
  <2>1. CASE Runtime!Saves(runtimeCall.bin) /\ Runtime!Saved /\ cut' = cut \ {runtimeCall.name}
    BY <1>1, <1>2, <1>3, <1>4, <1>5, <2>1, ImageWritten DEF Runtime!Saves, Runtime!Saved
  <2>2. CASE Runtime!Saves(Runtime!Front(runtimeCall.bin)) /\ Runtime!Saved /\
               cut' = cut \cup {runtimeCall.name}
    BY <1>1, <1>2, <1>3, <1>4, <1>5, <2>2, ImageWritten DEF Runtime!Saves, Runtime!Saved
  <2>3. CASE Runtime!Saved /\ cut' = cut \cup {runtimeCall.name} /\ UNCHANGED runtimeDisk
    <3>1. runtimeDisk' = [runtimeDisk EXCEPT ![n] = runtimeDisk[n]]
      BY <2>3 DEF RuntimeInv, RuntimeTyped
    <3> QED
      BY <1>1, <1>2, <1>4, <1>5, <2>3, <3>1, ImageWritten DEF Runtime!Saved
  <2>4. CASE Runtime!Returns("error") /\ UNCHANGED <<runtimeDisk, installed, cut>>
    <3>1. runtimeCall' \in RuntimeCalls /\ runtimeCall'.at = "idle" /\ runtimeCall'.ans = "error"
      BY <1>2, <2>4 DEF Runtime!Returns, RuntimeCalls
    <3> QED
      BY <1>5, <2>4, <3>1 DEF RuntimeInv, RuntimeTyped, CallKnows, Owns, RanOK, Runtime!ocre,
         Runtime!At, Installing
  <2> QED
    BY <1>8, <2>1, <2>2, <2>3, <2>4 DEF Runtime!Fallback
<1> QED
  BY <1>7, <1>8

\* A call that begins, goes on or returns and leaves images and owners alone; only
\* those in fresh that it names are told from others.
LEMMA CallGoes ==
  ASSUME RuntimeInv, runtimeCall' \in RuntimeCalls, fresh' \subseteq Containers,
         requests' \subseteq Containers,
         UNCHANGED <<Runtime!images, containers, owner>>,
         runtimeCall'.at \in Installing => runtimeCall'.name \in RuntimeNames /\
           owner[runtimeCall'.name] = -1,
         runtimeCall'.at # "create", runtimeCall'.at = "poll" => runtimeCall'.id \in Containers,
         runtimeCall'.at = "idle" /\ runtimeCall'.ans = "started" /\ runtimeCall'.id \in fresh' =>
           containers[runtimeCall'.id].ran # Runtime!NoImage
  PROVE  RuntimeInv'
BY DEF RuntimeInv, RuntimeTyped, CallKnows, Owns, RanOK, Runtime!images, Runtime!At

\* A start or an install begins, or a container is polled.
LEMMA RuntimeCallsKeep ==
  ASSUME RuntimeOK, RuntimeInv,
         \/ \E n \in RuntimeNames : Runtime!Start(n) \/ \E b \in Binaries : Runtime!Install(n, b)
         \/ Runtime!Poll
  PROVE  RuntimeInv'
<1>0. /\ runtimeCall \in RuntimeCalls /\ owner \in [RuntimeNames -> Containers \cup {-1}]
      /\ requests \subseteq Containers /\ fresh \subseteq Containers
  BY DEF RuntimeInv, RuntimeTyped
<1>1. ASSUME NEW n \in RuntimeNames, NEW b \in Binaries, Runtime!Install(n, b) PROVE RuntimeInv'
  <2>1. /\ runtimeCall' = [Runtime!Idle EXCEPT !.at = "save", !.name = n, !.bin = b] /\
             owner[n] = -1
        /\ UNCHANGED <<Runtime!images, Runtime!ocre, owner>>
    BY <1>1 DEF Runtime!Install
  <2>2. runtimeCall' \in RuntimeCalls /\ runtimeCall'.at = "save" /\ runtimeCall'.name = n
    BY <2>1 DEF Runtime!Idle, RuntimeCalls, RuntimeOK, Image, Installing, Runtime!NoImage
  <2> QED
    BY <1>0, <2>1, <2>2, CallGoes DEF Runtime!ocre
<1>2. ASSUME NEW n \in RuntimeNames, Runtime!Start(n) PROVE RuntimeInv'
  <2>1. /\ owner[n] \in Containers /\ UNCHANGED <<Runtime!images, containers, owner>>
    BY <1>0, <1>2 DEF Runtime!Start
  <2>2. CASE Runtime!Returns("error") /\ UNCHANGED <<requests, fresh>>
    <3>1. runtimeCall' \in RuntimeCalls /\ runtimeCall'.at = "idle" /\ runtimeCall'.ans = "error"
      BY <1>0, <2>2 DEF Runtime!Returns, RuntimeCalls
    <3> QED
      BY <1>0, <2>1, <2>2, <3>1, CallGoes DEF Installing
  <2>3. CASE /\ runtimeCall' = [Runtime!Idle EXCEPT !.at = "poll", !.name = n, !.id = owner[n]]
             /\ requests' = requests \cup {owner[n]} /\ fresh' \in {fresh, fresh \ {owner[n]}}
    <3>1. runtimeCall' \in RuntimeCalls /\ runtimeCall'.at = "poll" /\ runtimeCall'.id = owner[n]
      BY <2>1, <2>3, NoImageIsOne DEF Runtime!Idle, RuntimeCalls
    <3>2. requests' \subseteq Containers /\ fresh' \subseteq Containers
      BY <1>0, <2>1, <2>3
    <3> QED
      BY <2>1, <3>1, <3>2, CallGoes DEF Installing
  <2> QED
    BY <1>2, <2>2, <2>3 DEF Runtime!Start
<1>3. CASE Runtime!Poll
  <2>1. /\ Runtime!At("poll") /\ UNCHANGED <<Runtime!images, Runtime!ocre, owner>> /\
             runtimeCall.id \in Containers
    BY <1>3 DEF Runtime!Poll, RuntimeInv, CallKnows
  <2>2. CASE Runtime!Started(containers[runtimeCall.id].status) /\ Runtime!Returns("started")
    <3>1. runtimeCall' \in RuntimeCalls /\ runtimeCall'.at = "idle" /\
            runtimeCall'.id = runtimeCall.id
      BY <1>0, <2>2 DEF Runtime!Returns, RuntimeCalls
    <3>2. containers[runtimeCall.id].ran # Runtime!NoImage
      BY <2>1, <2>2 DEF RuntimeInv, RanOK, Runtime!Started
    <3> QED
      BY <1>0, <2>1, <3>1, <3>2, CallGoes DEF Installing, Runtime!ocre
  <2>3. CASE Runtime!Returns("error")
    <3>1. runtimeCall' \in RuntimeCalls /\ runtimeCall'.at = "idle" /\ runtimeCall'.ans = "error"
      BY <1>0, <2>3 DEF Runtime!Returns, RuntimeCalls
    <3> QED
      BY <1>0, <2>1, <3>1, CallGoes DEF Installing, Runtime!ocre
  <2>4. CASE runtimeCall' = [runtimeCall EXCEPT !.polls = @ + 1]
    <3>1. runtimeCall' \in RuntimeCalls /\ runtimeCall'.at = "poll" /\
            runtimeCall'.id = runtimeCall.id
      BY <1>0, <2>1, <2>4 DEF Runtime!At, RuntimeCalls
    <3> QED
      BY <1>0, <2>1, <3>1, CallGoes DEF Installing, Runtime!ocre
  <2> QED
    BY <1>3, <2>2, <2>3, <2>4 DEF Runtime!Poll
<1> QED
  BY <1>1, <1>2, <1>3

\* One container changes, and is still who it was.
LEMMA ContainerChanges ==
  ASSUME RuntimeInv, NEW k \in Containers, NEW c \in Container,
         containers' = [containers EXCEPT ![k] = c],
         UNCHANGED <<Runtime!images, fresh, owner, runtimeCall>>, requests' \subseteq requests,
         c.name = containers[k].name, c.bin = containers[k].bin, containers[k] # Runtime!Free,
         c.status # "UNKNOWN",
         c.status \in {"RUNNING", "STOPPED"} => c.ran # Runtime!NoImage,
         containers[k].ran # Runtime!NoImage => c.ran # Runtime!NoImage,
         \A n \in RuntimeNames : owner[n] = k /\ n \notin cut /\ c.status = "RUNNING" =>
           Runtime!IsPrefix(c.bin, c.ran)
  PROVE  RuntimeInv'
<1>1. /\ containers' \in [Containers -> Container] /\ containers'[k] = c
      /\ \A j \in Containers \ {k} : containers'[j] = containers[j]
  BY DEF RuntimeInv, RuntimeTyped
<1>2. RuntimeTyped'
  BY <1>1 DEF RuntimeInv, RuntimeTyped, Runtime!images
<1>3. CallKnows'
  BY <1>1 DEF RuntimeInv, RuntimeTyped, CallKnows, Runtime!At, Runtime!images
<1>4. ASSUME NEW n \in RuntimeNames PROVE Owns(n)'
  <2>1. owner[n] \in Containers \cup {-1} /\ UNCHANGED <<runtimeDisk, cut, owner>>
    BY DEF RuntimeInv, RuntimeTyped, Runtime!images
  <2>2. CASE owner[n] = k
    BY <1>1, <2>1, <2>2 DEF RuntimeInv, Owns
  <2>3. CASE owner[n] # k
    BY <1>1, <2>1, <2>3 DEF RuntimeInv, Owns
  <2> QED
    BY <2>2, <2>3
<1>5. ASSUME NEW j \in Containers PROVE RanOK(j)'
  BY <1>1 DEF RuntimeInv, RanOK
<1> QED
  BY <1>2, <1>3, <1>4, <1>5 DEF RuntimeInv, Runtime!images

\* OCRE's thread, and a stop.
LEMMA OcreKeeps ==
  ASSUME RuntimeOK, RuntimeInv,
         \/ \E k \in Containers : Runtime!OcreRuns(k) \/ Runtime!OcreEnds(k)
         \/ \E n \in RuntimeNames : Runtime!Stop(n)
  PROVE  RuntimeInv'
<1>0. /\ containers \in [Containers -> Container] /\
           owner \in [RuntimeNames -> Containers \cup {-1}]
      /\ Runtime!Free.status = "UNKNOWN" /\ runtimeDisk \in [RuntimeNames -> Image]
  BY DEF RuntimeInv, RuntimeTyped, Runtime!Free
<1>1. ASSUME NEW k \in Containers, NEW st \in {"STOPPED", "ERROR"},
             containers[k].status = "RUNNING",
             containers' = [containers EXCEPT ![k].status = st],
             UNCHANGED <<Runtime!images, requests, fresh, owner, runtimeCall>>
      PROVE  RuntimeInv'
  <2> DEFINE c == [containers[k] EXCEPT !.status = st]
  <2>1. /\ c \in Container /\ c.name = containers[k].name /\ c.bin = containers[k].bin /\
             c.ran = containers[k].ran
        /\ c.status = st
    BY <1>0 DEF Container
  <2>2. containers' = [containers EXCEPT ![k] = c]
    BY <1>1
  <2> HIDE DEF c
  <2>3. containers[k] # Runtime!Free /\ containers[k].ran # Runtime!NoImage
    BY <1>0, <1>1 DEF RuntimeInv, RanOK
  <2> QED
    BY <1>1, <2>1, <2>2, <2>3, ContainerChanges
<1>2. ASSUME UNCHANGED <<Runtime!images, containers, fresh, owner, runtimeCall>>,
             requests' \subseteq requests
      PROVE  RuntimeInv'
  BY <1>2 DEF RuntimeInv, RuntimeTyped, CallKnows, Owns, RanOK, Runtime!images, Runtime!At
<1>3. ASSUME NEW k \in Containers, Runtime!OcreRuns(k) PROVE RuntimeInv'
  <2>1. requests' \subseteq requests /\ UNCHANGED <<Runtime!images, fresh, owner, runtimeCall>> /\
          containers[k] \in Container
    BY <1>0, <1>3 DEF Runtime!OcreRuns
  <2>2. CASE UNCHANGED containers
    BY <1>2, <2>1, <2>2
  <2>3. CASE /\ containers[k] # Runtime!Free /\ runtimeDisk[containers[k].name] # Runtime!NoImage
             /\ containers' = [containers EXCEPT ![k] = [containers[k] EXCEPT !.status = "RUNNING",
                                                          !.ran = runtimeDisk[containers[k].name]]]
    <3>1. PICK image \in Image : image = runtimeDisk[containers[k].name] /\ image # Runtime!NoImage
      BY <1>0, <2>3 DEF RuntimeInv, RanOK
    <3> DEFINE c == [containers[k] EXCEPT !.status = "RUNNING", !.ran = image]
    <3>2. /\ c \in Container /\ c.name = containers[k].name /\ c.bin = containers[k].bin /\
               c.ran = image
          /\ c.status = "RUNNING"
      BY <2>1 DEF Container
    <3>3. containers' = [containers EXCEPT ![k] = c]
      BY <2>3, <3>1
    <3> HIDE DEF c
    <3>4. \A n \in RuntimeNames : owner[n] = k /\ n \notin cut => Runtime!IsPrefix(c.bin, c.ran)
      <4> SUFFICES ASSUME NEW n \in RuntimeNames, owner[n] = k, n \notin cut
                          PROVE Runtime!IsPrefix(c.bin, c.ran)
        OBVIOUS
      <4>1. k # -1
        BY DEF RuntimeOK
      <4>2. containers[k].name = n /\ Runtime!IsPrefix(containers[k].bin, runtimeDisk[n])
        BY <4>1 DEF RuntimeInv, Owns
      <4> QED
        BY <3>1, <3>2, <4>2
    <3> QED
      BY <2>1, <2>3, <3>1, <3>2, <3>3, <3>4, ContainerChanges
  <2>4. CASE /\ containers[k] # Runtime!Free
             /\ \E st \in {"ERROR", containers[k].status} : containers' = [containers EXCEPT ![k].status = st]
    <3>1. PICK st \in {"ERROR", containers[k].status} : containers' = [containers EXCEPT ![k].status = st]
      BY <2>4
    <3>2. CASE st = containers[k].status
      <4>1. containers' = containers
        BY <1>0, <3>1, <3>2 DEF Container
      <4> QED
        BY <1>2, <2>1, <4>1
    <3>3. CASE st = "ERROR"
      <4> DEFINE c == [containers[k] EXCEPT !.status = "ERROR"]
      <4>1. /\ c \in Container /\ c.name = containers[k].name /\ c.bin = containers[k].bin /\
                 c.ran = containers[k].ran
            /\ c.status = "ERROR"
        BY <2>1 DEF Container
      <4>2. containers' = [containers EXCEPT ![k] = c]
        BY <3>1, <3>3
      <4> HIDE DEF c
      <4> QED
        BY <2>1, <2>4, <4>1, <4>2, ContainerChanges
    <3> QED
      BY <3>1, <3>2, <3>3
  <2> QED
    BY <1>3, <2>2, <2>3, <2>4 DEF Runtime!OcreRuns
<1>4. ASSUME NEW k \in Containers, Runtime!OcreEnds(k) PROVE RuntimeInv'
  BY <1>1, <1>4 DEF Runtime!OcreEnds
<1>5. ASSUME NEW n \in RuntimeNames, Runtime!Stop(n) PROVE RuntimeInv'
  <2>1. /\ owner[n] \in Containers /\ containers[owner[n]].status = "RUNNING"
        /\ UNCHANGED <<Runtime!images, requests, fresh, owner, runtimeCall>>
        /\ containers' = [containers EXCEPT ![owner[n]].status = "STOPPED"] \/ UNCHANGED containers
    BY <1>0, <1>5 DEF Runtime!Stop
  <2> QED
    BY <1>1, <1>2, <2>1
<1> QED
  BY <1>3, <1>4, <1>5

\* An app gives its container up.
LEMMA ContainerLeft ==
  ASSUME RuntimeOK, RuntimeInv, NEW n \in RuntimeNames, owner' = [owner EXCEPT ![n] = -1],
         Runtime!At("idle"),
         UNCHANGED <<requests, runtimeCall, cut>>, Runtime!Destroyed(owner[n]) \/
           Runtime!DestroyFails(owner[n]),
         runtimeDisk' \in [RuntimeNames -> Image],
         \A m \in RuntimeNames \ {n} : runtimeDisk'[m] = runtimeDisk[m],
         \A m \in RuntimeNames \ (installed' \cup stuck') : runtimeDisk'[m] = Runtime!NoImage
  PROVE  RuntimeInv'
<1>0. /\ containers \in [Containers -> Container] /\
           owner \in [RuntimeNames -> Containers \cup {-1}]
      /\ Runtime!Free \in Container /\ Runtime!Free.status = "UNKNOWN" /\ fresh \subseteq Containers
  BY DEF RuntimeInv, RuntimeTyped, Runtime!Free, Container, Image, Runtime!NoImage
<1>1. /\ owner' \in [RuntimeNames -> Containers \cup {-1}] /\ owner'[n] = -1
      /\ \A m \in RuntimeNames \ {n} : owner'[m] = owner[m]
  BY <1>0
<1>2. CASE UNCHANGED <<containers, fresh>>
  <2>1. RuntimeTyped'
    BY <1>1, <1>2 DEF RuntimeInv, RuntimeTyped
  <2>2. CallKnows'
    BY <1>2 DEF RuntimeInv, CallKnows, Runtime!At, Installing
  <2>3. ASSUME NEW m \in RuntimeNames PROVE Owns(m)'
    BY <1>1, <1>2 DEF RuntimeInv, Owns
  <2>4. ASSUME NEW k \in Containers PROVE RanOK(k)'
    BY <1>2 DEF RuntimeInv, RanOK
  <2> QED
    BY <2>1, <2>2, <2>3, <2>4 DEF RuntimeInv
<1>3. CASE owner[n] # -1 /\ containers' = [containers EXCEPT ![owner[n]] = Runtime!Free] /\
             fresh' = fresh \ {owner[n]}
  <2>0. PICK k \in Containers : k = owner[n]
    BY <1>0, <1>3
  <2>1. /\ containers' \in [Containers -> Container] /\ containers'[k] = Runtime!Free
        /\ \A j \in Containers \ {k} : containers'[j] = containers[j]
    BY <1>0, <1>3, <2>0
  <2>2. RuntimeTyped'
    BY <1>0, <1>1, <1>3, <2>1 DEF RuntimeInv, RuntimeTyped
  <2>3. CallKnows'
    BY <1>0, <1>3, <2>0, <2>1 DEF RuntimeInv, CallKnows, Runtime!At, Installing
  <2>4. ASSUME NEW m \in RuntimeNames PROVE Owns(m)'
    <3>1. CASE m = n
      BY <1>1, <3>1 DEF Owns
    <3>2. CASE m # n
      <4>1. owner[m] # -1 => owner[m] # k /\ owner[m] \in Containers
        BY <1>0, <1>3, <2>0, <3>2 DEF RuntimeInv, Owns
      <4> QED
        BY <1>1, <2>1, <3>2, <4>1 DEF RuntimeInv, Owns
    <3> QED
      BY <3>1, <3>2
  <2>5. ASSUME NEW j \in Containers PROVE RanOK(j)'
    BY <1>0, <2>1 DEF RuntimeInv, RanOK
  <2> QED
    BY <2>2, <2>3, <2>4, <2>5 DEF RuntimeInv
<1> QED
  BY <1>2, <1>3 DEF Runtime!Destroyed, Runtime!DestroyFails

\* What a delete leaves.
LEMMA ImageDeleted ==
  ASSUME RuntimeInv, NEW n \in RuntimeNames, Runtime!DeleteBinary(n)
  PROVE  /\ runtimeDisk' \in [RuntimeNames -> Image] /\
              \A m \in RuntimeNames \ {n} : runtimeDisk'[m] = runtimeDisk[m]
         /\ \A m \in RuntimeNames \ (installed' \cup stuck') : runtimeDisk'[m] = Runtime!NoImage
         /\ cut' = cut
<1>1. /\ runtimeDisk \in [RuntimeNames -> Image] /\ installed' = installed \ {n} /\ UNCHANGED cut
      /\ \A m \in RuntimeNames \ (installed \cup stuck) : runtimeDisk[m] = Runtime!NoImage
  BY DEF RuntimeInv, RuntimeTyped, Runtime!DeleteBinary
<1>2. CASE runtimeDisk' = [runtimeDisk EXCEPT ![n] = Runtime!NoImage] /\ UNCHANGED stuck
  BY <1>1, <1>2, NoImageIsOne
<1>3. CASE runtimeDisk[n] = Runtime!NoImage /\ UNCHANGED <<runtimeDisk, stuck>>
  BY <1>1, <1>3
<1>4. CASE stuck' = stuck \cup {n} /\ UNCHANGED runtimeDisk
  BY <1>1, <1>4
<1> QED
  BY <1>2, <1>3, <1>4 DEF Runtime!DeleteBinary, Runtime!Deleted

\* An app is destroyed or uninstalled.
LEMMA AppsLeave ==
  ASSUME RuntimeOK, RuntimeInv, NEW n \in RuntimeNames, Runtime!Destroy(n) \/ Runtime!Uninstall(n)
  PROVE  RuntimeInv'
<1>1. CASE Runtime!Destroy(n)
  BY <1>1, ContainerLeft DEF Runtime!Destroy, Runtime!images, RuntimeInv, RuntimeTyped
<1>2. CASE Runtime!Uninstall(n)
  BY <1>2, ImageDeleted, ContainerLeft DEF Runtime!Uninstall
<1> QED
  BY <1>1, <1>2

\* A container is created for the app that is being installed, or its image goes.
LEMMA ContainerCreated == ASSUME RuntimeOK, RuntimeInv, Runtime!CreateContainer \/
                                   Runtime!CreateFails PROVE RuntimeInv'
<1>0. /\ containers \in [Containers -> Container] /\
           owner \in [RuntimeNames -> Containers \cup {-1}]
      /\ fresh \subseteq Containers /\ Runtime!At("create") /\ runtimeCall \in RuntimeCalls
  BY DEF Runtime!CreateContainer, Runtime!CreateFails, RuntimeInv, RuntimeTyped
<1>1. PICK n \in RuntimeNames : n = runtimeCall.name /\ owner[n] = -1 /\
        (n \notin cut => Runtime!IsPrefix(runtimeCall.bin, runtimeDisk[n]))
  BY <1>0 DEF RuntimeInv, CallKnows, Installing, Runtime!At
<1>2. CASE Runtime!CreateContainer
  <2>1. PICK k \in Runtime!Unused : k = CHOOSE x \in Runtime!Unused : \A y \in Runtime!Unused : x <= y
    <3>1. Runtime!Unused \in SUBSET Nat /\ Runtime!Unused # {}
      BY <1>2 DEF Runtime!CreateContainer, RuntimeOK, Runtime!Unused
    <3> QED
      BY <3>1, Least
  <2> DEFINE c == [Runtime!Free EXCEPT !.name = n, !.bin = runtimeCall.bin, !.status = "CREATED"]
  <2>2. /\ containers' = [containers EXCEPT ![k] = c] /\ owner' = [owner EXCEPT ![n] = k]
        /\ fresh' = fresh \cup {k} /\ Runtime!Returns("created") /\
             UNCHANGED <<Runtime!images, requests>>
    BY <1>1, <1>2, <2>1 DEF Runtime!CreateContainer
  <2>3. c \in Container /\ c.name = n /\ c.bin = runtimeCall.bin /\ c.status = "CREATED"
    BY <1>0, NoImageIsOne DEF Runtime!Free, Container, RuntimeCalls
  <2> HIDE DEF c
  <2>4. k \in Containers /\ k # -1 /\ containers[k] = Runtime!Free
    <3>1. k \in Containers /\ containers[k] = Runtime!Free
      BY DEF Runtime!Unused
    <3> QED
      BY <3>1 DEF RuntimeOK
  <2>5. /\ containers' \in [Containers -> Container] /\ containers'[k] = c
        /\ \A j \in Containers \ {k} : containers'[j] = containers[j]
        /\ owner' \in [RuntimeNames -> Containers \cup {-1}] /\ owner'[n] = k
        /\ \A m \in RuntimeNames \ {n} : owner'[m] = owner[m]
    BY <1>0, <2>2, <2>3, <2>4
  <2>6. runtimeCall' \in RuntimeCalls /\ runtimeCall'.at = "idle" /\ runtimeCall'.ans = "created"
    BY <1>0, <2>2 DEF Runtime!Returns, RuntimeCalls
  <2>7. RuntimeTyped'
    BY <1>0, <2>2, <2>4, <2>5, <2>6 DEF RuntimeInv, RuntimeTyped, Runtime!images
  <2>8. CallKnows'
    BY <2>6 DEF CallKnows, Runtime!At, Installing
  <2>9. ASSUME NEW m \in RuntimeNames PROVE Owns(m)'
    <3>1. CASE m = n
      BY <1>1, <2>2, <2>3, <2>4, <2>5, <3>1 DEF Owns, Runtime!images
    <3>2. CASE m # n
      <4>1. owner[m] # -1 => owner[m] # k /\ owner[m] \in Containers
        BY <1>0, <2>4, <3>2 DEF RuntimeInv, Owns, Runtime!Free
      <4> QED
        BY <2>2, <2>5, <3>2, <4>1 DEF RuntimeInv, Owns, Runtime!images
    <3> QED
      BY <3>1, <3>2
  <2>10. ASSUME NEW j \in Containers PROVE RanOK(j)'
    BY <2>3, <2>5 DEF RuntimeInv, RanOK
  <2> QED
    BY <2>2, <2>7, <2>8, <2>9, <2>10 DEF RuntimeInv, Runtime!images
<1>3. CASE Runtime!CreateFails
  <2>1. /\ runtimeDisk' \in [RuntimeNames -> Image] /\
             \A m \in RuntimeNames \ {n} : runtimeDisk'[m] = runtimeDisk[m]
        /\ \A m \in RuntimeNames \ (installed' \cup stuck') : runtimeDisk'[m] = Runtime!NoImage
        /\ cut' = cut /\ UNCHANGED <<Runtime!ocre, owner>> /\ Runtime!Returns("error")
    BY <1>1, <1>3, ImageDeleted DEF Runtime!CreateFails
  <2>2. runtimeCall' \in RuntimeCalls /\ runtimeCall'.at = "idle" /\ runtimeCall'.ans = "error"
    BY <1>0, <2>1 DEF Runtime!Returns, RuntimeCalls
  <2>3. RuntimeTyped' /\ CallKnows'
    BY <2>1, <2>2 DEF RuntimeInv, RuntimeTyped, CallKnows, Runtime!ocre, Runtime!At, Installing
  <2>4. ASSUME NEW m \in RuntimeNames PROVE Owns(m)'
    BY <1>1, <2>1 DEF RuntimeInv, Owns, Runtime!ocre
  <2>5. ASSUME NEW j \in Containers PROVE RanOK(j)'
    BY <2>1 DEF RuntimeInv, RanOK, Runtime!ocre
  <2> QED
    BY <2>1, <2>3, <2>4, <2>5 DEF RuntimeInv
<1> QED
  BY <1>2, <1>3

\* A container runs what its app was installed from.
THEOREM ImagesAreRun == ASSUME RuntimeOK PROVE Runtime!Spec => []Runtime!RuntimeSound
<1>1. Runtime!Init => RuntimeInv
  <2> SUFFICES ASSUME Runtime!Init PROVE RuntimeInv
    OBVIOUS
  <2>1. Runtime!Free \in Container /\ Runtime!Free.status = "UNKNOWN" /\
          Runtime!Idle \in RuntimeCalls /\ Runtime!Idle.at = "idle" /\ Runtime!Idle.ans = "none"
    BY DEF Runtime!Free, Container, Runtime!Idle, RuntimeCalls, Image, Runtime!NoImage
  <2> QED
    BY <2>1 DEF Runtime!Init, RuntimeInv, RuntimeTyped, CallKnows, Owns, RanOK, Image,
       Runtime!NoImage, Runtime!At, Installing
<1>2. RuntimeInv /\ [Runtime!Next]_(Runtime!vars) => RuntimeInv'
  <2> SUFFICES ASSUME RuntimeInv, [Runtime!Next]_(Runtime!vars) PROVE RuntimeInv'
    OBVIOUS
  <2>1. CASE UNCHANGED Runtime!vars
    BY <2>1 DEF Runtime!vars, Runtime!images, Runtime!ocre, RuntimeInv, RuntimeTyped, CallKnows,
       Owns, RanOK, Runtime!At
  <2>2. CASE Runtime!Next
    <3>1. CASE \E n \in RuntimeNames : Runtime!Start(n) \/ \E b \in Binaries : Runtime!Install(n, b)
      BY <3>1, RuntimeCallsKeep
    <3>2. CASE \E n \in RuntimeNames : Runtime!Stop(n)
      BY <3>2, OcreKeeps
    <3>3. CASE \E n \in RuntimeNames : Runtime!Destroy(n) \/ Runtime!Uninstall(n)
      BY <3>3, AppsLeave
    <3>4. CASE Runtime!SaveBinary \/ Runtime!Fallback
      BY <3>4, ImageSaved
    <3>5. CASE Runtime!CreateContainer \/ Runtime!CreateFails
      BY <3>5, ContainerCreated
    <3>6. CASE Runtime!Poll
      BY <3>6, RuntimeCallsKeep
    <3>7. CASE \E k \in Containers : Runtime!OcreRuns(k) \/ Runtime!OcreEnds(k)
      BY <3>7, OcreKeeps
    <3> QED
      BY <2>2, <3>1, <3>2, <3>3, <3>4, <3>5, <3>6, <3>7 DEF Runtime!Next
  <2> QED
    BY <2>1, <2>2
<1>3. RuntimeInv => Runtime!RuntimeSound
  BY DEF RuntimeInv, Owns, CallKnows, Runtime!RuntimeSound
<1> QED
  BY <1>1, <1>2, <1>3, PTL DEF Runtime!Spec

-----------------------------------------------------------------------------
(* The files of apps, and what is proved of it.                             *)

Storage == INSTANCE AppStorage WITH
  Threads <- Callers, Names <- StorageNames,
  files <- storageFiles, call <- storageCall, faults <- storageFaults

StorageOK == "" \notin StorageNames \cup Refused /\ Datas \subseteq Seq(Nat) /\ MaxList \in Nat

Contents == {<<>>} \cup {<<c>> : c \in Seq(Nat)}
StorageCalls ==
  [at : {"idle", "open", "write", "read", "done", "list", "listed"},
  name : StorageNames \cup Refused \cup {""},
   data : Seq(Nat), names : Seq(StorageNames), disturbed : BOOLEAN, there : SUBSET StorageNames]
StorageTyped ==
  /\ dir \in BOOLEAN /\ storageFiles \in [StorageNames -> Contents] /\
       last \in [StorageNames -> Contents]
  /\ storageCall \in [Callers -> StorageCalls]

\* A write that nothing came into is the only one, to a file that it emptied; what
\* it wrote is not known before it ends.
WriterAlone(t) ==
  Storage!At(t, "write") =>
            /\ storageCall[t].name \in StorageNames /\ last[storageCall[t].name] = <<>>
            /\ ~storageCall[t].disturbed =>
                 /\ storageFiles[storageCall[t].name] = << <<>> >>
                 /\ \A u \in Callers \ {t} : ~(Storage!At(u, "write") /\
                      storageCall[u].name = storageCall[t].name)

\* A read that nothing came into has what is there.
ReaderSees(t) ==
  Storage!At(t, "read") \/ Storage!At(t, "done") =>
            /\ storageCall[t].name \in StorageNames
            /\ Storage!At(t, "done") /\ ~storageCall[t].disturbed =>
                         storageCall[t].data = IF storageFiles[storageCall[t].name] = <<>>
                           THEN <<>> ELSE storageFiles[storageCall[t].name][1]

\* A list has no name twice and, when it is over, all that were there throughout.
ListerSees(t) ==
  /\ Storage!At(t, "list") \/ Storage!At(t, "listed") => storageCall[t].name = "" /\
       Storage!IsInjective(storageCall[t].names)
  /\ Storage!At(t, "list") => \A n \in storageCall[t].there : storageFiles[n] # <<>>
  /\ Storage!At(t, "listed") /\ Len(storageCall[t].names) < MaxList =>
       storageCall[t].there \subseteq Storage!ToSet(storageCall[t].names)

StorageInv ==
  /\ StorageTyped
  /\ \A n \in StorageNames : last[n] # <<>> => storageFiles[n] = last[n]
  /\ \A t \in Callers : WriterAlone(t) /\ ReaderSees(t) /\ ListerSees(t)

\* What is written over nothing is what there is.
LEMMA Overwrites ==
  ASSUME NEW s \in Seq(Nat), NEW d \in Seq(Nat)
  PROVE  Storage!Over(s, d) \in Seq(Nat) /\ (s = <<>> => Storage!Over(s, d) = d)
<1> DEFINE r == SubSeq(s, Len(d) + 1, Len(s))
<1>1. Len(s) \in Nat /\ Len(d) \in Nat /\ \A i \in Len(d) + 1 .. Len(s) : s[i] \in Nat
  BY ElementOfSeq
<1>2. r \in Seq(Nat) /\ Len(r) = IF Len(d) + 1 <= Len(s) THEN Len(s) - (Len(d) + 1) + 1 ELSE 0
  BY <1>1, SubSeqProperties
<1>3. Storage!Over(s, d) = d \o r
  BY DEF Storage!Over
<1>4. ASSUME s = <<>> PROVE r = <<>>
  <2>1. Len(r) = 0
    BY <1>1, <1>2, <1>4, EmptySeq
  <2> HIDE DEF r
  <2> QED
    BY <1>2, <2>1, EmptySeq
<1> HIDE DEF r
<1>5. d \o r \in Seq(Nat) /\ (r = <<>> => d \o r = d)
  BY <1>2, ConcatProperties, ConcatEmptySeq
<1> QED
  BY <1>3, <1>4, <1>5

\* A prefix of what is written.
LEMMA CutData ==
  ASSUME NEW s \in Seq(Nat), NEW k \in 0 .. Len(s) PROVE SubSeq(s, 1, k) \in Seq(Nat)
<1>1. Len(s) \in Nat /\ k \in Nat /\ \A i \in 1 .. k : s[i] \in Nat
  BY ElementOfSeq
<1> QED
  BY <1>1, SubSeqProperties

\* A call under way on a file that something happens to, in all of the fields that
\* matter: the list of a directory loses what is no longer there all the time.
LEMMA Disturbed ==
  ASSUME StorageOK, storageCall \in [Callers -> StorageCalls], NEW t \in Callers,
         NEW n \in StorageNames, NEW c \in StorageCalls,
         Storage!Disturbs(t, n, c)
  PROVE  /\ storageCall' \in [Callers -> StorageCalls] /\ storageCall'[t] = c
         /\ \A u \in Callers \ {t} :
              /\ storageCall'[u].at = storageCall[u].at /\
                   storageCall'[u].name = storageCall[u].name
              /\ storageCall'[u].data = storageCall[u].data /\
                   storageCall'[u].names = storageCall[u].names
              /\ storageCall[u].name = n => storageCall'[u].disturbed
              /\ storageCall[u].name # n => storageCall'[u].disturbed = storageCall[u].disturbed
              /\ Storage!At(u, "list") /\ storageCall[u].name = "" =>
                   storageCall'[u].there = storageCall[u].there \ {n}
              /\ storageCall'[u].there \subseteq storageCall[u].there
<1>1. \A u \in Callers : storageCall[u] \in StorageCalls
  OBVIOUS
<1>2. storageCall' = [u \in Callers |->
                   IF u = t THEN c
                   ELSE IF storageCall[u].name = n THEN [storageCall[u] EXCEPT !.disturbed = TRUE]
                   ELSE IF Storage!At(u, "list") THEN [storageCall[u] EXCEPT !.there = @ \ {n}]
                   ELSE storageCall[u]]
  BY DEF Storage!Disturbs
<1>3. storageCall'[t] = c
  BY <1>2
<1>4. ASSUME NEW u \in Callers \ {t}
      PROVE  /\ storageCall'[u] \in StorageCalls
             /\ storageCall'[u].at = storageCall[u].at /\ storageCall'[u].name = storageCall[u].name
             /\ storageCall'[u].data = storageCall[u].data /\
                  storageCall'[u].names = storageCall[u].names
             /\ storageCall[u].name = n => storageCall'[u].disturbed
             /\ storageCall[u].name # n => storageCall'[u].disturbed = storageCall[u].disturbed
             /\ Storage!At(u, "list") /\ storageCall[u].name = "" =>
                  storageCall'[u].there = storageCall[u].there \ {n}
             /\ storageCall'[u].there \subseteq storageCall[u].there
  <2>1. CASE storageCall[u].name = n
    <3>1. storageCall'[u] = [storageCall[u] EXCEPT !.disturbed = TRUE] /\ storageCall[u].name # ""
      BY <1>2, <2>1 DEF StorageOK
    <3> QED
      BY <1>1, <2>1, <3>1 DEF StorageCalls
  <2>2. CASE storageCall[u].name # n /\ Storage!At(u, "list")
    <3> DEFINE r == storageCall[u].there \ {n}
    <3>1. storageCall'[u] = [storageCall[u] EXCEPT !.there = r]
      BY <1>2, <2>2
    <3>2. r \in SUBSET StorageNames /\ r \subseteq storageCall[u].there
      BY <1>1 DEF StorageCalls
    <3>3. r = storageCall[u].there \ {n}
      OBVIOUS
    <3> HIDE DEF r
    <3>4. storageCall'[u] \in StorageCalls /\ storageCall'[u].there = r
      BY <1>1, <3>1, <3>2 DEF StorageCalls
    <3>5. /\ storageCall'[u].at = storageCall[u].at /\ storageCall'[u].name = storageCall[u].name
          /\ storageCall'[u].data = storageCall[u].data /\
               storageCall'[u].names = storageCall[u].names
          /\ storageCall'[u].disturbed = storageCall[u].disturbed
      BY <1>1, <3>1 DEF StorageCalls
    <3> QED
      BY <2>2, <3>2, <3>3, <3>4, <3>5
  <2>3. CASE storageCall[u].name # n /\ ~Storage!At(u, "list")
    <3>1. storageCall'[u] = storageCall[u]
      BY <1>2, <2>3
    <3> QED
      BY <1>1, <2>3, <3>1 DEF StorageCalls
  <2> QED
    BY <2>1, <2>2, <2>3
<1>5. storageCall' \in [Callers -> StorageCalls]
  <2>1. \A u \in Callers : storageCall'[u] \in StorageCalls
    BY <1>3, <1>4
  <2> QED
    BY <1>2, <2>1
<1> QED
  BY <1>3, <1>4, <1>5

\* A step of one call that touches no file.
LEMMA StorageOwn ==
  ASSUME StorageInv, NEW t \in Callers, NEW c \in StorageCalls, dir' \in BOOLEAN,
         UNCHANGED <<storageFiles, last>>, storageCall' = [storageCall EXCEPT ![t] = c],
         c.at # "write",
         c.at \in {"read", "done"} => c.name \in StorageNames,
         c.at = "done" /\ ~c.disturbed => c.data = IF storageFiles[c.name] = <<>> THEN <<>>
           ELSE storageFiles[c.name][1],
         c.at \in {"list", "listed"} => c.name = "" /\ Storage!IsInjective(c.names),
         c.at = "list" => \A n \in c.there : storageFiles[n] # <<>>,
         c.at = "listed" /\ Len(c.names) < MaxList => c.there \subseteq Storage!ToSet(c.names)
  PROVE  StorageInv'
<1>1. storageCall \in [Callers -> StorageCalls] /\ StorageTyped
  BY DEF StorageInv, StorageTyped
<1>2. /\ storageCall' \in [Callers -> StorageCalls] /\ storageCall'[t] = c
      /\ \A u \in Callers \ {t} : storageCall'[u] = storageCall[u]
  BY <1>1
<1>3. StorageTyped'
  BY <1>1, <1>2 DEF StorageTyped
<1>4. ASSUME NEW u \in Callers PROVE (WriterAlone(u) /\ ReaderSees(u) /\ ListerSees(u))'
  <2>1. CASE u = t
    BY <1>2, <2>1 DEF WriterAlone, ReaderSees, ListerSees, Storage!At
  <2>2. CASE u # t
    <3>1. WriterAlone(u) /\ ReaderSees(u) /\ ListerSees(u) /\ storageCall'[u] = storageCall[u]
      BY <1>2, <2>2 DEF StorageInv
    <3>2. \A w \in Callers : storageCall'[w].at = "write" => storageCall[w].at = "write" /\
            storageCall'[w].name = storageCall[w].name
      BY <1>2
    <3>3. WriterAlone(u)'
      BY <3>1, <3>2 DEF WriterAlone, Storage!At
    <3> QED
      BY <3>1, <3>3 DEF ReaderSees, ListerSees, Storage!At
  <2> QED
    BY <2>1, <2>2
<1> QED
  BY <1>3, <1>4 DEF StorageInv

\* A step of a call that may disturb those on its file: what it leaves in the file,
\* and that it knows what was written there only if nobody else writes it.
LEMMA StorageFile ==
  ASSUME StorageOK, StorageInv, NEW t \in Callers, NEW n \in StorageNames, NEW c \in StorageCalls,
         NEW f \in Contents, NEW l \in Contents,
         Storage!Disturbs(t, n, c), storageFiles' = [storageFiles EXCEPT ![n] = f],
         last' = [last EXCEPT ![n] = l], UNCHANGED dir,
         l # <<>> => l = f,
         c.at \in {"idle", "write"},
         l # <<>> => \A u \in Callers \ {t} : ~(Storage!At(u, "write") /\ storageCall[u].name = n),
         c.at = "write" => /\ c.name = n /\ l = <<>>
                           /\ ~c.disturbed => /\ f = << <<>> >>
                                              /\ \A u \in Callers \ {t} : ~(Storage!At(u,
                                                 "write") /\ storageCall[u].name = n)
  PROVE  StorageInv'
<1>1. storageCall \in [Callers -> StorageCalls] /\ StorageTyped
  BY DEF StorageInv, StorageTyped
<1>2. /\ storageCall' \in [Callers -> StorageCalls] /\ storageCall'[t] = c
      /\ \A u \in Callers \ {t} :
           /\ storageCall'[u].at = storageCall[u].at /\ storageCall'[u].name = storageCall[u].name
           /\ storageCall'[u].data = storageCall[u].data /\
                storageCall'[u].names = storageCall[u].names
           /\ storageCall[u].name = n => storageCall'[u].disturbed
           /\ storageCall[u].name # n => storageCall'[u].disturbed = storageCall[u].disturbed
           /\ Storage!At(u, "list") /\ storageCall[u].name = "" =>
                storageCall'[u].there = storageCall[u].there \ {n}
           /\ storageCall'[u].there \subseteq storageCall[u].there
  BY <1>1, Disturbed
<1>3. /\ storageFiles' \in [StorageNames -> Contents] /\ last' \in [StorageNames -> Contents]
      /\ storageFiles'[n] = f /\ last'[n] = l
      /\ \A m \in StorageNames \ {n} : storageFiles'[m] = storageFiles[m] /\ last'[m] = last[m]
  BY <1>1 DEF StorageTyped
<1>4. StorageTyped'
  BY <1>1, <1>2, <1>3 DEF StorageTyped
<1>5. \A m \in StorageNames : last'[m] # <<>> => storageFiles'[m] = last'[m]
  BY <1>3 DEF StorageInv
<1>6. ASSUME NEW u \in Callers PROVE WriterAlone(u)'
  <2>1. CASE u = t
    <3>1. \A w \in Callers \ {t} : storageCall'[w].at = storageCall[w].at /\
            storageCall'[w].name = storageCall[w].name
      BY <1>2
    <3> QED
      BY <1>2, <1>3, <2>1, <3>1 DEF WriterAlone, Storage!At
  <2>2. CASE u # t
    <3> SUFFICES ASSUME storageCall'[u].at = "write" PROVE WriterAlone(u)'
      BY DEF WriterAlone, Storage!At
    <3>1. WriterAlone(u) /\ storageCall[u].at = "write" /\
            storageCall'[u].name = storageCall[u].name
      BY <1>2, <2>2 DEF StorageInv
    <3>2. CASE storageCall[u].name = n
      BY <1>2, <1>3, <2>2, <3>1, <3>2 DEF WriterAlone, Storage!At
    <3>3. CASE storageCall[u].name # n
      <4>1. storageCall'[u].disturbed = storageCall[u].disturbed
        BY <1>2, <2>2, <3>3
      <4>2. storageCall[u].name \in StorageNames \ {n}
        BY <3>1, <3>3 DEF WriterAlone, Storage!At
      <4>3. \A w \in Callers : storageCall'[w].at = "write" /\
              storageCall'[w].name = storageCall[u].name =>
              storageCall[w].at = "write" /\ storageCall[w].name = storageCall[u].name
        BY <1>2, <3>3
      <4>4. last'[storageCall[u].name] = last[storageCall[u].name] /\
              storageFiles'[storageCall[u].name] = storageFiles[storageCall[u].name]
        BY <1>3, <4>2
      <4> QED
        BY <3>1, <4>1, <4>2, <4>3, <4>4 DEF WriterAlone, Storage!At
    <3> QED
      BY <3>2, <3>3
  <2> QED
    BY <2>1, <2>2
<1>7. ASSUME NEW u \in Callers PROVE (ReaderSees(u) /\ ListerSees(u))'
  <2>1. CASE u = t
    BY <1>2, <2>1 DEF ReaderSees, ListerSees, Storage!At
  <2>2. CASE u # t
    <3>1. ReaderSees(u) /\ ListerSees(u)
      BY DEF StorageInv
    <3>2. /\ storageCall'[u].at = storageCall[u].at /\ storageCall'[u].name = storageCall[u].name
          /\ storageCall'[u].data = storageCall[u].data /\
               storageCall'[u].names = storageCall[u].names
          /\ storageCall'[u].there \subseteq storageCall[u].there
      BY <1>2, <2>2
    <3>3. ReaderSees(u)'
      <4>1. CASE storageCall[u].name = n
        BY <1>2, <2>2, <3>1, <3>2, <4>1 DEF ReaderSees, Storage!At
      <4>2. CASE storageCall[u].name # n
        BY <1>2, <1>3, <2>2, <3>1, <3>2, <4>2 DEF ReaderSees, Storage!At
      <4> QED
        BY <4>1, <4>2
    <3>4. ASSUME storageCall[u].at = "list"
                 PROVE \A m \in storageCall'[u].there : storageFiles'[m] # <<>>
      <4>1. storageCall'[u].there = storageCall[u].there \ {n} /\
              storageCall[u].there \subseteq StorageNames
        BY <1>1, <1>2, <2>2, <3>1, <3>4 DEF ListerSees, Storage!At, StorageCalls
      <4> QED
        BY <1>3, <3>1, <3>4, <4>1 DEF ListerSees, Storage!At
    <3> QED
      BY <3>1, <3>2, <3>3, <3>4 DEF ListerSees, Storage!At
  <2> QED
    BY <2>1, <2>2
<1> QED
  BY <1>4, <1>5, <1>6, <1>7 DEF StorageInv

\* A call that has no field of note is a call.
LEMMA IdleCall ==
  /\ Storage!Idle \in StorageCalls /\ Storage!Idle.at = "idle"
  /\ \A a \in {"open"}, n \in StorageNames \cup Refused, d \in Seq(Nat) :
       [Storage!Idle EXCEPT !.at = a, !.name = n, !.data = d] \in StorageCalls
  /\ \A n \in StorageNames, b \in BOOLEAN :
       [Storage!Idle EXCEPT !.at = "read", !.name = n, !.disturbed = b] \in StorageCalls
  /\ \A S \in SUBSET StorageNames : [Storage!Idle EXCEPT !.at = "list",
     !.there = S] \in StorageCalls
<1>1. <<>> \in Seq(Nat) /\ <<>> \in Seq(StorageNames)
  BY EmptySeq
<1>2. Storage!Idle \in StorageCalls
  BY <1>1 DEF Storage!Idle, StorageCalls
<1> QED
  BY <1>1, <1>2 DEF Storage!Idle, StorageCalls

\* Writes and deletes keep the invariant.
LEMMA StorageWrites ==
  ASSUME StorageOK, StorageInv, NEW t \in Callers,
         (\E n \in StorageNames \cup Refused, d \in Datas : Storage!Write(t, n, d)) \/
           Storage!WriteRefused(t) \/ Storage!WriteOpen(t) \/ Storage!WriteData(t)
  PROVE  StorageInv'
<1>0. storageCall[t] \in StorageCalls /\ StorageTyped /\ Storage!Idle \in StorageCalls /\
        Storage!Idle.at = "idle"
  BY IdleCall DEF StorageInv, StorageTyped
<1>1. ASSUME NEW n \in StorageNames \cup Refused, NEW d \in Datas, Storage!Write(t, n, d)
             PROVE StorageInv'
  <2> DEFINE c == [Storage!Idle EXCEPT !.at = "open", !.name = n, !.data = d]
  <2>1. storageCall' = [storageCall EXCEPT ![t] = c] /\ UNCHANGED <<storageFiles, last>> /\
          dir' \in BOOLEAN
    BY <1>0, <1>1 DEF Storage!Write, StorageTyped
  <2>2. c \in StorageCalls /\ c.at = "open"
    BY IdleCall DEF StorageOK, Storage!Idle
  <2> HIDE DEF c
  <2> QED
    BY <2>1, <2>2, StorageOwn
<1>2. CASE Storage!WriteRefused(t)
  BY <1>0, <1>2, StorageOwn DEF Storage!WriteRefused, Storage!Ends, StorageTyped
<1>3. CASE Storage!WriteOpen(t)
  <2> DEFINE n == storageCall[t].name
             c == [storageCall[t] EXCEPT !.at = "write", !.disturbed = Storage!Written(t, n)]
  <2>1. /\ n \in StorageNames /\ storageFiles' = [storageFiles EXCEPT ![n] = << <<>> >>] /\
             last' = [last EXCEPT ![n] = <<>>]
        /\ Storage!Disturbs(t, n, c) /\ UNCHANGED dir
    BY <1>3 DEF Storage!WriteOpen, Storage!Truncated
  <2>2. Storage!Written(t, n) \in BOOLEAN
    BY DEF Storage!Written
  <2>3. c \in StorageCalls /\ c.at = "write" /\ c.name = n /\ c.disturbed = Storage!Written(t, n)
    BY <1>0, <2>2 DEF StorageCalls
  <2>4. << <<>> >> \in Contents /\ <<>> \in Contents
    BY EmptySeq DEF Contents
  <2>5. ~Storage!Written(t, n) =>
          \A u \in Callers \ {t} : ~(Storage!At(u, "write") /\ storageCall[u].name = n)
    BY DEF Storage!Written
  <2> HIDE DEF c
  <2> QED
    BY <2>1, <2>3, <2>4, <2>5, StorageFile
<1>4. CASE Storage!WriteData(t)
  <2> DEFINE n == storageCall[t].name
  <2>1. Storage!At(t, "write") /\ WriterAlone(t) /\ n \in StorageNames
    BY <1>4 DEF Storage!WriteData, StorageInv, WriterAlone
  <2>2. PICK k \in 0 .. Len(storageCall[t].data) :
          LET d == SubSeq(storageCall[t].data, 1, k) IN
          /\ storageFiles' = IF storageFiles[n] = <<>> THEN storageFiles
               ELSE [storageFiles EXCEPT ![n] = <<Storage!Over(@[1], d)>>]
          /\ last' = [last EXCEPT ![n] = IF storageCall[t].disturbed THEN <<>> ELSE <<d>>]
          /\ Storage!Disturbs(t, n, Storage!Idle) /\ UNCHANGED dir
    BY <1>4 DEF Storage!WriteData
  <2>3. PICK d \in Seq(Nat) : d = SubSeq(storageCall[t].data, 1, k)
    BY <1>0, CutData DEF StorageCalls
  <2>4. storageFiles \in [StorageNames -> Contents] /\ storageFiles[n] \in Contents
    BY <1>0, <2>1 DEF StorageTyped
  <2> DEFINE f == IF storageFiles[n] = <<>> THEN <<>> ELSE <<Storage!Over(storageFiles[n][1], d)>>
             l == IF storageCall[t].disturbed THEN <<>> ELSE <<d>>
  <2>5. storageFiles' = [storageFiles EXCEPT ![n] = f] /\ last' = [last EXCEPT ![n] = l]
    <3>1. CASE storageFiles[n] = <<>>
      <4>1. [storageFiles EXCEPT ![n] = <<>>] = storageFiles
        BY <2>4, <3>1
      <4>2. storageFiles' = storageFiles
        BY <2>2, <3>1
      <4> QED
        BY <2>2, <2>3, <3>1, <4>1, <4>2
    <3>2. CASE storageFiles[n] # <<>>
      BY <2>2, <2>3, <2>4, <3>2
    <3> QED
      BY <2>2, <2>3, <3>1, <3>2
  <2>6. f \in Contents /\ l \in Contents
    <3>1. storageFiles[n] # <<>> => storageFiles[n][1] \in Seq(Nat)
      BY <2>4 DEF Contents
    <3> QED
      BY <3>1, Overwrites DEF Contents
  <2>7. l # <<>> => /\ ~storageCall[t].disturbed /\ storageFiles[n] = << <<>> >> /\ l = f
                    /\ \A u \in Callers \ {t} : ~(Storage!At(u, "write") /\ storageCall[u].name = n)
    <3> SUFFICES ASSUME l # <<>>
                 PROVE  /\ ~storageCall[t].disturbed /\ storageFiles[n] = << <<>> >> /\ l = f
                        /\ \A u \in Callers \ {t} : ~(Storage!At(u, "write") /\
                             storageCall[u].name = n)
      OBVIOUS
    <3>1. ~storageCall[t].disturbed /\ l = <<d>>
      OBVIOUS
    <3>2. storageFiles[n] = << <<>> >> /\
            \A u \in Callers \ {t} : ~(Storage!At(u, "write") /\ storageCall[u].name = n)
      BY <2>1, <3>1 DEF WriterAlone
    <3>3. storageFiles[n][1] = <<>> /\ storageFiles[n] # <<>>
      BY <3>2
    <3>4. Storage!Over(<<>>, d) = d
      BY EmptySeq, Overwrites
    <3> QED
      BY <3>1, <3>2, <3>3, <3>4
  <2> HIDE DEF f, l
  <2> QED
    BY <1>0, <2>1, <2>2, <2>5, <2>6, <2>7, StorageFile
<1> QED
  BY <1>1, <1>2, <1>3, <1>4

\* Deletes, reads and their answers keep the invariant.
LEMMA StorageReads ==
  ASSUME StorageOK, StorageInv, NEW t \in Callers,
         (\E n \in StorageNames : Storage!Delete(t, n) \/ Storage!Read(t, n)) \/
           Storage!ReadData(t) \/ Storage!Return(t)
  PROVE  StorageInv'
<1>0. storageCall[t] \in StorageCalls /\ StorageTyped /\ Storage!Idle \in StorageCalls /\
        Storage!Idle.at = "idle"
  BY IdleCall DEF StorageInv, StorageTyped
<1>1. ASSUME NEW n \in StorageNames, Storage!Delete(t, n) PROVE StorageInv'
  BY <1>0, <1>1, StorageFile DEF Storage!Delete, Contents
<1>2. ASSUME NEW n \in StorageNames, Storage!Read(t, n) PROVE StorageInv'
  <2> DEFINE c == [Storage!Idle EXCEPT !.at = "read", !.name = n,
      !.disturbed = Storage!Written(t, n)]
  <2>1. storageCall' = [storageCall EXCEPT ![t] = c] /\ UNCHANGED <<dir, storageFiles, last>>
    BY <1>2 DEF Storage!Read
  <2>2. Storage!Written(t, n) \in BOOLEAN
    BY DEF Storage!Written
  <2>3. c \in StorageCalls /\ c.at = "read" /\ c.name = n
    BY <2>2, IdleCall DEF Storage!Idle
  <2> HIDE DEF c
  <2> QED
    BY <1>0, <2>1, <2>3, StorageOwn DEF StorageTyped
<1>3. CASE Storage!ReadData(t)
  <2> DEFINE n == storageCall[t].name
             d == IF storageFiles[n] = <<>> THEN <<>> ELSE storageFiles[n][1]
             c == [storageCall[t] EXCEPT !.at = "done", !.data = d]
  <2>1. Storage!At(t, "read") /\ n \in StorageNames /\ UNCHANGED <<dir, storageFiles, last>>
    BY <1>3 DEF Storage!ReadData, StorageInv, ReaderSees
  <2>2. CASE storageCall' = [storageCall EXCEPT ![t] = Storage!Idle]
    BY <1>0, <2>1, <2>2, StorageOwn DEF StorageTyped
  <2>3. CASE storageCall' = [storageCall EXCEPT ![t].at = "done", ![t].data = d]
    <3>1. d \in Seq(Nat)
      <4>1. storageFiles[n] \in Contents
        BY <1>0, <2>1 DEF StorageTyped
      <4> QED
        BY <4>1, EmptySeq DEF Contents
    <3>2. storageCall' = [storageCall EXCEPT ![t] = c]
      BY <1>0, <2>3 DEF StorageTyped, StorageCalls
    <3> HIDE DEF d
    <3>3. c \in StorageCalls /\ c.at = "done" /\ c.name = n /\ c.data = d
      BY <1>0, <3>1 DEF StorageCalls
    <3> HIDE DEF c
    <3> QED
      BY <1>0, <2>1, <3>2, <3>3, StorageOwn DEF StorageTyped, d
  <2> QED
    BY <1>3, <2>2, <2>3 DEF Storage!ReadData, Storage!Ends
<1>4. CASE Storage!Return(t)
  BY <1>0, <1>4, StorageOwn DEF Storage!Return, Storage!Ends, StorageTyped
<1> QED
  BY <1>1, <1>2, <1>3, <1>4

\* A name that is not there is appended.
LEMMA NameAppended ==
  ASSUME NEW s \in Seq(StorageNames), NEW n \in StorageNames, n \notin Storage!ToSet(s),
         Storage!IsInjective(s)
  PROVE  Append(s, n) \in Seq(StorageNames) /\ Storage!IsInjective(Append(s, n))
<1>1. /\ Append(s, n) \in Seq(StorageNames) /\ Len(Append(s, n)) = Len(s) + 1
      /\ \A i \in 1 .. Len(s) : Append(s, n)[i] = s[i]
      /\ Append(s, n)[Len(s) + 1] = n
  BY AppendProperties
<1>2. /\ DOMAIN s = 1 .. Len(s) /\ DOMAIN Append(s, n) = 1 .. Len(s) + 1 /\ Len(s) \in Nat
      /\ \A i \in 1 .. Len(s) + 1 : i \in 1 .. Len(s) \/ i = Len(s) + 1
  BY <1>1
<1>3. \A i \in 1 .. Len(s) : s[i] # n
  BY <1>2 DEF Storage!ToSet
<1> QED
  BY <1>1, <1>2, <1>3 DEF Storage!IsInjective

\* Listings keep the invariant.
LEMMA StorageLists ==
  ASSUME StorageOK, StorageInv, NEW t \in Callers, Storage!List(t) \/ Storage!ListEntry(t) \/
           Storage!ListDone(t)
  PROVE  StorageInv'
<1>0. storageCall[t] \in StorageCalls /\ StorageTyped /\ ListerSees(t)
  BY DEF StorageInv, StorageTyped
<1>1. CASE Storage!List(t)
  <2> DEFINE S == {n \in StorageNames : storageFiles[n] # <<>>}
             c == [Storage!Idle EXCEPT !.at = "list", !.there = S]
  <2>1. storageCall' = [storageCall EXCEPT ![t] = c] /\ UNCHANGED <<dir, storageFiles, last>>
    BY <1>1 DEF Storage!List
  <2>2. S \in SUBSET StorageNames /\ \A n \in S : storageFiles[n] # <<>>
    OBVIOUS
  <2> HIDE DEF S
  <2>3. c \in StorageCalls /\ c.at = "list" /\ c.name = "" /\ c.names = <<>> /\ c.there = S
    BY <2>2, IdleCall DEF Storage!Idle
  <2>4. Storage!IsInjective(<<>>)
    BY DEF Storage!IsInjective
  <2> HIDE DEF c
  <2> QED
    BY <1>0, <2>1, <2>2, <2>3, <2>4, StorageOwn DEF StorageTyped
<1>2. CASE Storage!ListEntry(t)
  <2>1. PICK n \in Storage!Listable(t) : storageCall' = [storageCall EXCEPT ![t].names = Append(@,
        n)]
    BY <1>2 DEF Storage!ListEntry
  <2> DEFINE ns == Append(storageCall[t].names, n)
             c == [storageCall[t] EXCEPT !.names = ns]
  <2>2. n \in StorageNames /\ n \notin Storage!ToSet(storageCall[t].names) /\
          storageCall[t].at = "list"
    BY <1>2, <2>1 DEF Storage!Listable, Storage!ListEntry, Storage!At
  <2>3. ns \in Seq(StorageNames) /\ Storage!IsInjective(ns)
    BY <1>0, <2>2, NameAppended DEF StorageCalls, ListerSees, Storage!At
  <2>4. storageCall' = [storageCall EXCEPT ![t] = c]
    BY <1>0, <2>1 DEF StorageTyped, StorageCalls
  <2> HIDE DEF ns
  <2>5. c \in StorageCalls /\ c.at = "list" /\ c.name = storageCall[t].name /\
          c.there = storageCall[t].there /\ c.names = ns
    BY <1>0, <2>2, <2>3 DEF StorageCalls
  <2> HIDE DEF c
  <2>6. c.name = "" /\ \A m \in c.there : storageFiles[m] # <<>>
    BY <1>0, <2>2, <2>5 DEF ListerSees, Storage!At
  <2> QED
    BY <1>0, <1>2, <2>3, <2>4, <2>5, <2>6, StorageOwn DEF StorageTyped, Storage!ListEntry
<1>3. CASE Storage!ListDone(t)
  <2> DEFINE c == [storageCall[t] EXCEPT !.at = "listed"]
  <2>1. /\ storageCall[t].at = "list" /\ Storage!ListEnd(t) /\
             storageCall' = [storageCall EXCEPT ![t] = c]
        /\ UNCHANGED <<dir, storageFiles, last>>
    BY <1>0, <1>3 DEF Storage!ListDone, Storage!At, StorageTyped, StorageCalls
  <2>2. /\ c \in StorageCalls /\ c.at = "listed" /\ c.name = storageCall[t].name
        /\ c.there = storageCall[t].there /\ c.names = storageCall[t].names
    BY <1>0 DEF StorageCalls
  <2> HIDE DEF c
  <2>3. c.name = "" /\ Storage!IsInjective(c.names)
    BY <1>0, <2>1, <2>2 DEF ListerSees, Storage!At
  <2>4. Len(c.names) < MaxList => c.there \subseteq Storage!ToSet(c.names)
    <3>1. Len(c.names) < MaxList => Storage!Listable(t) = {}
      <4>1. c.names \in Seq(StorageNames)
        BY <2>2 DEF StorageCalls
      <4>2. Len(c.names) \in Nat
        BY <4>1
      <4>4. MaxList \in Nat
        BY DEF StorageOK
      <4>3. Len(c.names) = MaxList \/ Storage!Listable(t) = {}
        <5>1. Len(storageCall[t].names) = MaxList \/ Storage!Listable(t) = {}
          BY <2>1 DEF Storage!ListEnd
        <5> QED
          BY <2>2, <5>1
      <4> QED
        BY <4>2, <4>3, <4>4
    <3>2. c.there \subseteq {n \in StorageNames : storageFiles[n] # <<>>}
      BY <1>0, <2>1, <2>2 DEF ListerSees, Storage!At, StorageCalls
    <3> QED
      BY <2>2, <3>1, <3>2 DEF Storage!Listable
  <2> QED
    BY <1>0, <2>1, <2>2, <2>3, <2>4, StorageOwn DEF StorageTyped
<1> QED
  BY <1>1, <1>2, <1>3

\* What was written is what is there and is read, and what is there is listed.
THEOREM AppFilesAreKept == ASSUME StorageOK PROVE Storage!Spec => []Storage!FilesSound
<1>1. Storage!Init => StorageInv
  BY IdleCall DEF Storage!Init, StorageInv, StorageTyped, Contents, WriterAlone, ReaderSees,
     ListerSees, Storage!At
<1>2. StorageInv /\ [Storage!Next]_(Storage!vars) => StorageInv'
  <2> SUFFICES ASSUME StorageInv, [Storage!Next]_(Storage!vars) PROVE StorageInv'
    OBVIOUS
  <2>1. CASE UNCHANGED Storage!vars
    BY <2>1 DEF Storage!vars, StorageInv, StorageTyped, WriterAlone, ReaderSees, ListerSees,
       Storage!At
  <2> QED
    BY <2>1, StorageWrites, StorageReads, StorageLists DEF Storage!Next
<1>3. StorageInv => Storage!FilesSound
  <2> SUFFICES ASSUME StorageInv PROVE Storage!FilesSound
    OBVIOUS
  <2>1. \A n \in StorageNames : last[n] # <<>> => storageFiles[n] = last[n]
    BY DEF StorageInv
  <2>2. ASSUME NEW t \in Callers
        PROVE  /\ (Storage!At(t, "done") /\ ~storageCall[t].disturbed /\
                    last[storageCall[t].name] # <<>>)
                    => storageCall[t].data = last[storageCall[t].name][1]
               /\ Storage!At(t, "listed") =>
                            /\ Storage!IsInjective(storageCall[t].names)
                            /\ Len(storageCall[t].names) < MaxList =>
                                 storageCall[t].there \subseteq Storage!ToSet(storageCall[t].names)
    BY <2>1 DEF StorageInv, ReaderSees, ListerSees
  <2> QED
    BY <2>1, <2>2 DEF Storage!FilesSound
<1> QED
  BY <1>1, <1>2, <1>3, PTL DEF Storage!Spec

-----------------------------------------------------------------------------
(* The power manager, and what is proved of it.                             *)

Power == INSTANCE PowerManager WITH
  Threads <- Callers, Containers <- ContainerNames, NameMax <- PowerNameMax,
  count <- powerCount, call <- powerCall

PowerOK == ContainerNames \subseteq Seq(STRING) /\ PowerNameMax \in Nat /\ MaxPolicies \in Nat

GivenPolicies == Policies \cup {Power!Min(Policies), Power!Max(Policies)}
PolicyRow == [name : Seq(STRING), policy : GivenPolicies]
PowerCalls == [at : {"idle", "name", "policy", "count"}, name : Seq(STRING), policy : GivenPolicies]
PowerTyped ==
  /\ table \in [1 .. MaxPolicies -> PolicyRow] /\ powerCount \in Nat
  /\ powerCall \in [Callers -> PowerCalls]
  /\ wanted \in [ContainerNames -> {<<>>} \cup {<<p>> : p \in GivenPolicies}]

Filled == {n \in ContainerNames : wanted[n] # <<>>}
NamesFit == \A n \in Filled : Len(n) <= PowerNameMax

\* One thread at a time adds an entry, of a name that is not in the table, to the
\* cell that it will count.
AddsEntry(t) ==
  powerCall[t] # Power!Idle =>
    /\ powerCall[t].at # "idle" /\ powerCall[t].name \in ContainerNames /\ powerCount < MaxPolicies
    /\ \A i \in 1 .. powerCount : table[i].name # powerCall[t].name
    /\ powerCall[t].at \in {"policy", "count"} =>
         table[powerCount + 1].name = Power!Cut(powerCall[t].name)
    /\ powerCall[t].at = "count" => table[powerCount + 1].policy = powerCall[t].policy

\* The table has the containers that were given a policy, each once and with the
\* last it was given.
PolicyRows ==
  /\ \A i \in 1 .. powerCount : table[i].name \in Filled /\
       wanted[table[i].name] = <<table[i].policy>>
  /\ \A i, j \in 1 .. powerCount : table[i].name = table[j].name => i = j
  /\ \A n \in Filled : \E i \in 1 .. powerCount : table[i].name = n

PowerInv ==
  /\ PowerTyped
  /\ ~overlapped =>
       /\ \A t, u \in Callers : powerCall[t] # Power!Idle /\ powerCall[u] # Power!Idle => t = u
       /\ \A t \in Callers : AddsEntry(t)
       /\ ~outside /\ powerCount <= MaxPolicies
       /\ NamesFit => PolicyRows

\* A name is cut to a name, and to itself if it fits.
LEMMA Cuts ==
  ASSUME PowerOK, NEW n \in Seq(STRING)
  PROVE  Power!Cut(n) \in Seq(STRING) /\ (Len(n) <= PowerNameMax => Power!Cut(n) = n)
<1> DEFINE m == IF Len(n) < PowerNameMax THEN Len(n) ELSE PowerNameMax
<1>1. Len(n) \in Nat /\ m \in Int /\ m <= Len(n)
  BY DEF PowerOK
<1>2. \A i \in 1 .. m : n[i] \in STRING
  BY <1>1, ElementOfSeq
<1>3. Power!Cut(n) = SubSeq(n, 1, m)
  BY DEF Power!Cut
<1> HIDE DEF m
<1>4. Power!Cut(n) \in Seq(STRING)
  BY <1>1, <1>2, <1>3, SubSeqProperties
<1>5. ASSUME Len(n) <= PowerNameMax PROVE Power!Cut(n) = n
  <2>1. m = Len(n)
    BY <1>1, <1>5 DEF m, PowerOK
  <2>2. /\ Len(Power!Cut(n)) = IF 1 <= m THEN m - 1 + 1 ELSE 0
        /\ \A i \in 1 .. m - 1 + 1 : Power!Cut(n)[i] = n[1 + i - 1]
    BY <1>1, <1>2, <1>3, SubSeqProperties
  <2>3. Len(Power!Cut(n)) = Len(n) /\ \A i \in 1 .. Len(n) : Power!Cut(n)[i] = n[i]
    BY <1>1, <2>1, <2>2
  <2> QED
    BY <1>1, <1>4, <2>3, SeqEqual
<1> QED
  BY <1>4, <1>5

\* The entries are the rows counted, and the first of a name is one of them.
LEMMA EntriesCounted ==
  ASSUME PowerOK, PowerTyped, powerCount <= MaxPolicies
  PROVE  Power!Entries = 1 .. powerCount /\ \A n : Power!Found(n) # {} =>
           Power!Min(Power!Found(n)) \in Power!Found(n)
<1>1. powerCount \in Nat /\ MaxPolicies \in Nat
  BY DEF PowerTyped, PowerOK
<1>2. Power!Min({powerCount, MaxPolicies}) = powerCount
  BY <1>1 DEF Power!Min
<1>3. Power!Entries = 1 .. powerCount
  BY <1>2 DEF Power!Entries
<1>4. ASSUME NEW n, Power!Found(n) # {} PROVE Power!Min(Power!Found(n)) \in Power!Found(n)
  <2>1. Power!Found(n) \in SUBSET Nat
    BY <1>1, <1>3 DEF Power!Found
  <2> QED
    BY <1>4, <2>1, Least DEF Power!Min
<1> QED
  BY <1>3, <1>4

\* The policy of a container that has one is changed.
LEMMA PowerUpdates ==
  ASSUME PowerOK, PowerInv, NEW t \in Callers, NEW n \in ContainerNames, NEW p \in Policies,
         Power!Update(t, n, p)
  PROVE  PowerInv'
<1>0. /\ Power!Found(n) # {} /\ table' = [table EXCEPT ![Power!Min(Power!Found(n))].policy = p]
      /\ wanted' = [wanted EXCEPT ![n] = <<p>>] /\
           UNCHANGED <<powerCount, powerCall, overlapped, outside>>
      /\ p \in GivenPolicies
  BY DEF Power!Update, GivenPolicies
<1>1. PowerTyped'
  BY <1>0 DEF PowerInv, PowerTyped, PolicyRow
<1>2. ASSUME ~overlapped
      PROVE  /\ \A u \in Callers : AddsEntry(u)'
             /\ NamesFit' => PolicyRows'
  <2>1. /\ powerCount <= MaxPolicies /\ (\A u \in Callers : AddsEntry(u)) /\
             (NamesFit => PolicyRows) /\ PowerTyped
        /\ powerCount \in Nat
    BY <1>2 DEF PowerInv, PowerTyped
  <2>2. PICK k \in 1 .. powerCount : k = Power!Min(Power!Found(n)) /\ table[k].name = n
    BY <1>0, <2>1, EntriesCounted DEF Power!Found
  <2>3. /\ table \in [1 .. MaxPolicies -> PolicyRow] /\ k \in 1 .. MaxPolicies
        /\ table' = [table EXCEPT ![k].policy = p]
    BY <1>0, <2>1, <2>2 DEF PowerTyped, PowerOK
  <2>4. /\ table'[k].name = n /\ table'[k].policy = p
        /\ \A i \in 1 .. MaxPolicies : i # k => table'[i] = table[i]
        /\ \A i \in 1 .. MaxPolicies : table'[i].name = table[i].name
    BY <2>2, <2>3 DEF PolicyRow
  <2>5. ASSUME NEW u \in Callers PROVE AddsEntry(u)'
    <3>1. CASE powerCall[u] = Power!Idle
      BY <1>0, <3>1 DEF AddsEntry, Power!Idle, Power!LowPower
    <3>2. CASE powerCall[u] # Power!Idle
      <4>1. powerCount + 1 \in 1 .. MaxPolicies /\ powerCount + 1 # k /\
              \A i \in 1 .. powerCount : i \in 1 .. MaxPolicies
        BY <2>1, <2>2, <3>2 DEF AddsEntry, PowerOK
      <4>2. table'[powerCount + 1] = table[powerCount + 1] /\
              \A i \in 1 .. powerCount : table'[i].name = table[i].name
        BY <2>4, <4>1
      <4>3. /\ powerCall[u].at # "idle" /\ powerCall[u].name \in ContainerNames /\
                 powerCount < MaxPolicies
            /\ \A i \in 1 .. powerCount : table[i].name # powerCall[u].name
            /\ powerCall[u].at \in {"policy", "count"} =>
                 table[powerCount + 1].name = Power!Cut(powerCall[u].name)
            /\ powerCall[u].at = "count" => table[powerCount + 1].policy = powerCall[u].policy
        BY <2>1, <3>2 DEF AddsEntry
      <4>4. powerCall' = powerCall /\ powerCount' = powerCount
        BY <1>0
      <4>5. \A i \in 1 .. powerCount : table'[i].name # powerCall[u].name
        BY <4>2, <4>3
      <4> QED
        BY <4>2, <4>3, <4>4, <4>5 DEF AddsEntry, Power!Cut
    <3> QED
      BY <3>1, <3>2
  <2>6. ASSUME NamesFit' PROVE PolicyRows'
    <3>1. wanted'[n] = <<p>> /\ (\A m \in ContainerNames : m # n => wanted'[m] = wanted[m])
      <4>1. wanted \in [ContainerNames -> {<<>>} \cup {<<q>> : q \in GivenPolicies}]
        BY <2>1 DEF PowerTyped
      <4> QED
        BY <1>0, <4>1
    <3>2. Filled' = Filled \cup {n}
      <4>1. <<p>> # <<>>
        OBVIOUS
      <4>2. \A m \in ContainerNames : wanted'[m] # <<>> <=> m = n \/ wanted[m] # <<>>
        BY <3>1, <4>1
      <4> QED
        BY <4>2 DEF Filled
    <3>3. PolicyRows
      BY <2>1, <2>6, <3>2 DEF NamesFit
    <3>4. \A i \in 1 .. powerCount : i # k => i \in 1 .. MaxPolicies /\ table[i].name # n
      BY <2>1, <2>2, <3>3 DEF PolicyRows, PowerOK
    <3>5. \A i \in 1 .. powerCount : table'[i].name \in Filled' /\
            wanted'[table'[i].name] = <<table'[i].policy>>
      <4> SUFFICES ASSUME NEW i \in 1 .. powerCount
                   PROVE  table'[i].name \in Filled' /\
                            wanted'[table'[i].name] = <<table'[i].policy>>
        OBVIOUS
      <4>1. CASE i = k
        BY <2>4, <3>1, <3>2, <4>1
      <4>2. CASE i # k
        <5>1. table'[i] = table[i] /\ table[i].name # n /\ table[i].name \in ContainerNames
          BY <2>4, <3>3, <3>4, <4>2 DEF PolicyRows, Filled
        <5> QED
          BY <3>1, <3>2, <3>3, <5>1 DEF PolicyRows
      <4> QED
        BY <4>1, <4>2
    <3>6. \A i \in 1 .. powerCount : table'[i].name = table[i].name
      BY <2>1, <2>4 DEF PowerOK
    <3>7. n \in Filled
      BY <2>2, <3>3 DEF PolicyRows
    <3> QED
      <4>1. Filled' = Filled /\ powerCount' = powerCount
        BY <1>0, <3>2, <3>7
      <4>2. \A i, j \in 1 .. powerCount : table'[i].name = table'[j].name => i = j
        BY <3>3, <3>6 DEF PolicyRows
      <4>3. \A m \in Filled : \E i \in 1 .. powerCount : table'[i].name = m
        BY <3>3, <3>6 DEF PolicyRows
      <4> QED
        BY <3>5, <4>1, <4>2, <4>3 DEF PolicyRows
  <2> QED
    BY <2>5, <2>6
<1> QED
  BY <1>0, <1>1, <1>2 DEF PowerInv, Power!Idle, Power!LowPower

\* The steps of adding an entry that touch only the cell after the last.
LEMMA PowerWrites ==
  ASSUME PowerOK, PowerInv, NEW t \in Callers, Power!AddName(t) \/ Power!AddPolicy(t)
  PROVE  PowerInv'
<1>0. /\ powerCall[t] \in PowerCalls /\ powerCall[t] # Power!Idle /\
           powerCall[t].at \in {"name", "policy"}
      /\ UNCHANGED <<powerCount, wanted, overlapped>> /\ PowerTyped /\ powerCount \in Nat /\
           MaxPolicies \in Nat
  BY DEF Power!AddName, Power!AddPolicy, PowerInv, PowerTyped, Power!Idle, PowerOK
<1> DEFINE a == IF powerCall[t].at = "name" THEN "policy" ELSE "count"
<1>1. powerCall' = [powerCall EXCEPT ![t].at = a]
  BY DEF Power!AddName, Power!AddPolicy
<1>2. /\ powerCall' \in [Callers -> PowerCalls] /\ powerCall'[t].at = a /\
           powerCall'[t].name = powerCall[t].name
      /\ powerCall'[t].policy = powerCall[t].policy
      /\ \A u \in Callers \ {t} : powerCall'[u] = powerCall[u]
  BY <1>0, <1>1 DEF PowerTyped, PowerCalls
<1>3. powerCall'[t] # Power!Idle
  BY <1>2 DEF Power!Idle
<1>4. CASE ~(powerCount < MaxPolicies)
  <2>1. outside' = TRUE /\ UNCHANGED table
    BY <1>4 DEF Power!AddName, Power!AddPolicy, Power!Writes
  <2>2. overlapped
    BY <1>0, <1>4 DEF PowerInv, AddsEntry
  <2> QED
    BY <1>0, <1>2, <2>1, <2>2 DEF PowerInv, PowerTyped
<1>5. CASE powerCount < MaxPolicies
  <2>1. powerCount + 1 \in 1 .. MaxPolicies /\ table[powerCount + 1] \in PolicyRow
    BY <1>0, <1>5 DEF PowerTyped
  <2> DEFINE e == IF powerCall[t].at = "name"
        THEN [table[powerCount + 1] EXCEPT !.name = Power!Cut(powerCall[t].name)]
                  ELSE [table[powerCount + 1] EXCEPT !.policy = powerCall[t].policy]
  <2>2. table' = [table EXCEPT ![powerCount + 1] = e] /\ UNCHANGED outside
    BY <1>0, <1>5 DEF Power!AddName, Power!AddPolicy, Power!Writes, Power!Here
  <2>3. Power!Cut(powerCall[t].name) \in Seq(STRING) /\ powerCall[t].policy \in GivenPolicies
    BY <1>0, Cuts DEF PowerCalls
  <2>4. /\ e \in PolicyRow
        /\ powerCall[t].at = "name" => e.name = Power!Cut(powerCall[t].name)
        /\ powerCall[t].at = "policy" => e.policy = powerCall[t].policy /\
             e.name = table[powerCount + 1].name
    BY <1>0, <2>1, <2>3 DEF PolicyRow
  <2> HIDE DEF e
  <2>5. /\ table' \in [1 .. MaxPolicies -> PolicyRow] /\ table'[powerCount + 1] = e
        /\ \A i \in 1 .. MaxPolicies : i # powerCount + 1 => table'[i] = table[i]
    BY <1>0, <2>1, <2>2, <2>4 DEF PowerTyped
  <2>6. PowerTyped'
    BY <1>0, <1>2, <2>5 DEF PowerTyped
  <2>7. \A i \in 1 .. powerCount : table'[i] = table[i]
    BY <1>0, <2>1, <2>5
  <2>8. ASSUME ~overlapped
        PROVE  /\ \A v, u \in Callers : powerCall'[v] # Power!Idle /\ powerCall'[u] # Power!Idle =>
                    v = u
               /\ \A u \in Callers : AddsEntry(u)'
               /\ NamesFit' => PolicyRows'
    <3>1. /\ \A v, u \in Callers : powerCall[v] # Power!Idle /\ powerCall[u] # Power!Idle => v = u
          /\ AddsEntry(t) /\ (NamesFit => PolicyRows)
      BY <2>8 DEF PowerInv
    <3>2. \A u \in Callers : u # t => powerCall[u] = Power!Idle /\ powerCall'[u] = Power!Idle
      BY <1>0, <1>2, <3>1
    <3>3. AddsEntry(t)'
      <4>1. /\ powerCall[t].name \in ContainerNames /\
                 (\A i \in 1 .. powerCount : table'[i].name # powerCall[t].name)
            /\ powerCall[t].at = "policy" =>
                 table[powerCount + 1].name = Power!Cut(powerCall[t].name)
        BY <1>0, <2>7, <3>1 DEF AddsEntry
      <4>2. powerCall'[t].at # "idle" /\ table'[powerCount + 1].name = Power!Cut(powerCall[t].name)
        BY <1>0, <1>2, <2>4, <2>5, <4>1
      <4>3. powerCall'[t].at = "count" => table'[powerCount + 1].policy = powerCall[t].policy
        BY <1>0, <1>2, <2>4, <2>5
      <4> QED
        BY <1>0, <1>2, <1>5, <4>1, <4>2, <4>3 DEF AddsEntry, Power!Cut
    <3>4. NamesFit' => PolicyRows'
      BY <1>0, <2>7, <3>1 DEF NamesFit, Filled, PolicyRows
    <3>5. \A u \in Callers : AddsEntry(u)'
      BY <3>2, <3>3 DEF AddsEntry, Power!Idle, Power!LowPower
    <3> QED
      BY <3>2, <3>4, <3>5
  <2>9. Power!Idle' = Power!Idle
    BY DEF Power!Idle, Power!LowPower
  <2> QED
    BY <1>0, <2>2, <2>6, <2>8, <2>9 DEF PowerInv
<1> QED
  BY <1>4, <1>5

\* The parts of a new entry are written.
LEMMA PowerAdds ==
  ASSUME PowerOK, PowerInv, NEW t \in Callers, NEW n \in ContainerNames, NEW p \in Policies,
         Power!Add(t, n, p)
  PROVE  PowerInv'
<1> DEFINE v == [at |-> "name", name |-> n, policy |-> p]
<1>0. /\ powerCall[t] = Power!Idle /\ Power!Found(n) = {} /\ powerCount < MaxPolicies /\
           powerCall' = [powerCall EXCEPT ![t] = v]
      /\ overlapped' = (overlapped \/ \E u \in Callers : powerCall[u] # Power!Idle)
      /\ UNCHANGED <<table, powerCount, wanted, outside>> /\ PowerTyped
  BY DEF Power!Add, PowerInv
<1>1. v \in PowerCalls /\ v.at = "name" /\ v.name = n /\ v # Power!Idle
  BY DEF PowerCalls, PowerOK, GivenPolicies, Power!Idle
<1> HIDE DEF v
<1>2. /\ powerCall' \in [Callers -> PowerCalls] /\ powerCall'[t] = v /\
           \A u \in Callers \ {t} : powerCall'[u] = powerCall[u]
  BY <1>0, <1>1 DEF PowerTyped
<1>3. PowerTyped'
  BY <1>0, <1>2 DEF PowerTyped
<1>4. ASSUME ~overlapped'
      PROVE  /\ \A u, w \in Callers : powerCall'[u] # Power!Idle /\ powerCall'[w] # Power!Idle =>
                  u = w
             /\ \A u \in Callers : AddsEntry(u)'
  <2>1. ~overlapped /\ (\A u \in Callers : powerCall[u] = Power!Idle) /\ powerCount <= MaxPolicies
    BY <1>0, <1>4 DEF PowerInv
  <2>2. \A u \in Callers : u # t => powerCall'[u] = Power!Idle
    BY <1>2, <2>1
  <2>3. \A i \in 1 .. powerCount : table[i].name # n
    BY <1>0, <2>1, EntriesCounted DEF Power!Found
  <2>4. AddsEntry(t)'
    BY <1>0, <1>1, <1>2, <2>3 DEF AddsEntry
  <2> QED
    BY <2>2, <2>4 DEF AddsEntry, Power!Idle, Power!LowPower
<1>5. Power!Idle' = Power!Idle /\ (NamesFit' <=> NamesFit) /\ (PolicyRows' <=> PolicyRows)
  BY <1>0 DEF Power!Idle, Power!LowPower, NamesFit, Filled, PolicyRows
<1> QED
  BY <1>0, <1>3, <1>4, <1>5 DEF PowerInv

\* A new entry is counted.
LEMMA PowerCounts ==
  ASSUME PowerOK, PowerInv, NEW t \in Callers, Power!AddCount(t) PROVE PowerInv'
<1>0. /\ powerCall[t] \in PowerCalls /\ powerCall[t] # Power!Idle /\ powerCall[t].at = "count" /\
           powerCount' = powerCount + 1
      /\ powerCall' = [powerCall EXCEPT ![t] = Power!Idle] /\
           wanted' = [wanted EXCEPT ![powerCall[t].name] = <<powerCall[t].policy>>]
      /\ UNCHANGED <<table, overlapped, outside>> /\ PowerTyped /\ powerCount \in Nat /\
           MaxPolicies \in Nat
      /\ Power!Idle \in PowerCalls
  BY EmptySeq DEF Power!AddCount, PowerInv, PowerTyped, Power!Idle, PowerOK, PowerCalls,
     GivenPolicies, Power!LowPower
<1>1. PICK n \in Seq(STRING) : n = powerCall[t].name
  BY <1>0 DEF PowerCalls
<1>2. PICK p \in GivenPolicies : p = powerCall[t].policy
  BY <1>0 DEF PowerCalls
<1>3. /\ powerCall' \in [Callers -> PowerCalls] /\ powerCall'[t] = Power!Idle /\
           \A u \in Callers \ {t} : powerCall'[u] = powerCall[u]
      /\ wanted' \in [ContainerNames -> {<<>>} \cup {<<q>> : q \in GivenPolicies}]
      /\ n \in ContainerNames => wanted'[n] = <<p>>
      /\ \A m \in ContainerNames : m # n => wanted'[m] = wanted[m]
  BY <1>0, <1>1, <1>2 DEF PowerTyped
<1>4. PowerTyped'
  BY <1>0, <1>3 DEF PowerTyped
<1>5. Power!Idle' = Power!Idle
  BY DEF Power!Idle, Power!LowPower
<1>6. ASSUME ~overlapped
      PROVE  /\ \A u, w \in Callers : powerCall'[u] # Power!Idle /\ powerCall'[w] # Power!Idle =>
                  u = w
             /\ \A u \in Callers : AddsEntry(u)'
             /\ ~outside /\ powerCount + 1 <= MaxPolicies
             /\ NamesFit' => PolicyRows'
  <2>1. /\ \A u, w \in Callers : powerCall[u] # Power!Idle /\ powerCall[w] # Power!Idle => u = w
        /\ AddsEntry(t) /\ ~outside /\ (NamesFit => PolicyRows)
    BY <1>6 DEF PowerInv
  <2>2. \A u \in Callers : powerCall'[u] = Power!Idle
    BY <1>0, <1>3, <2>1
  <2>3. /\ n \in ContainerNames /\ powerCount < MaxPolicies /\
             (\A i \in 1 .. powerCount : table[i].name # n)
        /\ table[powerCount + 1].name = Power!Cut(n) /\ table[powerCount + 1].policy = p
    BY <1>0, <1>1, <1>2, <2>1 DEF AddsEntry
  <2>4. ASSUME NamesFit' PROVE PolicyRows'
    <3>1. Filled' = Filled \cup {n}
      BY <1>3, <2>3 DEF Filled
    <3>2. NamesFit /\ Power!Cut(n) = n
      BY <2>4, <3>1, Cuts DEF NamesFit
    <3>3. PolicyRows /\ table[powerCount + 1].name = n
      BY <2>1, <2>3, <3>2
    <3>4. \A i \in 1 .. powerCount + 1 : i \in 1 .. powerCount \/ i = powerCount + 1
      BY <1>0
    <3>5. ASSUME NEW i \in 1 .. powerCount + 1
          PROVE  table[i].name \in Filled' /\ wanted'[table[i].name] = <<table[i].policy>>
      <4>1. CASE i = powerCount + 1
        BY <1>3, <2>3, <3>1, <3>3, <4>1
      <4>2. CASE i \in 1 .. powerCount
        <5>1. table[i].name \in Filled /\ wanted[table[i].name] = <<table[i].policy>> /\
                table[i].name # n
          BY <2>3, <3>3, <4>2 DEF PolicyRows
        <5> QED
          BY <1>3, <3>1, <5>1 DEF Filled
      <4> QED
        BY <3>4, <4>1, <4>2
    <3>6. \A i, j \in 1 .. powerCount + 1 : table[i].name = table[j].name => i = j
      BY <2>3, <3>3, <3>4 DEF PolicyRows
    <3>7. ASSUME NEW m \in Filled' PROVE \E i \in 1 .. powerCount + 1 : table[i].name = m
      <4>1. CASE m = n
        <5>1. powerCount + 1 \in 1 .. powerCount + 1
          BY <1>0
        <5> QED
          BY <3>3, <4>1, <5>1
      <4>2. CASE m \in Filled
        <5>1. PICK i \in 1 .. powerCount : table[i].name = m
          BY <3>3, <4>2 DEF PolicyRows
        <5>2. i \in 1 .. powerCount + 1
          BY <1>0
        <5> QED
          BY <5>1, <5>2
      <4> QED
        BY <3>1, <4>1, <4>2
    <3> QED
      BY <1>0, <3>5, <3>6, <3>7 DEF PolicyRows
  <2> QED
    BY <1>0, <1>5, <2>1, <2>2, <2>3, <2>4 DEF AddsEntry
<1> QED
  BY <1>0, <1>4, <1>5, <1>6 DEF PowerInv

\* The mode is that of the strictest policy given.
THEOREM StrictestIsInForce == ASSUME PowerOK PROVE Power!Spec => []Power!PoliciesSound
<1>1. Power!Init => PowerInv
  <2> SUFFICES ASSUME Power!Init PROVE PowerInv
    OBVIOUS
  <2>1. Power!Entry \in PolicyRow /\ Power!Idle \in PowerCalls
    BY EmptySeq DEF Power!Entry, PolicyRow, Power!Idle, PowerCalls, GivenPolicies, Power!LowPower
  <2>2. PowerTyped /\ \A t \in Callers : powerCall[t] = Power!Idle
    BY <2>1 DEF Power!Init, Power!Cleared, PowerTyped
  <2>3. Filled = {} /\ powerCount = 0 /\ ~overlapped /\ ~outside /\ 1 .. 0 = {}
    BY DEF Power!Init, Filled
  <2>4. PolicyRows
    BY <2>3 DEF PolicyRows
  <2> QED
    BY <2>2, <2>3, <2>4 DEF PowerInv, PowerOK, AddsEntry
<1>2. PowerInv /\ [Power!Next]_(Power!vars) => PowerInv'
  <2> SUFFICES ASSUME PowerInv, [Power!Next]_(Power!vars) PROVE PowerInv'
    OBVIOUS
  <2>1. CASE UNCHANGED <<table, powerCount, powerCall, wanted, overlapped, outside>>
    BY <2>1 DEF PowerInv, PowerTyped, AddsEntry, Power!Idle, Power!LowPower, NamesFit, Filled,
       PolicyRows
  <2>2. ASSUME NEW m \in Modes, Power!SetMode(m) PROVE PowerInv'
    BY <2>1, <2>2 DEF Power!SetMode
  <2> QED
    BY <2>1, <2>2, PowerUpdates, PowerWrites, PowerAdds, PowerCounts DEF Power!Next, Power!vars
<1>3. PowerInv => Power!PoliciesSound
  <2> SUFFICES ASSUME PowerInv, ~overlapped
               PROVE  LET given == {n \in ContainerNames : wanted[n] # <<>>}
                          strictest == Power!Strictest({wanted[n][1] : n \in given}) IN
                      /\ ~outside /\ powerCount <= MaxPolicies
                      /\ (\A n \in given : Len(n) <= PowerNameMax) => Power!Aggregate = strictest
    BY DEF Power!PoliciesSound
  <2>1. ~outside /\ powerCount <= MaxPolicies /\ PowerTyped /\ (NamesFit => PolicyRows)
    BY DEF PowerInv
  <2>2. ASSUME NamesFit PROVE {table[i].policy : i \in Power!Entries} = {wanted[n][1] : n \in Filled}
    <3>1. PolicyRows /\ Power!Entries = 1 .. powerCount
      BY <2>1, <2>2, EntriesCounted
    <3>2. \A i \in 1 .. powerCount : wanted[table[i].name][1] = table[i].policy
      BY <3>1 DEF PolicyRows
    <3> QED
      BY <3>1, <3>2 DEF PolicyRows
  <2>3. NamesFit => Power!Aggregate = Power!Strictest({wanted[n][1] : n \in Filled})
    BY <2>2 DEF Power!Aggregate
  <2> QED
    BY <2>1, <2>3 DEF NamesFit, Filled
<1> QED
  BY <1>1, <1>2, <1>3, PTL DEF Power!Spec

-----------------------------------------------------------------------------
(* The widget framework, and what is proved of it.                          *)

Ui == INSTANCE UiFramework WITH Places <- Spots

WidgetPlaces == Spots \cup {Ui!Min(Spots)}
WidgetRecord == [used : BOOLEAN, screen : Nat, place : WidgetPlaces, visible : BOOLEAN,
                 enabled : BOOLEAN, dirty : BOOLEAN, pressed : BOOLEAN]
UiTyped ==
  /\ widgets \in [Ui!WidgetSlots -> WidgetRecord]
  /\ screens \in [Ui!ScreenSlots -> [used : BOOLEAN, list : Seq(Ui!WidgetSlots)]]
  /\ current \in Int
  /\ sent \in [Ui!WidgetSlots -> {"none", "pressed", "released"}]

\* The callback of a widget in use was last told of what is shown.
CallbackTold == \A w \in Ui!WidgetSlots : Ui!Widget(w) =>
  (widgets[w].pressed <=> sent[w] = "pressed")
UiInv == UiTyped /\ Ui!WidgetsAreListed /\ Ui!CurrentExists /\ CallbackTold

\* What a step that gives no slot away has to show.
LEMMA UiKeeps ==
  ASSUME UiInv, widgets' \in [Ui!WidgetSlots -> WidgetRecord], UNCHANGED <<screens, current, sent>>,
         \A w \in Ui!WidgetSlots : widgets'[w].used =>
           /\ widgets[w].used /\ widgets'[w].screen = widgets[w].screen
           /\ widgets'[w].pressed = widgets[w].pressed
  PROVE  UiInv'
<1>1. UiTyped'
  BY DEF UiInv, UiTyped
<1>2. Ui!WidgetsAreListed'
  BY DEF UiInv, Ui!WidgetsAreListed, Ui!Widget, Ui!Screen, Ui!List, Ui!Contains
<1>3. Ui!CurrentExists' /\ CallbackTold'
  BY DEF UiInv, Ui!CurrentExists, CallbackTold, Ui!Widget, Ui!Screen
<1> QED
  BY <1>1, <1>2, <1>3 DEF UiInv

\* One widget that is in use is changed.
LEMMA UiChanges ==
  ASSUME UiInv, NEW w \in Ui!WidgetSlots, Ui!Change(w) \/ (\E p \in Spots : Ui!Move(w, p)) \/
           Ui!DestroyWidget(w)
                  \/ \E on \in BOOLEAN : Ui!SetVisible(w, on) \/ Ui!SetEnabled(w, on)
  PROVE  UiInv'
<1>0. widgets \in [Ui!WidgetSlots -> WidgetRecord] /\ UNCHANGED <<screens, current, sent>> /\
        Ui!Widget(w)
  BY DEF UiInv, UiTyped, Ui!Change, Ui!Move, Ui!DestroyWidget, Ui!SetVisible, Ui!SetEnabled
<1>1. CASE Ui!Change(w)
  <2>1. /\ widgets' \in [Ui!WidgetSlots -> WidgetRecord]
        /\ \A v \in Ui!WidgetSlots : /\ widgets'[v].used => widgets[v].used
                                     /\ widgets'[v].screen = widgets[v].screen
                                     /\ widgets'[v].pressed = widgets[v].pressed
    BY <1>0, <1>1 DEF Ui!Change, WidgetRecord
  <2> QED
    BY <1>0, <2>1, UiKeeps
<1>2. ASSUME NEW p \in Spots, Ui!Move(w, p) PROVE UiInv'
  <2>1. /\ widgets' \in [Ui!WidgetSlots -> WidgetRecord]
        /\ \A v \in Ui!WidgetSlots : /\ widgets'[v].used => widgets[v].used
                                     /\ widgets'[v].screen = widgets[v].screen
                                     /\ widgets'[v].pressed = widgets[v].pressed
    BY <1>0, <1>2 DEF Ui!Move, WidgetRecord, WidgetPlaces
  <2> QED
    BY <1>0, <2>1, UiKeeps
<1>3. CASE Ui!DestroyWidget(w)
  <2>0. Ui!NoWidget \in WidgetRecord /\ ~Ui!NoWidget.used
    BY DEF Ui!NoWidget, WidgetRecord, WidgetPlaces
  <2>1. /\ widgets' \in [Ui!WidgetSlots -> WidgetRecord]
        /\ \A v \in Ui!WidgetSlots : widgets'[v].used => widgets'[v] = widgets[v]
    BY <1>0, <1>3, <2>0 DEF Ui!DestroyWidget
  <2> QED
    BY <1>0, <2>1, UiKeeps
<1>4. ASSUME NEW on \in BOOLEAN, Ui!SetVisible(w, on) \/ Ui!SetEnabled(w, on) PROVE UiInv'
  <2>1. /\ widgets' \in [Ui!WidgetSlots -> WidgetRecord]
        /\ \A v \in Ui!WidgetSlots : /\ widgets'[v].used => widgets[v].used
                                     /\ widgets'[v].screen = widgets[v].screen
                                     /\ widgets'[v].pressed = widgets[v].pressed
    <3>1. CASE Ui!SetVisible(w, on)
      BY <1>0, <3>1 DEF Ui!SetVisible, WidgetRecord
    <3>2. CASE Ui!SetEnabled(w, on)
      <4> DEFINE rec == [widgets[w] EXCEPT !.enabled = on, !.dirty = TRUE]
      <4>1. /\ rec \in WidgetRecord /\ rec.used = widgets[w].used
            /\ rec.screen = widgets[w].screen /\ rec.pressed = widgets[w].pressed
        BY <1>0 DEF WidgetRecord
      <4>2. widgets' = [widgets EXCEPT ![w] = rec]
        BY <1>0, <3>2 DEF Ui!SetEnabled
      <4> HIDE DEF rec
      <4> QED
        BY <1>0, <4>1, <4>2
    <3> QED
      BY <1>4, <3>1, <3>2
  <2> QED
    BY <1>0, <2>1, UiKeeps
<1> QED
  BY <1>1, <1>2, <1>3, <1>4

\* Rendering and setting a screen mark widgets.
LEMMA UiMarks ==
  ASSUME UiInv, Ui!Render \/ \E s \in Ui!ScreenSlots : Ui!SetScreen(s)
  PROVE  UiInv'
<1>0. widgets \in [Ui!WidgetSlots -> WidgetRecord]
  BY DEF UiInv, UiTyped
<1>1. CASE Ui!Render
  <2>1. /\ widgets' \in [Ui!WidgetSlots -> WidgetRecord]
        /\ \A v \in Ui!WidgetSlots : /\ widgets'[v].used => widgets[v].used
                                     /\ widgets'[v].screen = widgets[v].screen
                                     /\ widgets'[v].pressed = widgets[v].pressed
    BY <1>0, <1>1 DEF Ui!Render, WidgetRecord
  <2> QED
    BY <1>1, <2>1, UiKeeps DEF Ui!Render
<1>2. ASSUME NEW s \in Ui!ScreenSlots, Ui!SetScreen(s) PROVE UiInv'
  <2>1. /\ widgets' \in [Ui!WidgetSlots -> WidgetRecord]
        /\ \A v \in Ui!WidgetSlots : /\ widgets'[v].used => widgets[v].used
                                     /\ widgets'[v].screen = widgets[v].screen
                                     /\ widgets'[v].pressed = widgets[v].pressed
    <3> DEFINE marked(v) == [widgets[v] EXCEPT !.dirty = TRUE]
    <3>1. ASSUME NEW v \in Ui!WidgetSlots
          PROVE  /\ marked(v) \in WidgetRecord /\ marked(v).used = widgets[v].used
                 /\ marked(v).screen = widgets[v].screen /\ marked(v).pressed = widgets[v].pressed
      BY <1>0 DEF WidgetRecord
    <3>2. widgets' = [v \in Ui!WidgetSlots |-> IF Ui!Contains(Ui!List(s), v) /\ Ui!Widget(v)
            THEN marked(v)
                                               ELSE widgets[v]]
      BY <1>2 DEF Ui!SetScreen
    <3> HIDE DEF marked
    <3> QED
      BY <1>0, <3>1, <3>2
  <2>2. screens' = screens /\ sent' = sent /\ current' = s /\ Ui!Screen(s) /\ s \in Int
    BY <1>2 DEF Ui!SetScreen, Ui!ScreenSlots
  <2>3. UiTyped'
    BY <2>1, <2>2 DEF UiInv, UiTyped
  <2>4. Ui!WidgetsAreListed'
    BY <2>1, <2>2 DEF UiInv, Ui!WidgetsAreListed, Ui!Widget, Ui!Screen, Ui!List, Ui!Contains
  <2>5. Ui!CurrentExists' /\ CallbackTold'
    BY <2>1, <2>2 DEF UiInv, Ui!CurrentExists, CallbackTold, Ui!Widget, Ui!Screen
  <2> QED
    BY <2>3, <2>4, <2>5 DEF UiInv
<1> QED
  BY <1>1, <1>2

\* A screen is created.
LEMMA CreateScreenKeeps == ASSUME UiInv, Ui!CreateScreen PROVE UiInv'
<1> DEFINE free == {s \in Ui!ScreenSlots : ~screens[s].used}
<1>1. PICK z \in free : screens' = [screens EXCEPT ![z] = [used |-> TRUE, list |-> <<>>]]
  <2>1. free \in SUBSET Nat /\ free # {}
    BY DEF Ui!CreateScreen, Ui!ScreenSlots
  <2>2. Ui!Min(free) \in free
    <3>1. \E x \in free : \A y \in free : x <= y
      BY <2>1, Least
    <3> QED
      BY <3>1 DEF Ui!Min
  <2> QED
    BY <2>2 DEF Ui!CreateScreen
<1>2. z \in Ui!ScreenSlots /\ ~screens[z].used
  OBVIOUS
<1>3. UNCHANGED <<widgets, current, sent>>
  BY DEF Ui!CreateScreen
<1> HIDE DEF free
<1>4. screens' \in [Ui!ScreenSlots -> [used : BOOLEAN, list : Seq(Ui!WidgetSlots)]]
  <2>1. [used |-> TRUE, list |-> <<>>] \in [used : BOOLEAN, list : Seq(Ui!WidgetSlots)]
    OBVIOUS
  <2> QED
    BY <1>1, <2>1 DEF UiInv, UiTyped
<1>5. /\ \A s \in Ui!ScreenSlots \ {z} : screens'[s] = screens[s]
      /\ screens'[z].used
  BY <1>1, <1>2 DEF UiInv, UiTyped
<1>6. UiTyped'
  BY <1>3, <1>4 DEF UiInv, UiTyped
<1>7. Ui!WidgetsAreListed'
  BY <1>2, <1>3, <1>5 DEF UiInv, Ui!WidgetsAreListed, Ui!Widget, Ui!Screen, Ui!List, Ui!Contains
<1>8. Ui!CurrentExists' /\ CallbackTold'
  BY <1>3, <1>5 DEF UiInv, Ui!CurrentExists, CallbackTold, Ui!Widget, Ui!Screen
<1> QED
  BY <1>6, <1>7, <1>8 DEF UiInv

\* A screen is destroyed, with its widgets.
LEMMA DestroyScreenKeeps ==
  ASSUME UiInv, NEW s \in Ui!ScreenSlots, Ui!DestroyScreen(s)
  PROVE  UiInv'
<1>0. Ui!NoWidget \in WidgetRecord /\ ~Ui!NoWidget.used
  BY DEF Ui!NoWidget, WidgetRecord, WidgetPlaces
<1>1. /\ screens' = [screens EXCEPT ![s].used = FALSE] /\ sent' = sent
      /\ current' = IF current = s THEN -1 ELSE current
  BY DEF Ui!DestroyScreen
<1>2. /\ screens' \in [Ui!ScreenSlots -> [used : BOOLEAN, list : Seq(Ui!WidgetSlots)]]
      /\ \A x \in Ui!ScreenSlots \ {s} : screens'[x] = screens[x]
  BY <1>1 DEF UiInv, UiTyped
<1>3. /\ widgets' \in [Ui!WidgetSlots -> WidgetRecord]
      /\ \A w \in Ui!WidgetSlots : widgets'[w].used => widgets'[w] = widgets[w] /\
           ~Ui!Contains(Ui!List(s), w)
  BY <1>0 DEF Ui!DestroyScreen, Ui!Without, UiInv, UiTyped
<1>4. UiTyped'
  BY <1>1, <1>2, <1>3 DEF UiInv, UiTyped
<1>5. Ui!WidgetsAreListed'
  <2> SUFFICES ASSUME NEW w \in Ui!WidgetSlots, widgets'[w].used
               PROVE  /\ widgets'[w].screen \in Ui!ScreenSlots /\ screens'[widgets'[w].screen].used
                      /\ Ui!Contains(screens'[widgets'[w].screen].list, w)
    BY DEF Ui!WidgetsAreListed, Ui!Widget, Ui!Screen, Ui!List, Ui!Contains
  <2>1. /\ widgets'[w] = widgets[w] /\ ~Ui!Contains(Ui!List(s), w)
        /\ Ui!Screen(widgets[w].screen) /\ Ui!Contains(Ui!List(widgets[w].screen), w)
    BY <1>3 DEF UiInv, Ui!WidgetsAreListed, Ui!Widget
  <2>2. widgets[w].screen \in Ui!ScreenSlots \ {s}
    BY <2>1 DEF Ui!Screen
  <2> QED
    BY <1>2, <2>1, <2>2 DEF Ui!Screen, Ui!List
<1>6. Ui!CurrentExists' /\ CallbackTold'
  BY <1>1, <1>2, <1>3 DEF UiInv, Ui!CurrentExists, CallbackTold, Ui!Widget, Ui!Screen
<1> QED
  BY <1>4, <1>5, <1>6 DEF UiInv

\* A widget is created and listed.
LEMMA CreateWidgetKeeps ==
  ASSUME UiInv, NEW s \in Ui!ScreenSlots, NEW p \in Spots, Ui!CreateWidget(s, p)
  PROVE  UiInv'
<1> DEFINE free == {w \in Ui!WidgetSlots : ~Ui!Widget(w)}
           new == [Ui!NoWidget EXCEPT !.used = TRUE, !.screen = s, !.place = p]
<1>1. PICK z \in free : /\ widgets' = [widgets EXCEPT ![z] = new]
                        /\ screens' = [screens EXCEPT ![s].list = Append(@, z)]
                        /\ sent' = [sent EXCEPT ![z] = "none"]
  <2>1. free \in SUBSET Nat /\ free # {}
    BY DEF Ui!CreateWidget, Ui!WidgetSlots
  <2>2. Ui!Min(free) \in free
    <3>1. \E x \in free : \A y \in free : x <= y
      BY <2>1, Least
    <3> QED
      BY <3>1 DEF Ui!Min
  <2> QED
    BY <2>2 DEF Ui!CreateWidget
<1>2. z \in Ui!WidgetSlots /\ ~widgets[z].used
  BY DEF Ui!Widget
<1>3. current' = current /\ Ui!Screen(s)
  BY DEF Ui!CreateWidget
<1>4. new \in WidgetRecord /\ new.screen = s /\ ~new.pressed
  <2>1. Ui!NoWidget \in WidgetRecord /\ ~Ui!NoWidget.pressed
    BY DEF Ui!NoWidget, WidgetRecord, WidgetPlaces
  <2>2. p \in WidgetPlaces /\ s \in Nat
    BY DEF WidgetPlaces, Ui!ScreenSlots
  <2> QED
    BY <2>1, <2>2 DEF WidgetRecord
<1> HIDE DEF free, new
<1>5. /\ widgets' \in [Ui!WidgetSlots -> WidgetRecord] /\ widgets'[z] = new
      /\ \A w \in Ui!WidgetSlots \ {z} : widgets'[w] = widgets[w]
  BY <1>1, <1>2, <1>4 DEF UiInv, UiTyped
<1>6. /\ sent' \in [Ui!WidgetSlots -> {"none", "pressed", "released"}] /\ sent'[z] = "none"
      /\ \A w \in Ui!WidgetSlots \ {z} : sent'[w] = sent[w]
  BY <1>1, <1>2 DEF UiInv, UiTyped
<1>7. PICK l \in Seq(Ui!WidgetSlots) : l = screens[s].list
  BY DEF UiInv, UiTyped
<1>8. /\ Append(l, z) \in Seq(Ui!WidgetSlots)
      /\ \A w : Ui!Contains(l, w) => Ui!Contains(Append(l, z), w)
      /\ Ui!Contains(Append(l, z), z)
  <2>1. /\ Append(l, z) \in Seq(Ui!WidgetSlots) /\ Len(Append(l, z)) = Len(l) + 1 /\ Len(l) \in Nat
        /\ \A i \in 1 .. Len(l) : Append(l, z)[i] = l[i]
        /\ Append(l, z)[Len(l) + 1] = z
    BY <1>2, <1>7
  <2>2. \A i \in 1 .. Len(l) : i \in 1 .. Len(l) + 1
    BY <2>1
  <2>3. Len(l) + 1 \in 1 .. Len(l) + 1
    BY <2>1
  <2> QED
    BY <2>1, <2>2, <2>3 DEF Ui!Contains
<1>9. /\ screens' \in [Ui!ScreenSlots -> [used : BOOLEAN, list : Seq(Ui!WidgetSlots)]]
      /\ \A x \in Ui!ScreenSlots : screens'[x].used = screens[x].used
      /\ \A x \in Ui!ScreenSlots \ {s} : screens'[x] = screens[x]
      /\ screens'[s].list = Append(l, z)
  BY <1>1, <1>7, <1>8 DEF UiInv, UiTyped
<1>10. UiTyped'
  BY <1>3, <1>5, <1>6, <1>9 DEF UiInv, UiTyped
<1>11. Ui!WidgetsAreListed'
  <2> SUFFICES ASSUME NEW w \in Ui!WidgetSlots, widgets'[w].used
               PROVE  /\ widgets'[w].screen \in Ui!ScreenSlots /\ screens'[widgets'[w].screen].used
                      /\ Ui!Contains(screens'[widgets'[w].screen].list, w)
    BY DEF Ui!WidgetsAreListed, Ui!Widget, Ui!Screen, Ui!List, Ui!Contains
  <2>1. CASE w = z
    BY <1>3, <1>4, <1>5, <1>8, <1>9, <2>1 DEF Ui!Screen
  <2>2. CASE w # z
    <3>1. widgets'[w] = widgets[w] /\ Ui!Screen(widgets[w].screen) /\
            Ui!Contains(Ui!List(widgets[w].screen), w)
      BY <1>5, <2>2 DEF UiInv, Ui!WidgetsAreListed, Ui!Widget
    <3>2. CASE widgets[w].screen = s
      BY <1>7, <1>8, <1>9, <3>1, <3>2 DEF Ui!Screen, Ui!List
    <3>3. CASE widgets[w].screen # s
      BY <1>9, <3>1, <3>3 DEF Ui!Screen, Ui!List
    <3> QED
      BY <3>2, <3>3
  <2> QED
    BY <2>1, <2>2
<1>12. Ui!CurrentExists'
  BY <1>3, <1>9 DEF UiInv, Ui!CurrentExists, Ui!Screen
<1>13. CallbackTold'
  BY <1>4, <1>5, <1>6 DEF UiInv, CallbackTold, Ui!Widget
<1> QED
  BY <1>10, <1>11, <1>12, <1>13 DEF UiInv

\* A touch reaches a widget.
LEMMA TouchKeeps ==
  ASSUME UiInv, NEW p \in Spots, NEW pressed \in BOOLEAN, Ui!Touch(p, pressed)
  PROVE  UiInv'
<1> DEFINE hits == {i \in 1 .. Len(Ui!Current) : Ui!Hit(i, p, pressed)}
<1>0. Ui!Current \in Seq(Ui!WidgetSlots)
  BY DEF UiInv, UiTyped, Ui!Current, Ui!Screen, Ui!List
<1>1. PICK w \in Ui!WidgetSlots : /\ Ui!Widget(w) /\ Ui!Changes(w, pressed)
                                  /\ widgets' = [widgets EXCEPT ![w].pressed = pressed,
                                     ![w].dirty = TRUE]
                                  /\ sent' = [sent EXCEPT ![w] = Ui!Event(w, pressed)]
  <2>1. hits \in SUBSET Nat /\ hits # {}
    BY DEF Ui!Touch
  <2>2. Ui!Min(hits) \in hits
    <3>1. \E x \in hits : \A y \in hits : x <= y
      BY <2>1, Least
    <3> QED
      BY <3>1 DEF Ui!Min
  <2>3. Ui!Min(hits) \in 1 .. Len(Ui!Current) /\ Ui!Hit(Ui!Min(hits), p, pressed)
    BY <2>2
  <2>4. Ui!Current[Ui!Min(hits)] \in Ui!WidgetSlots
    BY <1>0, <2>3
  <2> QED
    BY <2>3, <2>4 DEF Ui!Touch, Ui!Hit
<1>2. UNCHANGED <<screens, current>>
  BY DEF Ui!Touch
<1> HIDE DEF hits
<1>3. /\ widgets' \in [Ui!WidgetSlots -> WidgetRecord]
      /\ \A v \in Ui!WidgetSlots : widgets'[v].used = widgets[v].used /\
           widgets'[v].screen = widgets[v].screen
      /\ \A v \in Ui!WidgetSlots \ {w} : widgets'[v] = widgets[v]
      /\ widgets'[w].pressed = pressed
  BY <1>1 DEF UiInv, UiTyped, WidgetRecord
<1>4. Ui!Event(w, pressed) = IF pressed THEN "pressed" ELSE "released"
  <2>1. (sent[w] = "pressed") <=> ~pressed
    BY <1>1 DEF UiInv, UiTyped, WidgetRecord, CallbackTold, Ui!Changes
  <2>2. CASE pressed = TRUE
    BY <2>1, <2>2 DEF Ui!Event
  <2>3. CASE pressed = FALSE
    BY <2>1, <2>3 DEF Ui!Event
  <2> QED
    BY <2>2, <2>3
<1>5. /\ sent' \in [Ui!WidgetSlots -> {"none", "pressed", "released"}]
      /\ \A v \in Ui!WidgetSlots \ {w} : sent'[v] = sent[v]
      /\ sent'[w] = IF pressed THEN "pressed" ELSE "released"
  BY <1>1, <1>4 DEF UiInv, UiTyped
<1>6. UiTyped'
  BY <1>2, <1>3, <1>5 DEF UiInv, UiTyped
<1>7. Ui!WidgetsAreListed' /\ Ui!CurrentExists'
  BY <1>2, <1>3 DEF UiInv, Ui!WidgetsAreListed, Ui!CurrentExists, Ui!Widget, Ui!Screen, Ui!List,
     Ui!Contains
<1>8. CallbackTold'
  BY <1>3, <1>5 DEF UiInv, CallbackTold, Ui!Widget
<1> QED
  BY <1>6, <1>7, <1>8 DEF UiInv

\* Every step keeps the invariant.
LEMMA UiNext == UiInv /\ [Ui!Next]_(Ui!vars) => UiInv'
<1>1. ASSUME UiInv, UNCHANGED Ui!vars PROVE UiInv'
  BY <1>1 DEF Ui!vars, UiInv, UiTyped, Ui!WidgetsAreListed, Ui!CurrentExists, CallbackTold,
     Ui!Widget, Ui!Screen, Ui!List, Ui!Contains
<1> QED
  BY <1>1, UiChanges, UiMarks, CreateScreenKeeps, DestroyScreenKeeps, CreateWidgetKeeps,
     TouchKeeps DEF Ui!Next

\* A widget in use is listed by a screen in use, the current screen exists and a
\* callback sees presses and releases in turns, for tables of any size
\* (ui_framework.c).
THEOREM WidgetsAreKept == Ui!Spec => []Ui!UiSound
<1>1. Ui!Init => UiInv
  <2> SUFFICES ASSUME Ui!Init PROVE UiInv
    OBVIOUS
  <2>1. Ui!NoWidget \in WidgetRecord /\ ~Ui!NoWidget.used
    BY DEF Ui!NoWidget, WidgetRecord, WidgetPlaces
  <2>2. [used |-> FALSE, list |-> <<>>] \in [used : BOOLEAN, list : Seq(Ui!WidgetSlots)]
    OBVIOUS
  <2>3. UiTyped
    BY <2>1, <2>2 DEF Ui!Init, UiTyped
  <2> QED
    BY <2>1, <2>3 DEF Ui!Init, UiInv, Ui!WidgetsAreListed, Ui!CurrentExists, CallbackTold, Ui!Widget
<1>2. UiInv => Ui!UiSound
  BY DEF UiInv, Ui!UiSound, UiTyped, Ui!EventsAlternate
<1> QED
  BY <1>1, <1>2, UiNext, PTL DEF Ui!Spec

-----------------------------------------------------------------------------
(* The app loader, and what is proved of it.                                *)

Loader == INSTANCE AppLoader WITH
  Threads <- Callers, apps <- loaderApps, count <- loaderCount, heap <- loaderHeap,
  call <- loaderCall

LoaderOK == Loader!IsFiniteSet(Callers) /\ Slots \in SUBSET Nat /\ Loader!IsFiniteSet(Slots)

\* The finite sets of AppLoader are those of the library.
LEMMA LoaderSets == \A S : /\ Loader!Cardinality(S) = Cardinality(S)
                           /\ Loader!IsFiniteSet(S) <=> IsFiniteSet(S)
BY DEF Loader!Cardinality, Cardinality, Loader!IsFiniteSet, IsFiniteSet

LoaderStates == {"unloaded", "loaded", "running", "paused"}
LoadedApps == [used : BOOLEAN, state : LoaderStates, caps : SUBSET Caps, id : Nat]
LoaderPoints == DOMAIN Loader!To \cup {"idle", "flash", "caps"}
LoaderCalls == [at : LoaderPoints, slot : Slots \cup {0}, id : Nat, caps : SUBSET Caps]
Flashing == {t \in Callers : Loader!At(t, "flash")}

\* What the variables may be, and the two counts.
LoaderInv ==
  /\ loaderApps \in [Slots -> LoadedApps] /\ loads \in [memory : Nat, flash : Nat]
  /\ loaderCall \in [Callers -> LoaderCalls]
  /\ loaderHeap = Loader!Cardinality(Loader!Used) + Loader!Cardinality(Flashing) + loads.flash
  /\ loaderCount = Loader!Cardinality(Loader!Used)

\* Finitely many slots are used, and finitely many calls write to flash.
LEMMA LoaderFinite ==
  ASSUME LoaderOK
  PROVE  /\ Loader!IsFiniteSet(Loader!Used) /\ Loader!Cardinality(Loader!Used) \in Nat
         /\ Loader!IsFiniteSet(Flashing) /\ Loader!Cardinality(Flashing) \in Nat
<1>1. Loader!Used \subseteq Slots /\ Flashing \subseteq Callers
  BY DEF Loader!Used, Flashing
<1> QED
  BY <1>1, LoaderSets, FS_Subset, FS_CardinalityType DEF LoaderOK

\* The record of one thread changes.
LEMMA LoaderCallSet ==
  ASSUME LoaderOK, LoaderInv, NEW t \in Callers, NEW v \in LoaderCalls,
         loaderCall' = [loaderCall EXCEPT ![t] = v]
  PROVE  /\ loaderCall' \in [Callers -> LoaderCalls]
         /\ Flashing' = IF v.at = "flash" THEN Flashing \cup {t} ELSE Flashing \ {t}
         /\ Loader!Cardinality(Flashing') =
              IF v.at = "flash" THEN IF Loader!At(t, "flash") THEN Loader!Cardinality(Flashing)
                ELSE Loader!Cardinality(Flashing) + 1
              ELSE IF Loader!At(t, "flash") THEN Loader!Cardinality(Flashing) - 1
                ELSE Loader!Cardinality(Flashing)
<1>1. /\ loaderCall' \in [Callers -> LoaderCalls] /\ loaderCall'[t] = v
      /\ \A u \in Callers \ {t} : loaderCall'[u] = loaderCall[u]
  BY DEF LoaderInv
<1>2. Flashing' = IF v.at = "flash" THEN Flashing \cup {t} ELSE Flashing \ {t}
  BY <1>1 DEF Flashing, Loader!At
<1>3. t \in Flashing <=> Loader!At(t, "flash")
  BY DEF Flashing
<1>4. CASE v.at = "flash"
  BY <1>1, <1>2, <1>3, <1>4, LoaderFinite, LoaderSets, FS_AddElement
<1>5. CASE v.at # "flash"
  BY <1>1, <1>2, <1>3, <1>5, LoaderFinite, LoaderSets, FS_RemoveElement
<1> QED
  BY <1>1, <1>2, <1>4, <1>5

\* An app is stored in a free slot.
LEMMA LoaderStores ==
  ASSUME LoaderOK, LoaderInv, NEW kind \in {"memory", "flash"}, Loader!Store(kind)
  PROVE  /\ loaderApps' \in [Slots -> LoadedApps] /\ loads' \in [memory : Nat, flash : Nat]
         /\ Loader!Cardinality(Loader!Used') = Loader!Cardinality(Loader!Used) + 1 /\
              loaderCount' = loaderCount + 1 /\ loaderHeap' = loaderHeap + 1
         /\ loads'.flash = IF kind = "flash" THEN loads.flash + 1 ELSE loads.flash
<1>1. PICK h \in Slots \ Loader!Used : h = Loader!Min(Slots \ Loader!Used)
  <2>1. Slots \ Loader!Used \in SUBSET Nat /\ Slots \ Loader!Used # {}
    BY DEF Loader!Store, LoaderOK, Loader!Used
  <2> QED
    BY <2>1, Least DEF Loader!Min
<1> DEFINE r == [used |-> TRUE, state |-> "loaded", caps |-> {},
    id |-> loads.memory + loads.flash + 1]
<1>2. loaderApps' = [loaderApps EXCEPT ![h] = r]
  BY <1>1 DEF Loader!Store, Loader!Loaded
<1>3. r \in LoadedApps /\ r.used
  BY DEF LoadedApps, LoaderStates, LoaderInv
<1> HIDE DEF r
<1>4. /\ loaderApps' \in [Slots -> LoadedApps] /\ loaderApps'[h] = r
      /\ \A g \in Slots \ {h} : loaderApps'[g] = loaderApps[g]
  BY <1>1, <1>2, <1>3 DEF LoaderInv
<1>5. Loader!Used' = Loader!Used \cup {h}
  BY <1>1, <1>3, <1>4 DEF Loader!Used
<1>6. Loader!Cardinality(Loader!Used') = Loader!Cardinality(Loader!Used) + 1
  BY <1>1, <1>5, LoaderFinite, LoaderSets, FS_AddElement
<1>7. /\ loads' = [loads EXCEPT ![kind] = @ + 1] /\ loads \in [memory : Nat, flash : Nat]
      /\ loaderCount' = loaderCount + 1 /\ loaderHeap' = loaderHeap + 1
  BY DEF Loader!Store, LoaderInv
<1>8. CASE kind = "memory"
  BY <1>4, <1>6, <1>7, <1>8
<1>9. CASE kind = "flash"
  BY <1>4, <1>6, <1>7, <1>9
<1> QED
  BY <1>8, <1>9

\* Loading, from memory and from flash.
LEMMA LoaderLoads ==
  ASSUME LoaderOK, LoaderInv, NEW t \in Callers,
         Loader!LoadMemory(t) \/ Loader!FlashRead(t) \/ Loader!FlashLoad(t) \/ Loader!FlashFail(t)
  PROVE  LoaderInv'
<1>0. /\ Loader!Idle \in LoaderCalls /\ Loader!Idle.at = "idle" /\ loaderCall[t] \in LoaderCalls
      /\ Loader!Cardinality(Loader!Used) \in Nat /\ Loader!Cardinality(Flashing) \in Nat /\
           loads.flash \in Nat
  BY LoaderFinite DEF Loader!Idle, LoaderCalls, LoaderPoints, LoaderInv
<1>1. CASE Loader!LoadMemory(t)
  <2>1. loaderCall' = loaderCall /\ Flashing' = Flashing
    BY <1>1 DEF Loader!LoadMemory, Flashing, Loader!At
  <2>2. /\ loaderApps' \in [Slots -> LoadedApps] /\ loads' \in [memory : Nat, flash : Nat]
        /\ Loader!Cardinality(Loader!Used') = Loader!Cardinality(Loader!Used) + 1 /\
             loaderCount' = loaderCount + 1 /\ loaderHeap' = loaderHeap + 1
        /\ loads'.flash = loads.flash
    BY <1>1, LoaderStores DEF Loader!LoadMemory
  <2> QED
    BY <1>0, <2>1, <2>2 DEF LoaderInv
<1>2. CASE Loader!FlashRead(t)
  <2> DEFINE v == [loaderCall[t] EXCEPT !.at = "flash"]
  <2>1. v \in LoaderCalls /\ v.at = "flash"
    BY <1>0 DEF LoaderCalls, LoaderPoints
  <2>2. loaderCall' = [loaderCall EXCEPT ![t] = v] /\ ~Loader!At(t, "flash") /\
          loaderHeap' = loaderHeap + 1 /\ UNCHANGED <<loaderApps, loaderCount, loads>>
    BY <1>2 DEF Loader!FlashRead, Loader!At
  <2> HIDE DEF v
  <2>3. loaderCall' \in [Callers -> LoaderCalls] /\
          Loader!Cardinality(Flashing') = Loader!Cardinality(Flashing) + 1
    BY <2>1, <2>2, LoaderCallSet
  <2>4. Loader!Used' = Loader!Used
    BY <2>2 DEF Loader!Used
  <2> QED
    BY <1>0, <2>2, <2>3, <2>4 DEF LoaderInv
<1>3. CASE Loader!FlashLoad(t)
  <2>1. loaderCall' = [loaderCall EXCEPT ![t] = Loader!Idle] /\ Loader!At(t, "flash")
    BY <1>3 DEF Loader!FlashLoad, Loader!Return
  <2>2. loaderCall' \in [Callers -> LoaderCalls] /\
          Loader!Cardinality(Flashing') = Loader!Cardinality(Flashing) - 1
    BY <1>0, <2>1, LoaderCallSet
  <2>3. /\ loaderApps' \in [Slots -> LoadedApps] /\ loads' \in [memory : Nat, flash : Nat]
        /\ Loader!Cardinality(Loader!Used') = Loader!Cardinality(Loader!Used) + 1 /\
             loaderCount' = loaderCount + 1 /\ loaderHeap' = loaderHeap + 1
        /\ loads'.flash = loads.flash + 1
    BY <1>3, LoaderStores DEF Loader!FlashLoad
  <2> QED
    BY <1>0, <2>2, <2>3 DEF LoaderInv
<1>4. CASE Loader!FlashFail(t)
  <2>1. loaderCall' = [loaderCall EXCEPT ![t] = Loader!Idle] /\ Loader!At(t, "flash") /\
          loaderHeap' = loaderHeap - 1 /\ UNCHANGED <<loaderApps, loaderCount, loads>>
    BY <1>4 DEF Loader!FlashFail, Loader!Return
  <2>2. loaderCall' \in [Callers -> LoaderCalls] /\
          Loader!Cardinality(Flashing') = Loader!Cardinality(Flashing) - 1
    BY <1>0, <2>1, LoaderCallSet
  <2>4. Loader!Used' = Loader!Used
    BY <2>1 DEF Loader!Used
  <2> QED
    BY <1>0, <2>1, <2>2, <2>4 DEF LoaderInv
<1> QED
  BY <1>1, <1>2, <1>3, <1>4

\* An app is unloaded.
LEMMA LoaderUnloads ==
  ASSUME LoaderOK, LoaderInv, NEW t \in Callers, NEW h \in Slots, Loader!Unload(t, h)
         PROVE LoaderInv'
<1>1. /\ h \in Loader!Used /\ loaderCount' = loaderCount - 1 /\ loaderHeap' = loaderHeap - 1 /\
           UNCHANGED <<loads, loaderCall>>
      /\ loaderApps' = [loaderApps EXCEPT ![h].used = FALSE, ![h].state = IF @ = "running"
           THEN "loaded" ELSE @]
      /\ loaderApps[h] \in LoadedApps
  BY DEF Loader!Unload, Loader!Freed, LoaderInv
<1> DEFINE r == [[loaderApps[h] EXCEPT !.used = FALSE] EXCEPT !.state = IF @ = "running"
      THEN "loaded" ELSE @]
<1>2. loaderApps' = [loaderApps EXCEPT ![h] = r]
  BY <1>1 DEF LoaderInv
<1>3. r \in LoadedApps /\ ~r.used
  BY <1>1 DEF LoadedApps, LoaderStates
<1> HIDE DEF r
<1>4. /\ loaderApps' \in [Slots -> LoadedApps] /\ loaderApps'[h] = r
      /\ \A g \in Slots \ {h} : loaderApps'[g] = loaderApps[g]
  BY <1>2, <1>3 DEF LoaderInv
<1>5. Loader!Used' = Loader!Used \ {h}
  BY <1>3, <1>4 DEF Loader!Used
<1>6. Loader!Cardinality(Loader!Used') = Loader!Cardinality(Loader!Used) - 1
  BY <1>1, <1>5, LoaderFinite, LoaderSets, FS_RemoveElement
<1>7. Flashing' = Flashing
  BY <1>1 DEF Flashing, Loader!At
<1>8. Loader!Cardinality(Loader!Used) \in Nat /\ Loader!Cardinality(Flashing) \in Nat /\
        loads.flash \in Nat
  BY LoaderFinite DEF LoaderInv
<1> QED
  BY <1>1, <1>4, <1>6, <1>7, <1>8 DEF LoaderInv

\* The calls that change an app look it up, and change it later.
LEMMA LoaderChanges ==
  ASSUME LoaderOK, LoaderInv, NEW t \in Callers,
         \/ \E h \in Slots : \E op \in DOMAIN Loader!To : Loader!Look(t, op, h)
         \/ \E h \in Slots, c \in Caps, given \in BOOLEAN : Loader!Change(t, h, c, given)
         \/ Loader!Set(t) \/ Loader!Write(t)
  PROVE  LoaderInv'
<1>0. /\ Loader!Idle \in LoaderCalls /\ Loader!Idle.at = "idle" /\ loaderCall[t] \in LoaderCalls
      /\ \A op \in DOMAIN Loader!To : op # "flash" /\ op \in LoaderPoints /\
           Loader!To[op] \in LoaderStates
  BY DEF Loader!Idle, LoaderCalls, LoaderPoints, LoaderInv, Loader!To, LoaderStates
<1>1. ASSUME NEW v \in LoaderCalls, v.at # "flash", ~Loader!At(t, "flash"),
             loaderCall' = [loaderCall EXCEPT ![t] = v],
             UNCHANGED <<loaderCount, loaderHeap, loads>>, loaderApps' \in [Slots -> LoadedApps],
             \A g \in Slots : loaderApps'[g].used = loaderApps[g].used
      PROVE  LoaderInv'
  <2>1. loaderCall' \in [Callers -> LoaderCalls] /\
          Loader!Cardinality(Flashing') = Loader!Cardinality(Flashing)
    BY <1>1, LoaderCallSet
  <2>2. Loader!Used' = Loader!Used
    BY <1>1 DEF Loader!Used
  <2> QED
    BY <1>1, <2>1, <2>2 DEF LoaderInv
<1>2. ASSUME NEW h \in Slots, NEW op \in DOMAIN Loader!To, Loader!Look(t, op, h) PROVE LoaderInv'
  <2> DEFINE v == [at |-> op, slot |-> h, id |-> loaderApps[h].id, caps |-> {}]
  <2>1. v \in LoaderCalls /\ v.at # "flash"
    BY <1>0 DEF LoaderCalls, LoaderInv, LoadedApps
  <2>2. loaderCall' = [loaderCall EXCEPT ![t] = v] /\ ~Loader!At(t, "flash") /\
          UNCHANGED <<loaderApps, loaderCount, loaderHeap, loads>>
    BY <1>2 DEF Loader!Look, Loader!Enter, Loader!At
  <2> HIDE DEF v
  <2> QED
    BY <1>1, <2>1, <2>2 DEF LoaderInv
<1>3. ASSUME NEW h \in Slots, NEW c \in Caps, NEW given \in BOOLEAN, Loader!Change(t, h, c, given)
      PROVE  LoaderInv'
  <2> DEFINE cs == IF given THEN loaderApps[h].caps \cup {c} ELSE loaderApps[h].caps \ {c}
             v == [at |-> "caps", slot |-> h, id |-> loaderApps[h].id, caps |-> cs]
  <2>1. cs \subseteq Caps
    BY DEF LoaderInv, LoadedApps
  <2>2. loaderCall' = [loaderCall EXCEPT ![t] = v] /\ ~Loader!At(t, "flash") /\
          UNCHANGED <<loaderApps, loaderCount, loaderHeap, loads>>
    BY <1>3 DEF Loader!Change, Loader!Enter, Loader!At
  <2> HIDE DEF cs
  <2>3. v \in LoaderCalls /\ v.at # "flash"
    BY <2>1 DEF LoaderCalls, LoaderInv, LoadedApps, LoaderPoints
  <2> HIDE DEF v
  <2> QED
    BY <1>1, <2>2, <2>3 DEF LoaderInv
<1>4. CASE Loader!Set(t)
  <2>1. /\ loaderCall[t].at \in DOMAIN Loader!To /\
             loaderCall' = [loaderCall EXCEPT ![t] = Loader!Idle] /\
               UNCHANGED <<loaderCount, loaderHeap, loads>>
        /\ loaderApps' = [loaderApps EXCEPT ![loaderCall[t].slot].state = Loader!To[loaderCall[t].at]]
    BY <1>4 DEF Loader!Set, Loader!Return
  <2>2. Loader!To[loaderCall[t].at] \in LoaderStates /\ ~Loader!At(t, "flash")
    BY <1>0, <2>1 DEF Loader!At
  <2>3. loaderApps' \in [Slots -> LoadedApps] /\
          \A g \in Slots : loaderApps'[g].used = loaderApps[g].used
    BY <2>1, <2>2 DEF LoaderInv, LoadedApps
  <2> QED
    BY <1>0, <1>1, <2>1, <2>2, <2>3
<1>5. CASE Loader!Write(t)
  <2>1. /\ loaderCall[t].at = "caps" /\ loaderCall' = [loaderCall EXCEPT ![t] = Loader!Idle] /\
             UNCHANGED <<loaderCount, loaderHeap, loads>>
        /\ loaderApps' = [loaderApps EXCEPT ![loaderCall[t].slot].caps = loaderCall[t].caps]
    BY <1>5 DEF Loader!Write, Loader!Return, Loader!At
  <2>2. loaderCall[t].caps \in SUBSET Caps /\ ~Loader!At(t, "flash")
    BY <1>0, <2>1 DEF Loader!At, LoaderCalls
  <2>3. loaderApps' \in [Slots -> LoadedApps] /\
          \A g \in Slots : loaderApps'[g].used = loaderApps[g].used
    BY <2>1, <2>2 DEF LoaderInv, LoadedApps
  <2> QED
    BY <1>0, <1>1, <2>1, <2>2, <2>3
<1> QED
  BY <1>2, <1>3, <1>4, <1>5

\* Every step keeps the invariant.
LEMMA LoaderKeeps == LoaderOK /\ LoaderInv /\ [Loader!Next]_(Loader!vars) => LoaderInv'
<1> SUFFICES ASSUME LoaderOK, LoaderInv, [Loader!Next]_(Loader!vars) PROVE LoaderInv'
  OBVIOUS
<1>1. CASE UNCHANGED Loader!vars
  <2>1. Loader!Used' = Loader!Used /\ Flashing' = Flashing
    BY <1>1 DEF Loader!vars, Loader!Used, Flashing, Loader!At
  <2> QED
    BY <1>1, <2>1 DEF Loader!vars, LoaderInv
<1>2. CASE Loader!Next
  <2>1. PICK t \in Callers :
         \/ Loader!LoadMemory(t) \/ Loader!FlashRead(t) \/ Loader!FlashLoad(t) \/
              Loader!FlashFail(t) \/ Loader!Set(t) \/ Loader!Write(t)
         \/ \E h \in Slots : Loader!Unload(t, h) \/
              \E op \in DOMAIN Loader!To : Loader!Look(t, op, h)
         \/ \E h \in Slots, c \in Caps, given \in BOOLEAN : Loader!Change(t, h, c, given)
    BY <1>2 DEF Loader!Next
  <2>2. CASE Loader!LoadMemory(t) \/ Loader!FlashRead(t) \/ Loader!FlashLoad(t) \/
               Loader!FlashFail(t)
    BY <2>2, LoaderLoads
  <2>3. CASE \E h \in Slots : Loader!Unload(t, h)
    BY <2>3, LoaderUnloads
  <2>4. CASE \/ \E h \in Slots : \E op \in DOMAIN Loader!To : Loader!Look(t, op, h)
             \/ \E h \in Slots, c \in Caps, given \in BOOLEAN : Loader!Change(t, h, c, given)
             \/ Loader!Set(t) \/ Loader!Write(t)
    BY <2>4, LoaderChanges
  <2> QED
    BY <2>1, <2>2, <2>3, <2>4
<1> QED
  BY <1>1, <1>2

\* The loader counts its apps; each of them and each load in progress has its
\* buffer, and nothing else has one but copied loads from flash (app_loader.c).
THEOREM BuffersAreCounted == ASSUME LoaderOK PROVE Loader!Spec => []Loader!LoaderSound
<1>1. Loader!Init => LoaderInv
  <2> SUFFICES ASSUME Loader!Init PROVE LoaderInv
    OBVIOUS
  <2>1. Loader!NoApp \in LoadedApps /\ ~Loader!NoApp.used /\ Loader!Idle \in LoaderCalls /\
          Loader!Idle.at = "idle"
    BY DEF Loader!NoApp, LoadedApps, LoaderStates, Loader!Idle, LoaderCalls, LoaderPoints
  <2>2. loaderApps = [h \in Slots |-> Loader!NoApp] /\
          loaderCall = [t \in Callers |-> Loader!Idle] /\ loads = [memory |-> 0, flash |-> 0]
        /\ loaderHeap = 0 /\ loaderCount = 0
    BY DEF Loader!Init
  <2>3. Loader!Used = {} /\ Flashing = {}
    BY <2>1, <2>2 DEF Loader!Used, Flashing, Loader!At
  <2> QED
    BY <2>1, <2>2, <2>3, LoaderSets, FS_EmptySet DEF LoaderInv
<1>2. LoaderInv => Loader!LoaderSound
  <2> SUFFICES ASSUME LoaderInv PROVE Loader!LoaderSound
    OBVIOUS
  <2>1. Loader!InProgress = Flashing
    BY DEF Loader!InProgress, Flashing
  <2>2. Loader!Cardinality(Loader!Used) \in Nat /\ Loader!Cardinality(Flashing) \in Nat /\ loads.flash \in Nat
    BY LoaderFinite DEF LoaderInv
  <2>3. loaderHeap - Loader!Cardinality(Loader!Used) - Loader!Cardinality(Flashing) = loads.flash
    BY <2>2 DEF LoaderInv
  <2> QED
    BY <2>1, <2>2, <2>3 DEF LoaderInv, Loader!LoaderSound, Loader!BuffersAreKnown, Loader!CountIsUsed
<1> QED
  BY <1>1, <1>2, LoaderKeeps, PTL DEF Loader!Spec

-----------------------------------------------------------------------------
(* The components side by side.                                           *)

User == INSTANCE UserSettings WITH
  Threads <- Callers, Settable <- {"wifi_ssid"}, MaxBoots <- 1,
  call <- userCall

Flash == INSTANCE AkiraSettings WITH
  Threads <- {"t"}, Keys <- {"a", "b"}, Values <- {"1"},
  Config <- [len |-> 2, keys |-> 2],
  Limits <- {[len |-> 3, keys |-> 1]},
  MaxIndex <- 3, MaxQueued <- 1, job <- flashJob,
  call <- flashCall, faults <- flashFaults, acked <- flashAcked,
  lists <- flashLists

Sd == INSTANCE SdSettings WITH
  Names <- {<<"wifi", "ssid">>, <<"wifi", "psk">>, <<"bt", "name">>},
  Values <- (<<"wifi", "ssid">> :> {"1", "2"}) @@ (<<"wifi", "psk">> :> {"1"}) @@ (<<"bt", "name">> :> {"1"}),
  MaxKeys <- 2, MaxFaults <- 2, files <- sdFiles, ram <- sdRam,
  job <- sdJob, faults <- sdFaults, acked <- sdAcked

\* What the proofs ask of the constants.
ASSUME PlatformAssumption ==
  FsOK /\ CardOK /\ StorageOK /\ LoaderOK /\ RuntimeOK /\ PowerOK /\ MaxDrivers \in Nat

Symmetry == Permutations(Callers)

\* What the configurations give the constants that are sequences.
TwoFiles == {<<1>>, <<2, 2>>}
TwoCardNames == {<<"a">>, <<"a", "b">>}
NoJson == {<<>>}
TwoCardBinaries == {<<1, 1>>, <<3, 3, 3>>}
TwoBinaries == {<<1>>, <<2, 3>>}
ThreeContainers == {<<"a">>, <<"b">>, <<"a", "b">>}

\* A component in focus starts from anything that may be on the disk, from any
\* two apps on the card and with any speed; those that rest start from one
\* state each.
PlatformInit ==
  /\ focus \in {"files", "card", "storage", "user", "flash", "sd",
               "loader", "runtime", "power", "ui", "hal", "drivers"}
  /\ Fs!Init /\ Card!Init /\ Storage!Init /\ User!Init /\ Flash!Init
  /\ Sd!Init /\ Loader!Init /\ Runtime!Init /\ Power!Init /\ Ui!Init
  /\ Hw!Init
  /\ focus # "files" => DOMAIN fsDisk = {}
  /\ focus # "hal" => speed = 1
  /\ \A n \in DOMAIN card : card[n] = Card!Absent <=> focus # "card"

\* What the bounds leave some components: nothing to do, and nobody in the
\* middle of anything.  One that stops elsewhere is a deadlock.
PlatformRests ==
  \/ focus = "card" /\ holder = NoCaller /\ \A t \in Callers : cardCall[t].at = "idle"
  \/ focus = "flash" /\ up = "down" /\ queue = <<>> /\ flashJob = Flash!NoJob

PlatformNext ==
  /\ UNCHANGED focus
  /\ \/ /\ focus = "files" /\ Fs!Next
        /\ UNCHANGED <<cardVars, storageVars, userVars, flashVars, sdVars,
                        loaderVars, runtimeVars, powerVars, uiVars, hwVars>>
     \/ /\ focus = "card" /\ Card!Next
        /\ UNCHANGED <<fsVars, storageVars, userVars, flashVars, sdVars,
                        loaderVars, runtimeVars, powerVars, uiVars, hwVars>>
     \/ /\ focus = "storage" /\ Storage!Next
        /\ UNCHANGED <<fsVars, cardVars, userVars, flashVars, sdVars,
                        loaderVars, runtimeVars, powerVars, uiVars, hwVars>>
     \/ /\ focus = "user" /\ User!Next
        /\ UNCHANGED <<fsVars, cardVars, storageVars, flashVars, sdVars,
                        loaderVars, runtimeVars, powerVars, uiVars, hwVars>>
     \/ /\ focus = "flash" /\ Flash!Next
        /\ UNCHANGED <<fsVars, cardVars, storageVars, userVars, sdVars,
                        loaderVars, runtimeVars, powerVars, uiVars, hwVars>>
     \/ /\ focus = "sd" /\ Sd!Next
        /\ UNCHANGED <<fsVars, cardVars, storageVars, userVars, flashVars,
                        loaderVars, runtimeVars, powerVars, uiVars, hwVars>>
     \/ /\ focus = "loader" /\ Loader!Next
        /\ UNCHANGED <<fsVars, cardVars, storageVars, userVars, flashVars,
                        sdVars, runtimeVars, powerVars, uiVars, hwVars>>
     \/ /\ focus = "runtime" /\ Runtime!Next
        /\ UNCHANGED <<fsVars, cardVars, storageVars, userVars, flashVars,
                        sdVars, loaderVars, powerVars, uiVars, hwVars>>
     \/ /\ focus = "power" /\ Power!Next
        /\ UNCHANGED <<fsVars, cardVars, storageVars, userVars, flashVars,
                        sdVars, loaderVars, runtimeVars, uiVars, hwVars>>
     \/ /\ focus = "ui" /\ Ui!Next
        /\ UNCHANGED <<fsVars, cardVars, storageVars, userVars, flashVars,
                        sdVars, loaderVars, runtimeVars, powerVars, hwVars>>
     \/ /\ focus = "hal" /\ Hw!HandlesNext
        /\ UNCHANGED <<fsVars, cardVars, storageVars, userVars, flashVars,
                        sdVars, loaderVars, runtimeVars, powerVars, uiVars>>
     \/ /\ focus = "drivers" /\ Hw!DriversNext
        /\ UNCHANGED <<fsVars, cardVars, storageVars, userVars, flashVars,
                        sdVars, loaderVars, runtimeVars, powerVars, uiVars>>
     \/ PlatformRests /\ UNCHANGED <<fsVars, cardVars, storageVars, userVars, flashVars,
                        sdVars, loaderVars, runtimeVars, powerVars, uiVars,
                        hwVars>>

platformVars ==
  <<focus, fsVars, cardVars, storageVars, userVars, flashVars, sdVars, loaderVars,
    runtimeVars, powerVars, uiVars, hwVars>>
PlatformSpec == PlatformInit /\ [][PlatformNext]_platformVars

\* The runtime alone.
RuntimeInit == focus = "runtime" /\ PlatformInit
RuntimeSpec == RuntimeInit /\ [][PlatformNext]_platformVars

-----------------------------------------------------------------------------
(* Properties.                                                             *)

\* Every component's variables keep their types.
PlatformTyped ==
  /\ focus = "files" => Fs!TypeOK
  /\ focus = "card" => Card!TypeOK
  /\ focus = "storage" => Storage!TypeOK
  /\ focus = "user" => User!TypeOK
  /\ focus = "flash" => Flash!TypeOK
  /\ focus = "sd" => Sd!TypeOK
  /\ focus = "loader" => Loader!TypeOK
  /\ focus = "runtime" => Runtime!TypeOK
  /\ focus = "power" => Power!TypeOK
  /\ focus = "ui" => Ui!TypeOK
  /\ focus = "hal" => Hw!TypeOK
  /\ focus = "drivers" => Hw!TypeOK

\* Files hold what the last answered write stored, the state of the card is
\* what was told of it and its apps are listed and installed whole, and the
\* files of an app are listed and read as they are (fs_manager.c,
\* sd_manager.c, akira_storage_api.c).
StoreSound ==
  /\ focus = "files" => Fs!StoreSound
  /\ focus = "card" => Card!StorageSound
  /\ focus = "storage" => Storage!FilesSound


\* The loader has a buffer for each app and load in progress, beside these at
\* most one for each load from flash, and counts its apps; a container
\* runs the image of its app and no image of a failed install is left, and the
\* power policy in force is the strictest one given (app_loader.c,
\* akira_runtime.c, power_manager.c).
AppsSound ==
  /\ focus = "loader" => Loader!LoaderSound
  /\ focus = "runtime" => Runtime!RuntimeSound
  /\ focus = "power" => Power!PoliciesSound

\* A widget is listed by its screen and is pressed and released in turns, an
\* interrupt calls open handles with the data of their callback, and a driver
\* is found where it was until an earlier one leaves (ui_framework.c, hal.c,
\* driver_registry.c).
DevicesSound ==
  /\ focus = "ui" => Ui!UiSound
  /\ focus = "hal" => Hw!HandlesSound
  /\ focus = "drivers" => Hw!DriversSound

\* An install that goes on to create the container has what it was given in
\* the file that OCRE reads (akira_runtime.h: "Save WASM binary to OCRE's
\* image path").
SavedIsImage == Runtime!SavedIsImage
-----------------------------------------------------------------------------
(* The components side by side: what is proved of one holds of it beside the *)
(* others, with which it shares no variable.                                 *)

\* A step is one of the component in focus and leaves the others alone.
LEMMA PlatformSteps ==
  ASSUME [PlatformNext]_platformVars
  PROVE  /\ focus' = focus
         /\ [Fs!Next]_(Fs!vars)
         /\ [Card!Next]_(Card!vars)
         /\ [Storage!Next]_(Storage!vars)
         /\ [Loader!Next]_(Loader!vars)
         /\ [Runtime!Next]_(Runtime!vars)
         /\ [Power!Next]_(Power!vars)
         /\ [Ui!Next]_(Ui!vars)
         /\ [Hw!Next]_(Hw!vars)
<1>1. focus' = focus
  BY DEF PlatformNext, platformVars
<1>2. Fs!Next \/ UNCHANGED fsVars
  BY DEF PlatformNext, platformVars
<1>3. Card!Next \/ UNCHANGED cardVars
  BY DEF PlatformNext, platformVars
<1>4. Storage!Next \/ UNCHANGED storageVars
  BY DEF PlatformNext, platformVars
<1>5. Loader!Next \/ UNCHANGED loaderVars
  BY DEF PlatformNext, platformVars
<1>6. Runtime!Next \/ UNCHANGED runtimeVars
  BY DEF PlatformNext, platformVars
<1>7. Power!Next \/ UNCHANGED powerVars
  BY DEF PlatformNext, platformVars
<1>8. Ui!Next \/ UNCHANGED uiVars
  BY DEF PlatformNext, platformVars
<1>9. Hw!HandlesNext \/ Hw!DriversNext \/ UNCHANGED hwVars
  BY DEF PlatformNext, platformVars
<1>10. /\ UNCHANGED fsVars => UNCHANGED Fs!vars
       /\ UNCHANGED cardVars => UNCHANGED Card!vars
       /\ UNCHANGED storageVars => UNCHANGED Storage!vars
       /\ UNCHANGED loaderVars => UNCHANGED Loader!vars
  BY DEF fsVars, cardVars, storageVars, loaderVars, Fs!vars, Card!vars, Card!mount, Card!media,
         Storage!vars, Loader!vars
<1>11. /\ UNCHANGED runtimeVars => UNCHANGED Runtime!vars
       /\ UNCHANGED powerVars => UNCHANGED Power!vars
       /\ UNCHANGED uiVars => UNCHANGED Ui!vars
       /\ UNCHANGED hwVars => UNCHANGED Hw!vars
  BY DEF runtimeVars, powerVars, uiVars, hwVars, Runtime!vars, Runtime!images, Runtime!ocre,
         Power!vars, Ui!vars, Hw!vars, Hw!handleVars, Hw!driverVars
<1>12. Hw!HandlesNext \/ Hw!DriversNext => Hw!Next
  BY DEF Hw!Next
<1> QED
  BY <1>1, <1>2, <1>3, <1>4, <1>5, <1>6, <1>7, <1>8, <1>9, <1>10, <1>11, <1>12

\* A file reads as the last write that nobody disturbed left it, and the heap
\* holds the buffers of the files in RAM and of appends; the card's state is
\* what was told of it and its apps are whole unless the card changed; a file
\* of the apps is read and listed as it is: for any threads, paths, files,
\* limits and number of faults (fs_manager.c, sd_manager.c, akira_storage_api.c).
THEOREM PlatformStores == PlatformSpec => []StoreSound
<1>1. PlatformInit => Fs!Init /\ Card!Init /\ Storage!Init
  BY DEF PlatformInit
<1>2. [PlatformNext]_platformVars =>
        [Fs!Next]_(Fs!vars) /\ [Card!Next]_(Card!vars) /\ [Storage!Next]_(Storage!vars)
  BY PlatformSteps
<1>3. Fs!StoreSound /\ Card!StorageSound /\ Storage!FilesSound => StoreSound
  BY DEF StoreSound
<1>4. Fs!Spec => []Fs!StoreSound
  BY PlatformAssumption, WritesAreRead
<1>5. Card!Spec => []Card!StorageSound
  BY PlatformAssumption, CardAppsAreWhole
<1>6. Storage!Spec => []Storage!FilesSound
  BY PlatformAssumption, AppFilesAreKept
<1> QED
  BY <1>1, <1>2, <1>3, <1>4, <1>5, <1>6, PTL DEF PlatformSpec, Fs!Spec, Card!Spec, Storage!Spec

\* The loader has a buffer for each app and load in progress, beside these at
\* most one for each load from flash, and counts its apps; a container
\* runs the image of its app unless it was cut short, and, unless two were
\* added at a time, the policy in force is the strictest given: for any callers,
\* slots, containers, images, policies and number of faults (app_loader.c,
\* akira_runtime.c, power_manager.c).
THEOREM PlatformApps == PlatformSpec => []AppsSound
<1>1. PlatformInit => Loader!Init /\ Runtime!Init /\ Power!Init
  BY DEF PlatformInit
<1>2. [PlatformNext]_platformVars =>
        [Loader!Next]_(Loader!vars) /\ [Runtime!Next]_(Runtime!vars) /\ [Power!Next]_(Power!vars)
  BY PlatformSteps
<1>3. Loader!LoaderSound /\ Runtime!RuntimeSound /\ Power!PoliciesSound => AppsSound
  BY DEF AppsSound
<1>4. Loader!Spec => []Loader!LoaderSound
  BY PlatformAssumption, BuffersAreCounted
<1>5. Runtime!Spec => []Runtime!RuntimeSound
  BY PlatformAssumption, ImagesAreRun
<1>6. Power!Spec => []Power!PoliciesSound
  BY PlatformAssumption, StrictestIsInForce
<1> QED
  BY <1>1, <1>2, <1>3, <1>4, <1>5, <1>6, PTL DEF PlatformSpec, Loader!Spec, Runtime!Spec, Power!Spec

\* A widget is listed by its screen and pressed and released in turns; until a
\* handle is closed while in the port's list, an interrupt finds the callbacks
\* of open handles with their data; and a driver is found where it was until an
\* earlier one leaves: for tables, pins and registries of any size
\* (ui_framework.c, hal.c, driver_registry.c).
THEOREM PlatformDevices == PlatformSpec => []DevicesSound
<1>1. PlatformInit => Ui!Init /\ Hw!Init
  BY DEF PlatformInit
<1>2. [PlatformNext]_platformVars => [Ui!Next]_(Ui!vars) /\ [Hw!Next]_(Hw!vars)
  BY PlatformSteps
<1>3. Ui!UiSound /\ Hw!HandlesSound /\ Hw!DriversSound => DevicesSound
  BY DEF DevicesSound
<1>4. Ui!Spec => []Ui!UiSound
  BY WidgetsAreKept
<1>5. Hw!Spec => [](Hw!HandlesSound /\ Hw!DriversSound)
  BY PlatformAssumption, HardwareIsFound
<1> QED
  BY <1>1, <1>2, <1>3, <1>4, <1>5, PTL DEF PlatformSpec, Ui!Spec, Hw!Spec
=============================================================================
