---------------------------- MODULE SharedMemory ----------------------------
(***************************************************************************)
(* Shared memory regions (src/ipc/shared_memory.c).                        *)
(*                                                                         *)
(* A handle is an index into regions[] and nothing else: after a destroy   *)
(* and a create it means another region.  create, open and the second half *)
(* of close and destroy hold global_mutex; their first half, lock, unlock, *)
(* read and write look the handle up without it.  The pool only grows:     *)
(* pool_free() does nothing.  get_current_app_id() is 0 for everyone, so   *)
(* every caller is the owner and every permission check passes.            *)
(*                                                                         *)
(* A region keeps the first SHMEM_MAX_NAME_LEN - 1 characters of its name, *)
(* which is looked up whole: shmem_create refuses no over-long name, and   *)
(* shmem_open finds none.  Sizes within the pool's of SIZE_MAX, at which   *)
(* the sums of pool_alloc() wrap and the memset runs over all memory, are  *)
(* not asked for.                                                          *)
(*                                                                         *)
(* History: gen numbers the regions, born on create; a handle carries the  *)
(* gen it was given, which the code does not have; tainted regions were    *)
(* closed or destroyed through a handle to an earlier one; cut ones were   *)
(* created under a longer name than they have; torn says that              *)
(* a read or write changed its region between looking up size and data.    *)
(***************************************************************************)
EXTENDS Integers, FiniteSets

CONSTANTS
  Threads,
  Names,
  Cut,        \* the name that is stored of a name
  Nobody,     \* holds a mutex that is free
  MaxRegions, \* SHMEM_MAX_REGIONS
  PoolSize,   \* SHMEM_POOL_SIZE, in units of the 8-byte alignment
  MaxGen      \* bound: regions ever created

VARIABLES
  regions,   \* shmem_state.regions
  mutex,     \* the k_mutex of every slot, which outlives its regions
  pool_used, \* shmem_state.pool_used
  pool,      \* history: the gen through whose handle a cell was last written
  gen,       \* history: regions created so far
  torn,      \* history
  handles,   \* handles each thread holds
  call       \* what each thread is in the middle of

vars == <<regions, mutex, pool_used, pool, gen, torn, handles, call>>

Slots == 1 .. MaxRegions
Cells == 1 .. PoolSize
NoRegion == [in_use |-> FALSE, name |-> "", cut |-> FALSE, data |-> 0, size |-> 0, ref_count |-> 0,
             is_locked |-> FALSE, gen |-> 0, tainted |-> FALSE]
Handles == [slot : Slots, gen : 1 .. MaxGen]
Idle == [op |-> "idle"]

InUse == {s \in Slots : regions[s].in_use}
Lowest(S) == CHOOSE s \in S : \A u \in S : s <= u
Found(name) == {s \in InUse : regions[s].name = name}
Memory(r) == {c \in Cells : r.data < c /\ c <= r.data + r.size}

Return(t) == call' = [call EXCEPT ![t] = Idle]
SetRegion(s, r) == regions' = [regions EXCEPT ![s] = r]
Hold(t, h) == handles' = [handles EXCEPT ![t] = @ \cup {h}]

-----------------------------------------------------------------------------
(* Under global_mutex.                                                     *)

\* pool_alloc(): from pool_used up.
PoolAlloc(size) == pool_used
Create(t, name, size) ==
  LET s == Lowest(Slots \ InUse)
      data == PoolAlloc(size) IN
  /\ call[t] = Idle /\ gen < MaxGen
  /\ Found(name) = {}
  /\ InUse # Slots /\ pool_used + size <= PoolSize
  /\ gen' = gen + 1
  /\ SetRegion(s, [NoRegion EXCEPT !.in_use = TRUE, !.name = Cut[name], !.cut = Cut[name] # name,
                                   !.data = data, !.size = size, !.ref_count = 1, !.gen = gen'])
  /\ pool_used' = pool_used + size
  /\ pool' = [c \in Cells |-> IF data < c /\ c <= data + size THEN gen' ELSE pool[c]]
  /\ Hold(t, [slot |-> s, gen |-> gen'])
  /\ UNCHANGED <<mutex, torn, call>>

\* A thread opens a region once; threads stand for its further references.
Open(t, name) ==
  LET s == Lowest(Found(name))
      h == [slot |-> s, gen |-> regions[s].gen] IN
  /\ call[t] = Idle /\ Found(name) # {} /\ h \notin handles[t]
  /\ SetRegion(s, [regions[s] EXCEPT !.ref_count = @ + 1]) /\ Hold(t, h)
  /\ UNCHANGED <<mutex, pool_used, pool, gen, torn, call>>

-----------------------------------------------------------------------------
(* get_region() without the mutex, and then the call.                      *)

Lookup(t, op, h) ==
  /\ call[t] = Idle /\ h \in handles[t] /\ h.slot \in InUse
  /\ call' = [call EXCEPT ![t] = [op |-> op, h |-> h]]
  /\ UNCHANGED <<regions, mutex, pool_used, pool, gen, torn, handles>>

\* What a stale call does to the region that has the slot now.
Touched(r, h) == [r EXCEPT !.tainted = @ \/ r.gen # h.gen]

Closed(r) == IF r.ref_count <= 1 THEN [r EXCEPT !.ref_count = 0, !.in_use = FALSE]
             ELSE [r EXCEPT !.ref_count = @ - 1]
Close(t) ==
  LET h == call[t].h IN
  /\ call[t].op = "close"
  /\ SetRegion(h.slot, Touched(Closed(regions[h.slot]), h))
  /\ handles' = [handles EXCEPT ![t] = @ \ {h}] /\ Return(t)
  /\ UNCHANGED <<mutex, pool_used, pool, gen, torn>>

\* The others keep their handles, and a lock that is held stays held.
Destroy(t) ==
  LET h == call[t].h IN
  /\ call[t].op = "destroy"
  /\ SetRegion(h.slot, Touched([regions[h.slot] EXCEPT !.in_use = FALSE], h))
  /\ handles' = [handles EXCEPT ![t] = @ \ {h}] /\ Return(t)
  /\ UNCHANGED <<mutex, pool_used, pool, gen, torn>>

-----------------------------------------------------------------------------
(* shmem_lock() and shmem_unlock().                                        *)

\* The mutex of Zephyr is recursive; a thread takes it once here.
LockTake(t) ==
  LET s == call[t].h.slot IN
  /\ call[t].op = "lock" /\ mutex[s] = Nobody
  /\ mutex' = [mutex EXCEPT ![s] = t]
  /\ call' = [call EXCEPT ![t].op = "locked"]
  /\ UNCHANGED <<regions, pool_used, pool, gen, torn, handles>>
LockTimeout(t) ==
  /\ call[t].op = "lock" /\ mutex[call[t].h.slot] # Nobody /\ Return(t)
  /\ UNCHANGED <<regions, mutex, pool_used, pool, gen, torn, handles>>
LockMark(t) ==
  LET s == call[t].h.slot IN
  /\ call[t].op = "locked"
  /\ SetRegion(s, [regions[s] EXCEPT !.is_locked = TRUE]) /\ Return(t)
  /\ UNCHANGED <<mutex, pool_used, pool, gen, torn, handles>>

\* lock_owner is everyone: a thread may clear is_locked under another's lock,
\* whose mutex k_mutex_unlock then refuses to give up.
UnlockMark(r) == [r EXCEPT !.is_locked = FALSE]
UnlockBegin(t) ==
  LET s == call[t].h.slot IN
  /\ call[t].op = "unlock"
  /\ SetRegion(s, UnlockMark(regions[s]))
  /\ call' = [call EXCEPT ![t].op = "unlocked"]
  /\ UNCHANGED <<mutex, pool_used, pool, gen, torn, handles>>
UnlockEnd(t) ==
  LET s == call[t].h.slot IN
  /\ call[t].op = "unlocked"
  /\ mutex' = IF mutex[s] = t THEN [mutex EXCEPT ![s] = Nobody] ELSE mutex
  /\ Return(t)
  /\ UNCHANGED <<regions, pool_used, pool, gen, torn, handles>>

-----------------------------------------------------------------------------
(* shmem_write(), whose clamp shmem_read() shares: size first, data after. *)

Available(r, offset) == r.size - offset
Clamped(r, offset, len) == IF len < Available(r, offset) THEN len ELSE Available(r, offset)
WriteSize(t, offset, len) ==
  LET h == call[t].h
      r == regions[h.slot] IN
  /\ call[t].op = "write" /\ offset < r.size
  /\ call' = [call EXCEPT ![t] = [op |-> "copy", h |-> h, at |-> r.gen,
                                  offset |-> offset, n |-> Clamped(r, offset, len)]]
  /\ UNCHANGED <<regions, mutex, pool_used, pool, gen, torn, handles>>
WriteNothing(t, offset) ==
  /\ call[t].op = "write" /\ offset >= regions[call[t].h.slot].size /\ Return(t)
  /\ UNCHANGED <<regions, mutex, pool_used, pool, gen, torn, handles>>
WriteCopy(t) ==
  LET c == call[t]
      r == regions[c.h.slot]
      from == r.data + c.offset IN
  /\ c.op = "copy"
  /\ torn' = (torn \/ r.gen # c.at)
  /\ pool' = [i \in Cells |-> IF from < i /\ i <= from + c.n THEN r.gen ELSE pool[i]]
  /\ Return(t)
  /\ UNCHANGED <<regions, mutex, pool_used, gen, handles>>

-----------------------------------------------------------------------------
Init ==
  /\ regions = [s \in Slots |-> NoRegion]
  /\ mutex = [s \in Slots |-> Nobody]
  /\ pool_used = 0 /\ pool = [c \in Cells |-> 0] /\ gen = 0 /\ torn = FALSE
  /\ handles = [t \in Threads |-> {}]
  /\ call = [t \in Threads |-> Idle]

LookupOps == {"close", "destroy", "lock", "unlock", "write"}
Next ==
  \E t \in Threads :
    \/ \E name \in Names, size \in 1 .. 2 : Create(t, name, size)
    \/ \E name \in Names : Open(t, name)
    \/ \E op \in LookupOps, h \in handles[t] : Lookup(t, op, h)
    \/ Close(t) \/ Destroy(t) \/ LockTake(t) \/ LockTimeout(t) \/ LockMark(t)
    \/ UnlockBegin(t) \/ UnlockEnd(t)
    \/ \E offset \in 0 .. 1, len \in 1 .. 2 : WriteSize(t, offset, len)
    \/ \E offset \in 0 .. 1 : WriteNothing(t, offset)
    \/ WriteCopy(t)

Spec == Init /\ [][Next]_vars

-----------------------------------------------------------------------------
(* Properties.                                                             *)

\* Regions lie in the used part of the pool, and handles name slots.
TypeOK ==
  /\ pool_used \in 0 .. PoolSize /\ gen \in 0 .. MaxGen
  /\ \A s \in Slots : regions[s].data + regions[s].size <= pool_used
  /\ handles \in [Threads -> SUBSET Handles] /\ mutex \in [Slots -> Threads \cup {Nobody}]
  /\ \A t \in Threads : call[t].op \in LookupOps \cup {"idle", "locked", "unlocked", "copy"}

Holders(s) == {t \in Threads : [slot |-> s, gen |-> regions[s].gen] \in handles[t]}

\* A region has as many references as threads hold handles to it, so it dies
\* with the last of them, unless a stale handle has reached it.
RefsAreHandles ==
  \A s \in InUse : ~regions[s].tainted =>
    regions[s].ref_count = Cardinality(Holders(s)) /\ Holders(s) # {}

\* A region takes the name of an older one only if its own was cut down to it.
FullNamesAreUnique ==
  \A s, u \in InUse : s # u /\ regions[s].name = regions[u].name /\ regions[s].gen <= regions[u].gen
                        => regions[u].cut

\* is_locked is only ever shown of a slot whose mutex somebody holds.
LockedIsHeld == \A s \in InUse : regions[s].is_locked => mutex[s] # Nobody

\* A region's memory is written through its own slot only: neither a write
\* past its end nor a new region reaches a neighbour, unless one was torn.
Isolated ==
  ~torn => \A s \in InUse : \A c \in Memory(regions[s]) : pool[c] = regions[s].gen

\* All four.
RegionsSound == RefsAreHandles /\ FullNamesAreUnique /\ LockedIsHeld /\ Isolated

\* What the constants must satisfy for the proofs (in KernelProofs).
ConstantsOK ==
  IsFiniteSet(Threads) /\ Nobody \notin Threads /\ PoolSize \in Nat /\ Cut \in [Names -> Names]
=============================================================================
