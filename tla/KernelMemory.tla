---------------------------- MODULE KernelMemory ----------------------------
(***************************************************************************)
(* Memory of the kernel: the counted heap, pools and regions of            *)
(* src/akira/kernel/memory.c and the PSRAM pools of psram.c.               *)
(*                                                                         *)
(* akira_malloc allocates before it counts and akira_free counts before it *)
(* frees, each count under mem_mgr.mutex: steps of their own.  Regions are *)
(* two allocations, a PSRAM pool one of PSRAM and one of the pool table.   *)
(* A block is a number; sizes, alignment and byte totals are left out      *)
(* (free never subtracts from them).  alloc_count and free_count appear as *)
(* their difference, which is what akira_memory_check_leaks returns.       *)
(*                                                                         *)
(* History: early says that something was allocated before                 *)
(* akira_memory_init, lost holds PSRAM that nobody can free any more.      *)
(***************************************************************************)
EXTENDS Integers, FiniteSets, Sequences

CONSTANTS
  Threads,      \* threads that allocate
  Blocks,       \* blocks the system heap can give out, numbers above 0
  PsramBlocks,  \* buffers the PSRAM heap can give out, numbers above 0
  MaxPools,     \* AKIRA_MAX_MEMORY_POOLS
  PoolBlocks    \* blocks of one pool

VARIABLES
  initialized,  \* mem_mgr.initialized
  allocated,    \* blocks taken from the system heap
  psram,        \* buffers taken from the PSRAM heap
  loose,        \* blocks that akira_malloc returned to its callers
  regions,      \* regions, as <<header, base>>
  pools,        \* mem_mgr.pools
  pool_count,   \* mem_mgr.pool_count
  balance,      \* alloc_count - free_count
  call,         \* what each thread is in the middle of
  early, lost

vars == <<initialized, allocated, psram, loose, regions, pools, pool_count,
          balance, call, early, lost>>
poolVars == <<psram, pools, pool_count, lost>>

PoolIds == 1 .. MaxPools
NoPool == [live |-> FALSE, kind |-> "FIXED", owns |-> FALSE, buffer |-> 0, used |-> 0, out |-> 0]
Live == {p \in PoolIds : pools[p].live}
Idle == [op |-> "idle", blocks |-> <<>>]
Go(t, op, blocks) == call' = [call EXCEPT ![t] = [op |-> op, blocks |-> blocks]]
Return(t) == call' = [call EXCEPT ![t] = Idle]
At(t, op) == call[t].op = op
First(t) == Head(call[t].blocks)

\* k_malloc(), before the statistics: what is allocated before init is not counted.
Take(b) == b \in Blocks \ allocated /\ allocated' = allocated \cup {b}
Count(n) ==
  /\ balance' = IF initialized THEN balance + n ELSE balance
  /\ early' = (early \/ ~initialized)

-----------------------------------------------------------------------------
(* The system heap.                                                        *)

MemoryInit ==
  /\ ~initialized /\ initialized' = TRUE
  /\ UNCHANGED <<allocated, poolVars, loose, regions, balance, call, early>>

\* akira_malloc(), calloc; and akira_realloc() of the block old.
Malloc(t) ==
  /\ At(t, "idle") /\ \E b \in Blocks : Take(b) /\ Go(t, "malloc", <<b>>)
  /\ UNCHANGED <<initialized, poolVars, loose, regions, balance, early>>
Realloc(t, old) ==
  /\ At(t, "idle") /\ old \in loose
  /\ \E b \in Blocks : Take(b) /\ Go(t, "malloc", <<b, old>>)
  /\ loose' = loose \ {old}
  /\ UNCHANGED <<initialized, poolVars, regions, balance, early>>

\* The new block goes to the caller, an old one is freed next.
MallocCounted(t) ==
  /\ At(t, "malloc") /\ Count(1)
  /\ loose' = loose \cup {First(t)}
  /\ IF Tail(call[t].blocks) = <<>> THEN Return(t) ELSE Go(t, "free", Tail(call[t].blocks))
  /\ UNCHANGED <<initialized, allocated, poolVars, regions>>

\* akira_free(), psram_free of what is not PSRAM, and realloc to size 0.
Free(t, b) ==
  /\ At(t, "idle") /\ b \in loose
  /\ loose' = loose \ {b} /\ Go(t, "free", <<b>>)
  /\ UNCHANGED <<initialized, allocated, poolVars, regions, balance, early>>
FreeCounted(t) ==
  /\ At(t, "free") /\ Count(-1) /\ Go(t, "kfree", call[t].blocks)
  /\ UNCHANGED <<initialized, allocated, poolVars, loose, regions>>
Freed(t) ==
  /\ At(t, "kfree")
  /\ allocated' = allocated \ {First(t)}
  /\ IF Tail(call[t].blocks) = <<>> THEN Return(t) ELSE Go(t, "free", Tail(call[t].blocks))
  /\ UNCHANGED <<initialized, poolVars, loose, regions, balance, early>>

-----------------------------------------------------------------------------
(* Regions: a header and a base, each an akira_malloc().                   *)

RegionCreate(t) ==
  /\ At(t, "idle") /\ \E b \in Blocks : Take(b) /\ Go(t, "header", <<b>>)
  /\ UNCHANGED <<initialized, poolVars, loose, regions, balance, early>>
HeaderCounted(t) ==
  /\ At(t, "header") /\ Count(1) /\ Go(t, "base", call[t].blocks)
  /\ UNCHANGED <<initialized, allocated, poolVars, loose, regions>>
BaseRefusedBug(t) == Return(t)  \* mutation: the header stays when its block is refused
BaseRefused(t) == Go(t, "free", call[t].blocks)
RegionBase(t) ==
  /\ At(t, "base")
  /\ \/ \E b \in Blocks : Take(b) /\ Go(t, "counted", Append(call[t].blocks, b))
     \/ BaseRefused(t) /\ UNCHANGED allocated
  /\ UNCHANGED <<initialized, poolVars, loose, regions, balance, early>>
BaseCounted(t) ==
  /\ At(t, "counted") /\ Count(1)
  /\ regions' = regions \cup {call[t].blocks} /\ Return(t)
  /\ UNCHANGED <<initialized, allocated, poolVars, loose>>
RegionDestroy(t, r) ==
  /\ At(t, "idle") /\ r \in regions
  /\ regions' = regions \ {r} /\ Go(t, "free", <<r[2], r[1]>>)
  /\ UNCHANGED <<initialized, allocated, poolVars, loose, balance, early>>

-----------------------------------------------------------------------------
(* Pools: created and destroyed under mem_mgr.mutex, used under their own. *)

NewPool(p, kind, owns, buffer) ==
  /\ pools' = [pools EXCEPT ![p] =
       [NoPool EXCEPT !.live = TRUE, !.kind = kind, !.owns = owns, !.buffer = buffer]]
  /\ pool_count' = pool_count + 1

\* A pool with a buffer from k_malloc(), which is not counted; the slab of a fixed
\* pool may refuse it, and the buffer is freed at once.
PoolCreate(t, kind) ==
  /\ At(t, "idle") /\ initialized
  /\ \E p \in PoolIds \ Live, b \in Blocks : Take(b) /\ NewPool(p, kind, TRUE, b)
  /\ UNCHANGED <<initialized, psram, loose, regions, balance, call, early, lost>>

\* akira_psram_pool_create(): a buffer from PSRAM, then a pool over it.
PsramPoolCreate(t) ==
  /\ At(t, "idle")
  /\ \E b \in PsramBlocks \ psram : psram' = psram \cup {b} /\ Go(t, "psram", <<b>>)
  /\ UNCHANGED <<initialized, allocated, loose, regions, pools, pool_count,
                 balance, early, lost>>
PsramPoolMade(t) ==
  /\ At(t, "psram") /\ Return(t)
  /\ \/ /\ initialized /\ UNCHANGED psram
        /\ \E p \in PoolIds \ Live : NewPool(p, "VARIABLE", FALSE, First(t))
     \/ /\ ~initialized \/ Live = PoolIds
        /\ psram' = psram \ {First(t)} /\ UNCHANGED <<pools, pool_count>>
  /\ UNCHANGED <<initialized, allocated, loose, regions, balance, early, lost>>

\* akira_pool_destroy(), also of a PSRAM pool: a buffer the pool does not own is
\* left to whoever gave it, and psram.c keeps no record of it.
OwnBuffer(p) == IF pools[p].owns THEN {pools[p].buffer} ELSE {}
PoolDestroy(t, p) ==
  /\ At(t, "idle") /\ p \in Live
  /\ allocated' = allocated \ OwnBuffer(p)
  /\ lost' = IF pools[p].owns THEN lost ELSE lost \cup {pools[p].buffer}
  /\ pools' = [pools EXCEPT ![p] = NoPool] /\ pool_count' = pool_count - 1
  /\ UNCHANGED <<initialized, psram, loose, regions, balance, call, early>>

HasRoom(p) == pools[p].out < PoolBlocks
PoolAlloc(t, p) ==
  /\ At(t, "idle") /\ p \in Live /\ HasRoom(p)
  /\ pools' = [pools EXCEPT ![p].out = @ + 1, ![p].used = IF @ < PoolBlocks THEN @ + 1 ELSE @]
  /\ UNCHANGED <<initialized, allocated, psram, loose, regions, pool_count,
                 balance, call, early, lost>>

\* The size of what is freed is known in a fixed pool only.
UsedAfterFree(p) == IF pools[p].kind = "FIXED" THEN pools[p].used - 1 ELSE pools[p].used
PoolFree(t, p) ==
  /\ At(t, "idle") /\ p \in Live /\ pools[p].out > 0
  /\ pools' = [pools EXCEPT ![p].out = @ - 1, ![p].used = UsedAfterFree(p)]
  /\ UNCHANGED <<initialized, allocated, psram, loose, regions, pool_count,
                 balance, call, early, lost>>

-----------------------------------------------------------------------------
Init ==
  /\ initialized = FALSE /\ allocated = {} /\ psram = {}
  /\ loose = {} /\ regions = {}
  /\ pools = [p \in PoolIds |-> NoPool] /\ pool_count = 0
  /\ balance = 0 /\ call = [t \in Threads |-> Idle]
  /\ early = FALSE /\ lost = {}

HeapStep(t) ==
  \/ Malloc(t) \/ MallocCounted(t) \/ FreeCounted(t) \/ Freed(t)
  \/ RegionCreate(t) \/ HeaderCounted(t) \/ RegionBase(t) \/ BaseCounted(t)
  \/ \E b \in Blocks : Realloc(t, b) \/ Free(t, b)
  \/ \E r \in regions : RegionDestroy(t, r)
PoolStep(t) ==
  \/ \E k \in {"FIXED", "VARIABLE"} : PoolCreate(t, k)
  \/ PsramPoolCreate(t) \/ PsramPoolMade(t)
  \/ \E p \in PoolIds : PoolDestroy(t, p) \/ PoolAlloc(t, p) \/ PoolFree(t, p)

Next == MemoryInit \/ \E t \in Threads : HeapStep(t) \/ PoolStep(t)

Spec == Init /\ [][Next]_vars

-----------------------------------------------------------------------------
(* Properties.                                                             *)

Elements(s) == {s[i] : i \in DOMAIN s}
InCalls(ops) == UNION {Elements(call[t].blocks) : t \in {u \in Threads : call[u].op \in ops}}
HeapCalls == {"malloc", "free", "kfree", "header", "base", "counted"}
Counted == loose \cup (UNION {Elements(r) : r \in regions}) \cup InCalls(HeapCalls)

\* The variables have their types.
TypeOK ==
  /\ initialized \in BOOLEAN /\ early \in BOOLEAN
  /\ allocated \subseteq Blocks /\ loose \subseteq Blocks
  /\ regions \subseteq Blocks \X Blocks
  /\ psram \subseteq PsramBlocks /\ lost \subseteq PsramBlocks
  /\ pools \in [PoolIds -> [live : BOOLEAN, kind : {"FIXED", "VARIABLE"}, owns : BOOLEAN,
                            buffer : {0} \cup Blocks \cup PsramBlocks,
                            used : 0 .. PoolBlocks, out : 0 .. PoolBlocks]]
  /\ balance \in Int /\ pool_count = Cardinality(Live)
  /\ \A t \in Threads : call[t].op \in HeapCalls \cup {"idle", "psram"}

\* Every block of the heap is with a caller, in a region, under a pool or on its
\* way there or back, in one of these only: refused second allocations, reallocs
\* and destroyed pools lose nothing.  PSRAM is under a pool, unless its pool is
\* gone.
BlocksAreHeld ==
  /\ allocated = Counted \cup {pools[p].buffer : p \in {q \in Live : pools[q].owns}}
  /\ loose \cap InCalls(HeapCalls) = {}
  /\ \A p \in Live : pools[p].owns => pools[p].buffer \notin Counted
  /\ psram = InCalls({"psram"}) \cup lost
               \cup {pools[p].buffer : p \in {q \in Live : ~pools[q].owns}}

\* akira_memory_check_leaks never reports more than is allocated, at any moment
\* of other threads' calls; and, when nothing was allocated before init and no
\* call is under way, exactly what is.
LeaksAreReal ==
  /\ balance <= Cardinality(Counted)
  /\ ~early /\ (\A t \in Threads : At(t, "idle")) => balance = Cardinality(Counted)

\* A fixed pool's used_bytes is what its users hold.
FixedPoolsExact == \A p \in Live : pools[p].kind = "FIXED" => pools[p].used = pools[p].out

\* The three together.
MemorySound == BlocksAreHeld /\ LeaksAreReal /\ FixedPoolsExact
=============================================================================
