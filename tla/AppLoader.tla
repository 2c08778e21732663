----------------------------- MODULE AppLoader -----------------------------
(* The WASM app loader of apps/app_loader.c. Loading and unloading hold the
   mutex; start, stop, pause, resume and the capability calls look the app up and
   judge its state without it, and change it afterwards: the slot may hold
   another app by then. A load from flash reads the file into a buffer of its own,
   which app_load_from_memory copies. *)
EXTENDS Integers, FiniteSets, FiniteSetsExt

CONSTANTS Threads,  \* callers
          Slots,    \* 0 .. APP_MAX_LOADED - 1
          Caps,     \* capability bits
          MaxLoads  \* bound: apps loaded in all

VARIABLES apps,   \* per slot: in_use, state, capabilities and which load it is
          count,  \* app_count
          heap,   \* buffers allocated
          loads,  \* apps loaded so far, from memory and from flash
          call    \* what each thread is in the middle of

vars == <<apps, count, heap, loads, call>>

NoApp == [used |-> FALSE, state |-> "unloaded", caps |-> {}, id |-> 0]
Idle == [at |-> "idle", slot |-> 0, id |-> 0, caps |-> {}]
Used == {h \in Slots : apps[h].used}

(* The states each call starts from, and the one it sets. *)
From == [start |-> {"loaded", "paused"}, stop |-> {"running", "paused"},
         pause |-> {"running"}, resume |-> {"paused"}]
To == [start |-> "running", stop |-> "loaded", pause |-> "paused", resume |-> "running"]

At(t, at) == call[t].at = at
Enter(t, at, h, caps) ==
    call' = [call EXCEPT ![t] = [at |-> at, slot |-> h, id |-> apps[h].id, caps |-> caps]]
Return(t) == call' = [call EXCEPT ![t] = Idle]

(* app_load_from_memory under the mutex: the lowest free slot, unless the
   metadata is bad or no memory is left. flash counts the reader's buffer. *)
Loaded(h) == [apps EXCEPT ![h] = [used |-> TRUE, state |-> "loaded", caps |-> {},
                                  id |-> loads.memory + loads.flash + 1]]
Store(kind) ==
    /\ Used # Slots /\ loads.memory + loads.flash < MaxLoads
    /\ apps' = Loaded(Min(Slots \ Used))
    /\ count' = count + 1 /\ heap' = heap + 1
    /\ loads' = [loads EXCEPT ![kind] = @ + 1]

LoadMemory(t) == At(t, "idle") /\ Store("memory") /\ UNCHANGED call

(* app_load_from_flash: the file is read before the mutex is taken. *)
FlashRead(t) ==
    /\ At(t, "idle") /\ call' = [call EXCEPT ![t].at = "flash"]
    /\ heap' = heap + 1
    /\ UNCHANGED <<apps, count, loads>>

FlashLoad(t) == At(t, "flash") /\ Store("flash") /\ Return(t)

FlashFail(t) ==
    /\ At(t, "flash") /\ Return(t)
    /\ heap' = heap - 1
    /\ UNCHANGED <<apps, count, loads>>

(* app_unload, which stops a running app first *)
Freed == heap - 1
Unload(t, h) ==
    /\ At(t, "idle") /\ h \in Used
    /\ apps' = [apps EXCEPT ![h].used = FALSE,
                            ![h].state = IF @ = "running" THEN "loaded" ELSE @]
    /\ count' = count - 1 /\ heap' = Freed
    /\ UNCHANGED <<loads, call>>

(* app_start, app_stop, app_pause, app_resume *)
Look(t, op, h) ==
    /\ At(t, "idle") /\ h \in Used /\ apps[h].state \in From[op]
    /\ Enter(t, op, h, {})
    /\ UNCHANGED <<apps, count, heap, loads>>

Set(t) ==
    /\ call[t].at \in DOMAIN To /\ Return(t)
    /\ apps' = [apps EXCEPT ![call[t].slot].state = To[call[t].at]]
    /\ UNCHANGED <<count, heap, loads>>

(* app_grant_capability and app_revoke_capability: the set is read, changed and
   written back. *)
Change(t, h, c, given) ==
    /\ At(t, "idle") /\ h \in Used
    /\ Enter(t, "caps", h, IF given THEN apps[h].caps \union {c} ELSE apps[h].caps \ {c})
    /\ UNCHANGED <<apps, count, heap, loads>>

Write(t) ==
    /\ At(t, "caps") /\ Return(t)
    /\ apps' = [apps EXCEPT ![call[t].slot].caps = call[t].caps]
    /\ UNCHANGED <<count, heap, loads>>

Init ==
    /\ apps = [h \in Slots |-> NoApp] /\ count = 0 /\ heap = 0
    /\ loads = [memory |-> 0, flash |-> 0] /\ call = [t \in Threads |-> Idle]

Next == \E t \in Threads :
    \/ LoadMemory(t) \/ FlashRead(t) \/ FlashLoad(t) \/ FlashFail(t) \/ Set(t) \/ Write(t)
    \/ \E h \in Slots : Unload(t, h) \/ \E op \in DOMAIN To : Look(t, op, h)
    \/ \E h \in Slots, c \in Caps, given \in BOOLEAN : Change(t, h, c, given)

Spec == Init /\ [][Next]_vars

TypeOK ==
    /\ apps \in [Slots -> [used : BOOLEAN, caps : SUBSET Caps, id : 0 .. MaxLoads,
                           state : {"unloaded", "loaded", "running", "paused"}]]
    /\ count \in Nat /\ heap \in Nat
    /\ \A t \in Threads : call[t].at \in DOMAIN To \union {"idle", "flash", "caps"}

(* Every app in the table and every load from flash in progress has its buffer, and
   nothing else has one but, at most, the loads from flash that were copied: "data
   ownership transfers to app_load_from_memory", says app_loader.c:220, but the code
   keeps one buffer of each. *)
InProgress == {t \in Threads : At(t, "flash")}
BuffersAreKnown ==
    heap - Cardinality(Used) - Cardinality(InProgress) \in 0 .. loads.flash

(* The count is the number of apps in the table. *)
CountIsUsed == count = Cardinality(Used)

(* The loader as a whole: memory and the count of apps. *)
LoaderSound == BuffersAreKnown /\ CountIsUsed
=============================================================================
