---------------------------- MODULE AkiraSettings ----------------------------
(* The key-value settings of .akira_settings/akira_settings.c kept in flash. Any
   thread submits work and waits on its semaphore, or leaves a callback; one work
   queue thread carries the work out. Flash is an NVS of numbered entries: the
   count of keys, two limits, a name and a value per index. Every write to it is
   a step, may fail, and the device may lose power after it. *)
EXTENDS Integers, FiniteSets, Sequences, FiniteSetsExt, SequencesExt

CONSTANTS Threads,    \* callers
          Keys,       \* the names of settings
          Values,     \* what they are set to
          Config,     \* CONFIG_AKIRA_SETTINGS_MAX_VALUE_LEN and _MAX_KEYS
          Limits,     \* what callers resize the limits to
          MaxIndex,   \* REGISTRY_KEYS_SIZE
          MaxQueued,  \* bound: works waiting
          MaxFaults   \* bound: failed writes and losses of power

VARIABLES nvs,     \* the entries in flash
          limit,   \* storage.max_value_len and storage.max_keys
          up,      \* storage.initialized
          queue,   \* work_queue
          job,     \* the work being carried out, and how far it is
          call,    \* per thread: idle or waiting for its answer
          faults,  \* faults so far
          acked,   \* per key: what the last set or delete promised, and whether it must hold
         lists    \* per thread: its iteration over the keys

work == <<nvs, limit, up, queue, job, call, faults, acked>>
vars == <<work, lists>>

None == "none"
Indices == 0 .. MaxIndex - 1
Work(op, who, k, v, new) == [op |-> op, who |-> who, key |-> k, value |-> v, new |-> new,
                             at |-> "begin", i |-> 0]
NoJob == Work("idle", None, None, None, Config)
Booting == [NoJob EXCEPT !.op = "init"]

(* ------------------------------- the registry --------------------------- *)

(* registry_get_index walks the names below the count. *)
Places(k) == {i \in Indices : i < nvs.count /\ nvs.names[i] = k}
Known(k) == nvs.count >= 0 /\ Places(k) # {}
IndexOf(k) == Min(Places(k))
Lookup(k) == IF Known(k) THEN nvs.values[IndexOf(k)] ELSE None

At(op, at) == up \in {"up", "booting"} /\ job.op = op /\ job.at = at
Goto(at, i) == job' = [job EXCEPT !.at = at, !.i = i]

(* A write that succeeds and leads on, or fails and ends the work. *)
Writes(entry, v) == nvs' = [nvs EXCEPT ![entry] = v]
Fault == faults < MaxFaults /\ faults' = faults + 1
NoFault == UNCHANGED faults

(* The answer: the semaphore of a caller that waits, or a callback. *)
Answer == /\ job' = NoJob
          /\ call' = [t \in Threads |-> IF t = job.who THEN "idle" ELSE call[t]]
Refuse == Answer /\ NoFault /\ UNCHANGED <<nvs, limit, up, queue, acked>>
Fails == Answer /\ Fault /\ UNCHANGED <<nvs, limit, up, queue, acked>>

Promise(k, v, sure) == [acked EXCEPT ![k] = [value |-> v, sure |-> sure]]
Doubt(S) == [k \in Keys |-> [acked[k] EXCEPT !.sure = @ /\ k \notin S]]

(* ------------------------------- settings_set --------------------------- *)

Free == nvs.count >= 0 /\ nvs.count < Min({limit.keys, MaxIndex})
SetFull == At("set", "begin") /\ ~Known(job.key) /\ ~Free /\ Refuse

(* registry_add_key: the name goes to the first free place, then the count. *)
AddName ==
    /\ At("set", "begin") /\ ~Known(job.key) /\ Free
    /\ \/ /\ nvs' = [nvs EXCEPT !.names[nvs.count] = job.key] /\ NoFault
          /\ Goto("count", nvs.count) /\ acked' = Doubt({job.key})
          /\ UNCHANGED <<limit, up, queue, call>>
       \/ Fails

AddCount ==
    /\ At("set", "count")
    /\ \/ /\ Writes("count", nvs.count + 1) /\ NoFault /\ Goto("value", job.i)
          /\ UNCHANGED <<limit, up, queue, call, acked>>
       \/ Fails

ValueAt(k) == IndexOf(k)
SetValue ==
    /\ At("set", "value") \/ (At("set", "begin") /\ Known(job.key))
    /\ \/ /\ nvs' = [nvs EXCEPT !.values[ValueAt(job.key)] = job.value] /\ NoFault
          /\ acked' = Promise(job.key, job.value, TRUE) /\ Answer
          /\ UNCHANGED <<limit, up, queue>>
       \/ Fails

(* settings_get *)
Get == At("get", "begin") /\ Refuse

(* ------------------------------- settings_delete ------------------------ *)

DeleteMissing == At("delete", "begin") /\ ~Known(job.key) /\ Refuse

(* The keys behind a deleted one move down a place, their values do not. *)
Displaced == {k \in Keys : Known(k) /\ IndexOf(k) >= IndexOf(job.key)}

DeleteValue ==
    /\ At("delete", "begin") /\ Known(job.key)
    /\ \/ /\ nvs' = [nvs EXCEPT !.values[IndexOf(job.key)] = None] /\ NoFault
          /\ acked' = Doubt(Displaced)
          /\ Goto("shift", IndexOf(job.key))
          /\ UNCHANGED <<limit, up, queue, call>>
       \/ Fails

(* settings_delete answers 0 whatever registry_delete_key answered. *)
Deleted == Answer /\ acked' = Promise(job.key, None, TRUE)

(* registry_delete_key: a name that cannot be read is not moved. *)
Shifted(i) == IF nvs.names[i + 1] = None THEN nvs
              ELSE [nvs EXCEPT !.names[i] = nvs.names[i + 1]]
Shift ==
    /\ At("delete", "shift") /\ job.i < nvs.count - 1
    /\ \/ /\ nvs' = Shifted(job.i) /\ NoFault /\ Goto("shift", job.i + 1)
          /\ UNCHANGED <<limit, up, queue, call, acked>>
       \/ /\ Fault /\ UNCHANGED <<nvs, limit, up, queue>> /\ Deleted

(* The last name is deleted; that this failed is only logged. *)
DropLast ==
    /\ At("delete", "shift") /\ job.i >= nvs.count - 1
    /\ \/ nvs' = [nvs EXCEPT !.names[nvs.count - 1] = None] /\ NoFault
       \/ UNCHANGED nvs /\ Fault
    /\ Goto("drop", job.i)
    /\ UNCHANGED <<limit, up, queue, call, acked>>

DropCount ==
    /\ At("delete", "drop")
    /\ \/ Writes("count", nvs.count - 1) /\ NoFault
       \/ UNCHANGED nvs /\ Fault
    /\ Deleted
    /\ UNCHANGED <<limit, up, queue>>

(* ------------------------------- init_flash ----------------------------- *)

(* handle_config_mismatch: the limits that hold after it, and whether they are
   written back. A longer value is a resize; more keys alone are not stored. *)
Grows == Config.len > nvs.len
Resizable(new) ==
    /\ new.keys < MaxIndex /\ new.len > 0 /\ new.keys > 0
    /\ nvs.len >= 0 /\ nvs.keys >= 0
    /\ nvs.count <= 0 \/ (new.keys >= nvs.count /\ new.len >= nvs.len)
KeepsKeys == Config.keys < nvs.keys /\ nvs.count > Config.keys
Settled == IF Grows /\ ~Resizable(Config) THEN [len |-> nvs.len, keys |-> nvs.keys]
           ELSE IF Grows THEN Config
           ELSE [len |-> nvs.len, keys |-> IF KeepsKeys THEN nvs.keys ELSE Config.keys]
Stores == nvs.len # Config.len \/ KeepsKeys

Empty == [count |-> -1, len |-> -1, keys |-> -1,
          names |-> [i \in Indices |-> None], values |-> [i \in Indices |-> None]]

(* Init finishes: the first one starts the work queue, the one of a clear answers. *)
Ready ==
    IF job.op = "init"
    THEN up' = "up" /\ job' = NoJob /\ UNCHANGED call
    ELSE Answer /\ UNCHANGED up
InitFails ==
    /\ Fault /\ UNCHANGED <<nvs, limit, queue, acked>>
    /\ IF job.op = "init"
       THEN up' = "down" /\ job' = NoJob /\ UNCHANGED call
       ELSE Answer /\ UNCHANGED up

InitAt(at) == At("init", at) \/ (job.op = "clear" /\ at # "begin" /\ At("clear", at))
Initialising == At("init", "begin") \/ At("clear", "init")

(* The first boot writes the count, then the limits. *)
FirstCount ==
    /\ Initialising /\ nvs.count < 0
    /\ \/ /\ Writes("count", 0) /\ NoFault /\ Goto("first len", 0) /\ limit' = Config
          /\ UNCHANGED <<up, queue, call, acked>>
       \/ InitFails

Found ==
    /\ Initialising /\ nvs.count >= 0 /\ nvs.len >= 0 /\ nvs.keys >= 0
    /\ limit' = Settled
    /\ IF Stores THEN Goto("len", 0) /\ UNCHANGED <<up, call>> ELSE Ready
    /\ NoFault /\ UNCHANGED <<nvs, queue, acked>>

(* "Couldn't read REGISTRY_MAX_KEYS_ID": a first boot was cut short. *)
FoundBroken ==
    /\ Initialising /\ nvs.count >= 0 /\ nvs.keys < 0
    /\ up' = "down" /\ job' = NoJob
    /\ NoFault /\ UNCHANGED <<nvs, limit, queue, call, acked>>

WriteLen ==
    /\ InitAt("len") \/ InitAt("first len") \/ At("resize", "len")
    /\ \/ /\ Writes("len", IF job.op = "resize" THEN job.new.len ELSE limit.len)
          /\ NoFault /\ Goto("keys", 0)
          /\ UNCHANGED <<limit, up, queue, call, acked>>
       \/ IF job.op = "resize" THEN Fails ELSE InitFails

WriteKeys ==
    /\ InitAt("keys")
    /\ \/ Writes("keys", limit.keys) /\ NoFault /\ Ready /\ UNCHANGED <<limit,
                                                                        queue,
                                                                        acked>>
       \/ InitFails

(* settings_clear: the flash is erased, and set up again. *)
Clear ==
    /\ At("clear", "begin")
    /\ \/ /\ nvs' = Empty /\ NoFault /\ Goto("init", 0)
          /\ acked' = [k \in Keys |-> [value |-> None, sure |-> TRUE]] /\ limit' = Config
          /\ UNCHANGED <<up, queue, call>>
       \/ Fails

(* resize_limits_internal *)
ResizeRefused == At("resize", "begin") /\ ~Resizable(job.new) /\ Refuse
ResizeBegin ==
    /\ At("resize", "begin") /\ Resizable(job.new)
    /\ Goto("len", 0) /\ NoFault
    /\ UNCHANGED <<nvs, limit, up, queue, call, acked>>
ResizeEnd ==
    /\ At("resize", "keys")
    /\ \/ /\ Writes("keys", job.new.keys) /\ limit' = job.new /\ Answer /\ NoFault
          /\ UNCHANGED <<up, queue, acked>>
       \/ Fails

(* ------------------------------- the callers ---------------------------- *)

Sets(t) == {Work("set", t, k, v, Config) : k \in Keys, v \in Values}
Gets(t) == {Work("get", t, k, None, Config) : k \in Keys}
Deletes(t) == {Work("delete", t, k, None, Config) : k \in Keys}
Clears(t) == {Work("clear", t, None, None, Config)}
Resizes(t) == {Work("resize", t, None, None, new) : new \in Limits}

Submit(t, w) ==
    /\ up = "up" /\ call[t] = "idle" /\ Len(queue) < MaxQueued
    /\ queue' = Append(queue, w) /\ call' = [call EXCEPT ![t] = "waiting"]
    /\ UNCHANGED <<nvs, limit, up, job, faults, acked>>

(* akira_settings_set_async, akira_settings_delete_async: nobody waits. *)
SubmitAsync(w) ==
    /\ up = "up" /\ Len(queue) < MaxQueued
    /\ queue' = Append(queue, w)
    /\ UNCHANGED <<nvs, limit, up, job, call, faults, acked>>

(* akira_settings_list: the first call reads the count and then each name, in the
   caller's thread and beside the work queue; a name for which there is no memory is
   left out. What each call does with one more of these names is a get of it.
   History: the keys that were set, and whether names moved or went meanwhile. *)
NoList == [names |-> <<>>, i |-> 0, count |-> 0, wanted |-> {}, torn |-> FALSE]
Promised == {k \in Keys : acked[k].sure /\ acked[k].value # None}
Removing(j) == j.op \in {"delete", "clear"}
Tear(l) == [l EXCEPT !.torn = TRUE, !.wanted = {}]
ListBegin(t) ==
    /\ up = "up" /\ call[t] = "idle" /\ nvs.count >= 0
    /\ call' = [call EXCEPT ![t] = "listing"]
    /\ LET l == [NoList EXCEPT !.count = nvs.count, !.wanted = Promised]
       IN lists' = [lists EXCEPT ![t] = IF Removing(job) THEN Tear(l) ELSE l]
    /\ UNCHANGED <<nvs, limit, up, queue, job, faults, acked>>

ListName(t) ==
    LET l == lists[t]
        name == nvs.names[l.i]
    IN
    /\ up = "up" /\ call[t] = "listing" /\ l.i < l.count
    /\ \/ /\ lists' = [lists EXCEPT ![t].i = @ + 1,
                         ![t].names = IF name = None THEN @ ELSE Append(@, name)]
          /\ NoFault
       \/ lists' = [lists EXCEPT ![t] = Tear([@ EXCEPT !.i = l.i + 1])] /\ Fault
    /\ UNCHANGED <<nvs, limit, up, queue, job, call, acked>>

ListEnd(t) ==
    /\ up = "up" /\ call[t] = "listing" /\ lists[t].i = lists[t].count
    /\ lists' = [lists EXCEPT ![t] = NoList] /\ call' = [call EXCEPT ![t] = "idle"]
    /\ UNCHANGED <<nvs, limit, up, queue, job, faults, acked>>

(* setting_work_handler *)
Take ==
    /\ up = "up" /\ job.op = "idle" /\ queue # <<>>
    /\ job' = Head(queue) /\ queue' = Tail(queue)
    /\ UNCHANGED <<nvs, limit, up, call, faults, acked>>

(* akira_settings_init of the next boot, or called again after it failed *)
Restart ==
    /\ Fault
    /\ up' = "booting" /\ job' = Booting /\ queue' = <<>> /\ limit' = Config
    /\ call' = [t \in Threads |-> "idle"] /\ lists' = [t \in Threads |-> NoList]
    /\ UNCHANGED <<nvs, acked>>

Init ==
    /\ nvs = Empty /\ limit = Config /\ up = "booting" /\ queue = <<>> /\ job = Booting
    /\ call = [t \in Threads |-> "idle"] /\ faults = 0
    /\ acked = [k \in Keys |-> [value |-> None, sure |-> TRUE]]
    /\ lists = [t \in Threads |-> NoList]

Working ==
    \/ SetFull \/ AddName \/ AddCount \/ SetValue \/ Get
    \/ DeleteMissing \/ DeleteValue \/ Shift \/ DropLast \/ DropCount
    \/ FirstCount \/ Found \/ FoundBroken \/ WriteLen \/ WriteKeys
    \/ Clear \/ ResizeRefused \/ ResizeBegin \/ ResizeEnd \/ Take
    \/ \E t \in Threads :
         \E w \in Sets(t) \union Gets(t) \union Deletes(t) \union Clears(t) \union Resizes(t) :
           Submit(t, w)
    \/ \E w \in Sets(None) \union Deletes(None) : SubmitAsync(w)

TornIn(t) == call[t] = "listing" /\ Removing(job')
Next ==
    \/ Working /\ lists' = [t \in Threads |-> IF TornIn(t) THEN Tear(lists[t]) ELSE lists[t]]
    \/ \E t \in Threads : ListBegin(t) \/ ListName(t) \/ ListEnd(t)
    \/ Restart

Spec == Init /\ [][Next]_vars

TypeOK ==
    /\ nvs.count \in -1 .. MaxIndex
    /\ nvs.names \in [Indices -> Keys \union {None}]
    /\ up \in {"up", "down", "booting"} /\ Len(queue) <= MaxQueued
    /\ call \in [Threads -> {"idle", "waiting", "listing"}] /\ faults \in 0 .. MaxFaults

(* What a set or a delete was answered for is what a get finds, across failed
   writes, a loss of power between any two writes of another work, and a restart:
   for the keys that no later delete of a key before them displaced. *)
AnsweredIsKept == \A k \in Keys : acked[k].sure => Lookup(k) = acked[k].value

(* There are never more keys than the limit that is in force. *)
WithinLimit == up = "up" => nvs.count <= limit.keys \/ job.op \in {"clear", "resize"}


(* Every caller that sleeps on its semaphore has one work in the queue or in the
   hands of the thread that answers it: none is forgotten, none answered twice. *)
Serving(t) == Cardinality({i \in 1 .. Len(queue) : queue[i].who = t})
              + (IF job.who = t THEN 1 ELSE 0)
WaitersAreServed == \A t \in Threads : Serving(t) = (IF call[t] = "waiting" THEN 1 ELSE 0)

(* A list of the keys, read name by name while works are carried out, is what is
   there at its end up to the count it began with, and has every key that was set
   before it began, unless a key was deleted or the settings cleared meanwhile or
   memory was short. *)
Named(n) == SelectSeq([i \in 1 .. n |-> nvs.names[i - 1]], LAMBDA k : k # None)
ListsAreWhole ==
    \A t \in Threads : LET l == lists[t] IN
      (call[t] = "listing" /\ l.i = l.count /\ ~l.torn) =>
        l.names = Named(l.count) /\ l.wanted \subseteq ToSet(l.names)

(* The settings in flash as a whole. *)
FlashSound == AnsweredIsKept /\ WithinLimit /\ WaitersAreServed /\ ListsAreWhole
=============================================================================
