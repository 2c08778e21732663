----------------------------- MODULE MessageBus -----------------------------
(***************************************************************************)
(* The message bus (src/ipc/message_bus.c): a queue of messages filled by  *)
(* any thread, an array of subscribers under subscriber_mutex, and         *)
(* msg_bus_process(), which the main loop calls.                           *)
(*                                                                         *)
(* The mutex is recursive: a handler may subscribe, unsubscribe and        *)
(* publish while the array is walked.  msg_bus_publish() and               *)
(* msg_bus_send() take no lock: next_msg_id++ and the counters are a load  *)
(* and a store each.  wait_reply and reply are stubs, and every            *)
(* subscription has priority LOW, so nothing is filtered by priority.      *)
(*                                                                         *)
(* The proof follows the properties.                                       *)
(***************************************************************************)
EXTENDS Integers, Sequences, SequencesExt, FiniteSets

CONSTANTS
  Threads,        \* threads that use the bus
  Main,           \* the one of them that runs msg_bus_process()
  Topics,         \* topics that are published; "*" is a filter only
  MaxSubscribers, \* MSG_MAX_SUBSCRIBERS
  QueueSize,      \* MSG_QUEUE_SIZE
  MaxSubs,        \* bound: subscriptions ever made
  MaxMessages     \* bound: messages ever built

VARIABLES
  subs,     \* bus_state.subscribers[0 .. subscriber_count - 1]
  next_sub, \* next_subscriber_id
  queue,    \* msg_queue
  next_id,  \* next_msg_id
  stats,    \* stats_sent, stats_received, stats_dropped
  real,     \* history: messages built, queued and refused
  call,     \* what each thread is in the middle of publishing
  proc      \* msg_bus_process(): the message, the index, who was called for it

vars == <<subs, next_sub, queue, next_id, stats, real, call, proc>>

Nobody == 0
NoMessage == [id |-> 0, to |-> Nobody, topic |-> ""]
Idle == [op |-> "idle"]
Quiet == [busy |-> FALSE, in_handler |-> FALSE, i |-> 1, msg |-> NoMessage,
          start |-> {}, called |-> <<>>, removed |-> 0]

\* The thread may take subscriber_mutex: nobody delivers, or it is in a handler.
CanLock(t) ==
  /\ call[t] = Idle
  /\ IF t = Main THEN proc.busy => proc.in_handler ELSE ~proc.busy

-----------------------------------------------------------------------------
(* Subscribers.                                                            *)

Subscribe(t, filter) ==
  /\ CanLock(t) /\ next_sub <= MaxSubs /\ Len(subs) < MaxSubscribers
  /\ subs' = Append(subs, [id |-> next_sub, filter |-> filter])
  /\ next_sub' = next_sub + 1
  /\ UNCHANGED <<queue, next_id, stats, real, call, proc>>

\* The array closes up, also under a walk that stands further on.
CompactedBug(i) ==  \* mutation: the last entry stays where it was
  [k \in 1 .. Len(subs) |->
    subs[IF k < i \/ k = Len(subs) THEN k ELSE k + 1]]
Compacted(i) == RemoveAt(subs, i)
Unsubscribe(t, i) ==
  /\ CanLock(t) /\ subs' = Compacted(i)
  /\ proc' = IF proc.busy THEN [proc EXCEPT !.removed = @ + 1] ELSE proc
  /\ UNCHANGED <<next_sub, queue, next_id, stats, real, call>>

-----------------------------------------------------------------------------
(* msg_bus_publish() and msg_bus_send(), by a thread or by a handler.      *)

Build(t, m) ==
  /\ call[t] = Idle /\ (t = Main /\ proc.busy => proc.in_handler)
  /\ real.built < MaxMessages /\ real' = [real EXCEPT !.built = @ + 1]
  /\ call' = [call EXCEPT ![t] = [op |-> "id", msg |-> m, loaded |-> next_id]]
  /\ UNCHANGED <<subs, next_sub, queue, next_id, stats, proc>>

StoreId(t) ==
  /\ call[t].op = "id"
  /\ next_id' = call[t].loaded + 1
  /\ call' = [call EXCEPT ![t] = [op |-> "put", msg |-> [@.msg EXCEPT !.id = call[t].loaded]]]
  /\ UNCHANGED <<subs, next_sub, queue, stats, real, proc>>

\* k_msgq_put(K_NO_WAIT): a full queue refuses the message.
Put(t) ==
  LET full == Len(queue) = QueueSize IN
  /\ call[t].op = "put"
  /\ queue' = IF full THEN queue ELSE Append(queue, call[t].msg)
  /\ real' = IF full THEN [real EXCEPT !.refused = @ + 1] ELSE [real EXCEPT !.queued = @ + 1]
  /\ LET counter == IF full THEN "dropped" ELSE "sent" IN
     call' = [call EXCEPT ![t] = [op |-> "count", counter |-> counter, loaded |-> stats[counter]]]
  /\ UNCHANGED <<subs, next_sub, next_id, stats, proc>>

Counted(c) == c.loaded + 1
Count(t) ==
  /\ call[t].op = "count"
  /\ stats' = [stats EXCEPT ![call[t].counter] = Counted(call[t])]
  /\ call' = [call EXCEPT ![t] = Idle]
  /\ UNCHANGED <<subs, next_sub, queue, next_id, real, proc>>

-----------------------------------------------------------------------------
(* msg_bus_process(), in the main loop.                                    *)

\* A recipient of 0 is a broadcast, an empty topic a point-to-point message.
Matches(m, s) ==
  /\ m.to # Nobody => m.to = s.id
  /\ m.topic # "" => s.filter \in {m.topic, "*"}

Get ==
  /\ ~proc.busy /\ call[Main] = Idle /\ queue # <<>>
  /\ queue' = Tail(queue)
  /\ stats' = [stats EXCEPT !.received = @ + 1]
  /\ proc' = [Quiet EXCEPT !.busy = TRUE, !.msg = Head(queue), !.start = ToSet(subs)]
  /\ UNCHANGED <<subs, next_sub, next_id, real, call>>

Walking == proc.busy /\ ~proc.in_handler /\ proc.i <= Len(subs)

Skip ==
  /\ Walking /\ ~Matches(proc.msg, subs[proc.i])
  /\ proc' = [proc EXCEPT !.i = @ + 1]
  /\ UNCHANGED <<subs, next_sub, queue, next_id, stats, real, call>>

CallHandler ==
  /\ Walking /\ Matches(proc.msg, subs[proc.i])
  /\ proc' = [proc EXCEPT !.in_handler = TRUE, !.called = Append(@, subs[proc.i])]
  /\ UNCHANGED <<subs, next_sub, queue, next_id, stats, real, call>>

HandlerReturns ==
  /\ proc.in_handler /\ call[Main] = Idle
  /\ proc' = [proc EXCEPT !.in_handler = FALSE, !.i = @ + 1]
  /\ UNCHANGED <<subs, next_sub, queue, next_id, stats, real, call>>

AtEnd == proc.i > Len(subs)
Delivered ==
  /\ proc.busy /\ ~proc.in_handler /\ AtEnd
  /\ proc' = [Quiet EXCEPT !.start = proc.start, !.called = proc.called,
                           !.removed = proc.removed, !.msg = proc.msg]
  /\ UNCHANGED <<subs, next_sub, queue, next_id, stats, real, call>>

-----------------------------------------------------------------------------
Init ==
  /\ subs = <<>> /\ next_sub = 1
  /\ queue = <<>> /\ next_id = 1
  /\ stats = [sent |-> 0, received |-> 0, dropped |-> 0]
  /\ real = [built |-> 0, queued |-> 0, refused |-> 0]
  /\ call = [t \in Threads |-> Idle]
  /\ proc = Quiet

Publish(t, topic) == Build(t, [NoMessage EXCEPT !.topic = topic])
Send(t, to) == Build(t, [NoMessage EXCEPT !.to = to])

Next ==
  \/ \E t \in Threads :
       \/ \E f \in Topics \cup {"*"} : Subscribe(t, f)
       \/ \E i \in 1 .. Len(subs) : Unsubscribe(t, i)
       \/ \E topic \in Topics : Publish(t, topic)
       \/ \E to \in 1 .. MaxSubs : Send(t, to)
       \/ StoreId(t) \/ Put(t) \/ Count(t)
  \/ Get \/ Skip \/ CallHandler \/ HandlerReturns \/ Delivered

Spec == Init /\ [][Next]_vars

-----------------------------------------------------------------------------
(* Properties.                                                             *)

\* Subscriptions have distinct identifiers, and array and queue their limits.
TypeOK ==
  /\ \A s \in ToSet(subs) : s.id \in 1 .. next_sub - 1 /\ s.filter \in Topics \cup {"*"}
  /\ Len(subs) <= MaxSubscribers /\ Len(queue) <= QueueSize
  /\ next_id \in 1 .. MaxMessages + 1
  /\ \A m \in ToSet(queue) : m.id \in 1 .. MaxMessages /\ m.to \in 0 .. MaxSubs

Subscribed(ids) == {s \in ToSet(subs) : s \in ids}

\* One message calls a handler at most once, however the array moves while it
\* is walked.
NobodyTwice == IsInjective(proc.called)

\* A subscriber that is there from the start of a delivery to its end is
\* called, except that every unsubscription from inside a handler may make the
\* walk step over one.
MissedOnlyByRemoval ==
  ~proc.busy /\ proc.msg # NoMessage =>
    Cardinality({s \in Subscribed(proc.start) : Matches(proc.msg, s)}
                  \ ToSet(proc.called)) <= proc.removed

\* Publishers that race lose counts, and never invent one.
StatsNeverInvent == stats.sent <= real.queued /\ stats.dropped <= real.refused

\* All three; and a message that was accepted is waiting or was delivered.
BusSound ==
  /\ NobodyTwice /\ MissedOnlyByRemoval /\ StatsNeverInvent
  /\ real.queued = Len(queue) + stats.received
=============================================================================
