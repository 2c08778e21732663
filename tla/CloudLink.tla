----------------------------- MODULE CloudLink -----------------------------
(***************************************************************************)
(* The cloud client (src/connectivity/cloud/cloud_client.c) as those who   *)
(* send see it: the connections, the handlers and the sending of messages. *)
(* What it does with a message that comes is the module CloudClient.       *)
(*                                                                         *)
(* States are set, and reported to the state handler, without a lock; so   *)
(* are messages counted.  Only registering a handler, and giving them a    *)
(* message, take the mutex, and a handler may be registered before         *)
(* cloud_client_init(), which wipes the client.  Connecting and sending    *)
(* are simulated: the transports accept whatever is sent to a source that  *)
(* is connected.  The heartbeat timer broadcasts like any thread.          *)
(*                                                                         *)
(* History: told is the state last reported of the cloud, sent the         *)
(* messages that went out since the statistics were reset.  crossed says   *)
(* that connects and disconnects overlapped, clash that countings did, and *)
(* wiped that a registration was under way when the client was wiped.      *)
(***************************************************************************)
EXTENDS Integers, Sequences, SequencesExt

CONSTANTS
  Threads,     \* callers of the client, the heartbeat timer among them
  Nobody,      \* nobody has the mutex
  MaxHandlers, \* CLOUD_CLIENT_MAX_HANDLERS
  MaxCalls     \* bound: connects, disconnects, registrations and sends asked for

VARIABLES
  initialized,
  state,             \* cloud_state, bt_state and web_state
  handlers, count,   \* client.handlers: the entries written, and handler_count
  tx,                \* stats.total_messages_tx
  holder,            \* who has client.mutex
  call,              \* what each thread is in the middle of
  told, sent, crossed, clash, wiped, \* history
  calls

tables == <<handlers, count, holder, wiped>>
links == <<state, told, crossed>>
counters == <<tx, sent, clash>>
vars == <<initialized, links, tables, counters, call, calls>>

Order == <<"cloud", "bt", "web">>
Idle == [at |-> "idle", to |-> <<>>, all |-> FALSE, seen |-> 0]
Goes(t, at) == call' = [call EXCEPT ![t].at = at]
At(t, at) == call[t].at = at
Calls(t) == At(t, "idle") /\ calls < MaxCalls /\ calls' = calls + 1
Ends(t) == call' = [call EXCEPT ![t] = Idle]
Up(s) == state[s] = "CONNECTED"
Linking(t) == call[t].at \in {"connecting", "connect", "connected", "disconnected"}

-----------------------------------------------------------------------------
(* Initialisation: the heartbeat is started, the worker's queue is never   *)
(* filled.                                                                 *)

ClientInit ==
  /\ ~initialized /\ initialized' = TRUE
  /\ state' = [s \in ToSet(Order) |-> "DISCONNECTED"] /\ told' = "DISCONNECTED"
  /\ handlers' = 0 /\ count' = 0 /\ holder' = Nobody
  /\ wiped' = \E t \in Threads : At(t, "register")
  /\ tx' = 0 /\ sent' = 0
  /\ crossed' = \E t \in Threads : Linking(t)
  /\ clash' = \E t \in Threads : call[t].at \in {"count", "write"}
  /\ UNCHANGED <<call, calls>>

\* It disconnects, and leaves the handlers; other threads go on.
ClientDeinit ==
  /\ initialized /\ initialized' = FALSE
  /\ state' = [state EXCEPT !["cloud"] = "DISCONNECTED"] /\ told' = "DISCONNECTED"
  /\ crossed' = (crossed \/ \E t \in Threads : Linking(t))
  /\ UNCHANGED <<tables, counters, call, calls>>

-----------------------------------------------------------------------------
(* Connections: cloud_client_connect(), cloud_client_disconnect() and      *)
(* cloud_client_bt_connected(); nothing sets web_state.                    *)

Sets(t, st, at) == state' = [state EXCEPT !["cloud"] = st] /\ Goes(t, at)
Begins == crossed' = (crossed \/ \E t \in Threads : Linking(t))

Connect(t) ==
  /\ Calls(t) /\ initialized
  /\ Sets(t, "CONNECTING", "connecting") /\ Begins
  /\ UNCHANGED <<initialized, told, tables, counters>>
Connected(t) ==
  /\ At(t, "connect") /\ Sets(t, "CONNECTED", "connected")
  /\ UNCHANGED <<initialized, told, crossed, tables, counters, calls>>
Disconnect(t) ==
  /\ Calls(t) /\ initialized
  /\ Sets(t, "DISCONNECTED", "disconnected") /\ Begins
  /\ UNCHANGED <<initialized, told, tables, counters>>

\* state_handler() is called with the state that was set, not the one there.
Reported(t) == CASE At(t, "connecting") -> "CONNECTING"
                 [] At(t, "connected") -> "CONNECTED"
                 [] OTHER -> "DISCONNECTED"
Report(t) ==
  /\ call[t].at \in {"connecting", "connected", "disconnected"}
  /\ told' = Reported(t)
  /\ IF At(t, "connecting") THEN Goes(t, "connect") ELSE Ends(t)
  /\ UNCHANGED <<initialized, state, crossed, tables, counters, calls>>

BtConnected(up) ==
  /\ state' = [state EXCEPT !["bt"] = IF up THEN "CONNECTED" ELSE "DISCONNECTED"]
  /\ UNCHANGED <<initialized, told, crossed, tables, counters, call, calls>>

-----------------------------------------------------------------------------
(* Handlers: cloud_client_register_handler().                              *)

Stored == count + 1
Full == count >= MaxHandlers
Register(t) ==
  /\ Calls(t) /\ holder = Nobody /\ ~Full
  /\ handlers' = Stored /\ holder' = t /\ Goes(t, "register")
  /\ UNCHANGED <<initialized, links, count, wiped, counters>>
Registered(t) ==
  /\ At(t, "register") /\ Ends(t)
  /\ count' = count + 1 /\ holder' = Nobody
  /\ UNCHANGED <<initialized, links, handlers, wiped, counters, calls>>

-----------------------------------------------------------------------------
(* Sending: cloud_client_send(), cloud_client_broadcast() and those built  *)
(* on them, send_via_transport().                                          *)

Send(t, dest) ==
  /\ Calls(t) /\ initialized
  /\ call' = [call EXCEPT ![t] = [Idle EXCEPT !.at = "send", !.to = <<dest>>]]
  /\ UNCHANGED <<initialized, links, tables, counters>>
Broadcast(t) ==
  /\ Calls(t)
  /\ call' = [call EXCEPT ![t] = [Idle EXCEPT !.at = "offer", !.to = Order, !.all = TRUE]]
  /\ UNCHANGED <<initialized, links, tables, counters>>

Next1(c) == IF Len(c.to) <= 1 THEN Idle
            ELSE [c EXCEPT !.at = IF c.all THEN "offer" ELSE "send", !.to = Tail(c.to)]

\* A broadcast asks whether the source is connected, and so does the send.
Offer(t) ==
  /\ At(t, "offer")
  /\ IF Up(Head(call[t].to)) /\ initialized THEN Goes(t, "send")
                             ELSE call' = [call EXCEPT ![t] = Next1(call[t])]
  /\ UNCHANGED <<initialized, links, tables, counters, calls>>
Transport(t) ==
  /\ At(t, "send")
  /\ IF Up(Head(call[t].to))
     THEN sent' = sent + 1 /\ Goes(t, "count")
     ELSE call' = [call EXCEPT ![t] = Next1(call[t])] /\ UNCHANGED sent
  /\ UNCHANGED <<initialized, links, tables, tx, clash, calls>>

\* stats.total_messages_tx++
CountRead(t) ==
  /\ At(t, "count")
  /\ call' = [call EXCEPT ![t].at = "write", ![t].seen = tx]
  /\ clash' = (clash \/ \E u \in Threads \ {t} : At(u, "write"))
  /\ UNCHANGED <<initialized, links, tables, tx, sent, calls>>
CountWrite(t) ==
  /\ At(t, "write") /\ tx' = call[t].seen + 1
  /\ call' = [call EXCEPT ![t] = Next1(call[t])]
  /\ UNCHANGED <<initialized, links, tables, sent, clash, calls>>

-----------------------------------------------------------------------------
Init ==
  /\ initialized = FALSE /\ state = [s \in ToSet(Order) |-> "DISCONNECTED"]
  /\ handlers = 0 /\ count = 0 /\ holder = Nobody /\ tx = 0 /\ calls = 0
  /\ call = [t \in Threads |-> Idle]
  /\ told = "DISCONNECTED" /\ sent = 0 /\ crossed = FALSE /\ clash = FALSE /\ wiped = FALSE

Next ==
  \/ ClientInit \/ ClientDeinit
  \/ \E up \in BOOLEAN : BtConnected(up)
  \/ \E t \in Threads :
       \/ Connect(t) \/ Connected(t) \/ Disconnect(t) \/ Report(t)
       \/ Register(t) \/ Registered(t)
       \/ Send(t, "cloud") \/ Send(t, "bt") \/ Broadcast(t)
       \/ Offer(t) \/ Transport(t) \/ CountRead(t) \/ CountWrite(t)

Spec == Init /\ [][Next]_vars

-----------------------------------------------------------------------------
(* Properties.                                                             *)

\* The variables keep their types.
TypeOK ==
  /\ state \in [ToSet(Order) -> {"DISCONNECTED", "CONNECTING", "CONNECTED"}]
  /\ holder \in Threads \union {Nobody} /\ tx \in Nat /\ sent \in Nat /\ calls \in 0 .. MaxCalls

\* As long as connects and disconnects did not overlap, the state handler
\* was told last what the cloud's state is, whenever none is under way; as
\* long as no two messages were counted at once, as many are counted as went
\* out; and no handler is counted that was not
\* stored, unless the client was wiped while one was being registered.
ReportsSound ==
  /\ (~crossed /\ \A t \in Threads : ~Linking(t)) => told = state["cloud"]
  /\ (~clash /\ \A t \in Threads : call[t].at \notin {"count", "write"}) => tx = sent
  /\ ~wiped => count <= handlers
=============================================================================
