------------------------------ MODULE WsClient ------------------------------
(***************************************************************************)
(* The WebSocket client (src/connectivity/client/ws_client.c): a slot and  *)
(* a thread for each connection.  The thread resolves, connects, receives  *)
(* and cleans up; ws_client_disconnect(), without a lock, closes the same  *)
(* sockets, waits two seconds for the thread and frees the slot.           *)
(*                                                                         *)
(* History, since the slot was last seen with neither thread nor caller:   *)
(* late says that a disconnect stopped waiting for the thread; shared,     *)
(* that two callers disconnected the same slot at once; overrun, that it   *)
(* was given away while its thread or a caller still worked on it.         *)
(***************************************************************************)
EXTENDS Integers, FiniteSets, FiniteSetsExt

CONSTANTS
  Callers,     \* the threads that use the client
  Slots,       \* the handles, 0 .. WS_CLIENT_MAX_CONNECTIONS - 1
  MaxConnects  \* bound: connections made

VARIABLES
  inUse,    \* conn->in_use
  state,    \* conn->state
  running,  \* conn->running
  sock,     \* conn->sock_fd >= 0
  websock,  \* conn->websock_fd >= 0
  open,     \* the sockets that are open: "tcp" and "ws" of a slot
  thread,   \* where the connection's thread is
  listens,  \* conn->event_cb is set
  told,     \* the last event the callback was given
  call,     \* what each caller is in the middle of
  connects, late, shared, overrun \* history

conn == <<inUse, state, running, sock, websock>>
vars == <<conn, open, thread, listens, told, call, connects, late, shared, overrun>>

Idle == [at |-> "idle"]
HasThread(s) == thread[s] \notin {"none", "ended"}
Closing(s) == {c \in Callers : call[c].at # "idle" /\ call[c].slot = s}
Event(s, e) == told' = IF listens[s] THEN [told EXCEPT ![s] = e] ELSE told

-----------------------------------------------------------------------------
(* Connecting.                                                             *)

\* ws_client_connect(): the lowest free slot is wiped under the mutex.
Connect(c) ==
  /\ call[c] = Idle /\ connects < MaxConnects /\ connects' = connects + 1
  /\ {s \in Slots : ~inUse[s]} # {}
  /\ LET s == Min({x \in Slots : ~inUse[x]})
     IN /\ inUse' = [inUse EXCEPT ![s] = TRUE] /\ state' = [state EXCEPT ![s] = "CONNECTING"]
        /\ sock' = [sock EXCEPT ![s] = FALSE] /\ websock' = [websock EXCEPT ![s] = FALSE]
        /\ running' = [running EXCEPT ![s] = FALSE]
        /\ listens' = [listens EXCEPT ![s] = FALSE] /\ told' = [told EXCEPT ![s] = "none"]
        /\ call' = [call EXCEPT ![c] = [at |-> "create", slot |-> s]]
        /\ IF HasThread(s) \/ Closing(s) # {}
           THEN overrun' = [overrun EXCEPT ![s] = TRUE] /\ UNCHANGED <<late, shared>>
           ELSE /\ late' = [late EXCEPT ![s] = FALSE] /\ shared' = [shared EXCEPT ![s] = FALSE]
                /\ UNCHANGED overrun
  /\ UNCHANGED <<open, thread>>

\* Its thread is created after the mutex is released.
CreateThread(c) ==
  /\ call[c].at = "create" /\ call' = [call EXCEPT ![c] = Idle]
  /\ running' = [running EXCEPT ![call[c].slot] = TRUE]
  /\ thread' = [thread EXCEPT ![call[c].slot] = "start"]
  /\ UNCHANGED <<inUse, state, sock, websock, open, listens, told, connects, late,
                 shared, overrun>>

\* ws_client_set_event_cb(): the connection may have come up by then.
SetEventCb(s) ==
  /\ inUse[s] /\ ~listens[s] /\ listens' = [listens EXCEPT ![s] = TRUE]
  /\ UNCHANGED <<conn, open, thread, told, call, connects, late, shared, overrun>>

-----------------------------------------------------------------------------
(* The thread: ws_client_thread_fn().                                      *)

ThreadGoes(s, to) == thread' = [thread EXCEPT ![s] = to]

\* The URL does not parse, the host does not resolve, there is no socket.
ThreadFails(s) ==
  /\ thread[s] = "start" /\ ThreadGoes(s, "ended")
  /\ state' = [state EXCEPT ![s] = "ERROR"]
  /\ Event(s, "error") \/ UNCHANGED told
  /\ UNCHANGED <<inUse, running, sock, websock, open, listens, call, connects,
                 late, shared, overrun>>

ThreadSocket(s) ==
  /\ thread[s] = "start" /\ ThreadGoes(s, "connect")
  /\ sock' = [sock EXCEPT ![s] = TRUE] /\ open' = open \union {<<"tcp", s>>}
  /\ UNCHANGED <<inUse, state, running, websock, listens, told, call, connects,
                 late, shared, overrun>>

\* zsock_connect() or websocket_connect() fails.
StillOpen(s) == IF sock[s] THEN open \ {<<"tcp", s>>} ELSE open
ThreadRefused(s) ==
  /\ thread[s] = "connect" /\ ThreadGoes(s, "ended")
  /\ open' = StillOpen(s) /\ sock' = [sock EXCEPT ![s] = FALSE]
  /\ state' = [state EXCEPT ![s] = "ERROR"]
  /\ UNCHANGED <<inUse, running, websock, listens, told, call, connects, late,
                 shared, overrun>>

ThreadConnected(s) ==
  /\ thread[s] = "connect" /\ <<"tcp", s>> \in open /\ ThreadGoes(s, "up")
  /\ websock' = [websock EXCEPT ![s] = TRUE] /\ open' = open \union {<<"ws", s>>}
  /\ state' = [state EXCEPT ![s] = "CONNECTED"] /\ Event(s, "connected")
  /\ UNCHANGED <<inUse, running, sock, listens, call, connects, late, shared, overrun>>

\* The receive loop ends by an error of the socket, or is told to.
ThreadLeaves(s) ==
  /\ thread[s] = "up" /\ ThreadGoes(s, "cleanup")
  /\ UNCHANGED <<conn, open, listens, told, call, connects, late, shared, overrun>>

ThreadCloses(s) ==
  /\ thread[s] = "cleanup" /\ ThreadGoes(s, "closed")
  /\ open' = open \ ((IF websock[s] THEN {<<"ws", s>>} ELSE {}) \union
                     (IF sock[s] THEN {<<"tcp", s>>} ELSE {}))
  /\ websock' = [websock EXCEPT ![s] = FALSE] /\ sock' = [sock EXCEPT ![s] = FALSE]
  /\ UNCHANGED <<inUse, state, running, listens, told, call, connects, late,
                 shared, overrun>>

\* A connection that ends by itself tells so; one that is closed leaves it
\* to the caller.  auto_reconnect sleeps, and the thread ends all the same.
QuietEnd(s) == state[s] = "CLOSING"
ThreadEnds(s) ==
  /\ thread[s] = "closed" /\ ThreadGoes(s, "ended")
  /\ IF QuietEnd(s) THEN UNCHANGED <<state, told>>
     ELSE state' = [state EXCEPT ![s] = "DISCONNECTED"] /\ Event(s, "disconnected")
  /\ UNCHANGED <<inUse, running, sock, websock, open, listens, call, connects,
                 late, shared, overrun>>

-----------------------------------------------------------------------------
(* Disconnecting: ws_client_disconnect(), which deinit calls for each slot. *)

CallGoes(c, to) == call' = [call EXCEPT ![c].at = to]

Disconnect(c, s) ==
  /\ call[c] = Idle /\ inUse[s]
  /\ state' = [state EXCEPT ![s] = "CLOSING"] /\ running' = [running EXCEPT ![s] = FALSE]
  /\ call' = [call EXCEPT ![c] = [at |-> "close", slot |-> s]]
  /\ shared' = [shared EXCEPT ![s] = @ \/ Closing(s) # {}]
  /\ UNCHANGED <<inUse, sock, websock, open, thread, listens, told, connects, late,
                 overrun>>

\* The close frame may take a second; each socket is seen, closed and
\* forgotten while the thread goes on.
DisconnectWs(c) ==
  /\ call[c].at = "close" /\ CallGoes(c, "tcp")
  /\ LET s == call[c].slot
     IN /\ open' = IF websock[s] THEN open \ {<<"ws", s>>} ELSE open
        /\ websock' = [websock EXCEPT ![s] = FALSE]
  /\ UNCHANGED <<inUse, state, running, sock, thread, listens, told, connects,
                 late, shared, overrun>>
DisconnectTcp(c) ==
  /\ call[c].at = "tcp" /\ CallGoes(c, "join")
  /\ LET s == call[c].slot
     IN /\ open' = (IF sock[s] THEN open \ {<<"tcp", s>>} ELSE open)
        /\ sock' = [sock EXCEPT ![s] = FALSE]
  /\ UNCHANGED <<inUse, state, running, websock, thread, listens, told, connects,
                 late, shared, overrun>>

\* k_thread_join() for two seconds, the event, and the slot is free.
TellsEnd(s) == TRUE
DisconnectEnd(c) ==
  /\ call[c].at = "join" /\ call' = [call EXCEPT ![c] = Idle]
  /\ LET s == call[c].slot
     IN /\ late' = [late EXCEPT ![s] = @ \/ HasThread(s)]
        /\ IF TellsEnd(s) THEN Event(s, "disconnected") ELSE UNCHANGED told
        /\ state' = [state EXCEPT ![s] = "DISCONNECTED"] /\ inUse' = [inUse EXCEPT ![s] = FALSE]
  /\ UNCHANGED <<running, sock, websock, open, thread, listens, connects, shared, overrun>>

-----------------------------------------------------------------------------
Init ==
  /\ inUse = [s \in Slots |-> FALSE] /\ state = [s \in Slots |-> "DISCONNECTED"]
  /\ running = [s \in Slots |-> FALSE] /\ sock = [s \in Slots |-> FALSE]
  /\ websock = [s \in Slots |-> FALSE] /\ open = {} /\ thread = [s \in Slots |-> "none"]
  /\ listens = [s \in Slots |-> FALSE] /\ told = [s \in Slots |-> "none"]
  /\ call = [c \in Callers |-> Idle] /\ connects = 0
  /\ late = [s \in Slots |-> FALSE] /\ shared = [s \in Slots |-> FALSE]
  /\ overrun = [s \in Slots |-> FALSE]

Next ==
  \/ \E c \in Callers :
       \/ Connect(c) \/ CreateThread(c) \/ DisconnectWs(c) \/ DisconnectTcp(c) \/ DisconnectEnd(c)
       \/ \E s \in Slots : Disconnect(c, s)
  \/ \E s \in Slots :
       \/ SetEventCb(s) \/ ThreadFails(s) \/ ThreadSocket(s) \/ ThreadRefused(s)
       \/ ThreadConnected(s) \/ ThreadLeaves(s) \/ ThreadCloses(s) \/ ThreadEnds(s)

Spec == Init /\ [][Next]_vars

-----------------------------------------------------------------------------
(* Properties.                                                             *)

\* The variables keep their types.
TypeOK ==
  /\ inUse \in [Slots -> BOOLEAN] /\ running \in [Slots -> BOOLEAN]
  /\ sock \in [Slots -> BOOLEAN] /\ websock \in [Slots -> BOOLEAN] /\ listens \in [Slots -> BOOLEAN]
  /\ state \in [Slots -> {"DISCONNECTED", "CONNECTING", "CONNECTED", "CLOSING", "ERROR"}]
  /\ told \in [Slots -> {"none", "error", "connected", "disconnected"}]
  /\ open \subseteq {"tcp", "ws"} \X Slots /\ connects \in 0 .. MaxConnects

\* Once its thread has ended and its callers have returned, a connection has
\* no socket open, unless the slot was given away under them.
NoSocketLeft ==
  \A s \in Slots : ~HasThread(s) /\ Closing(s) = {} /\ ~overrun[s]
                     => <<"tcp", s>> \notin open /\ <<"ws", s>> \notin open

\* A callback that was told of a connection is told of its end, by the
\* thread or by the caller who closes it, unless the slot was given away.
ToldOfEnd ==
  \A s \in Slots : ~HasThread(s) /\ Closing(s) = {} /\ ~overrun[s] => told[s] # "connected"

\* The slot of a thread that lives is not given away, unless a disconnect
\* did not wait for it or two callers closed it.
LivesInItsSlot ==
  \A s \in Slots : HasThread(s) /\ ~late[s] /\ ~shared[s] => inUse[s]

\* What a connection owes its sockets, its callback and its slot.
ConnectionsSound == NoSocketLeft /\ ToldOfEnd /\ LivesInItsSlot
=============================================================================
