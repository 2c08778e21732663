----------------------------- MODULE HttpServer -----------------------------
(***************************************************************************)
(* The HTTP server (src/connectivity/http/http_server.c): a thread that    *)
(* opens the listening socket and answers one connection after another by  *)
(* a table of routes, and callers who start it, stop it and change the     *)
(* table.  Only the table has a mutex, and its reader does not take it.    *)
(* The WebSocket part is left out: no connection ever becomes one.         *)
(*                                                                         *)
(* History: late says that a stop returned, or met a thread that had yet   *)
(* to set running, before the thread ended; overrun, that a thread was     *)
(* created over one that lived, or while a caller was stopping another;    *)
(* shifted, that the table changed since the search for the current        *)
(* request began.                                                          *)
(***************************************************************************)
EXTENDS Integers, Sequences, SequencesExt

CONSTANTS
  Callers,    \* threads that use the server
  Paths,      \* what routes and requests name
  MaxRoutes,  \* MAX_ROUTES
  MaxStarts   \* bound: threads created

VARIABLES
  state,     \* http_srv.state
  running,   \* http_srv.running
  serverFd,  \* http_srv.server_fd: 0 is none, else the number of the start
  open,      \* the listening sockets that are open
  thread,    \* where the server's thread is
  client,    \* whether the connection that was accepted is open
  active,    \* http_srv.stats.active_connections
  routes,    \* http_srv.routes[0 .. route_count - 1]
  request,   \* the path asked for, how far the search is, the answer
  call,      \* what each caller is in the middle of
  starts, late, overrun, shifted \* history

server == <<state, running, serverFd, open, thread>>
serving == <<client, active, request, shifted>>
vars == <<server, serving, routes, call, starts, late, overrun>>

NoRequest == [path |-> "none", at |-> 0, answer |-> "none"]
Alive == thread \notin {"none", "ended"}

-----------------------------------------------------------------------------
(* Starting and stopping.                                                  *)

\* akira_http_server_start(): only RUNNING is a reason not to.
Start(c) ==
  /\ call[c] = "idle" /\ state # "RUNNING" /\ starts < MaxStarts /\ starts' = starts + 1
  /\ state' = "STARTING" /\ thread' = "socket"
  /\ overrun' = (overrun \/ Alive \/ \E d \in Callers : call[d] # "idle")
  /\ UNCHANGED <<running, serverFd, open, serving, routes, call, late>>

\* akira_http_server_stop(): not RUNNING is nothing to stop.
StopBegin(c) ==
  /\ call[c] = "idle" /\ state = "RUNNING"
  /\ running' = FALSE /\ call' = [call EXCEPT ![c] = "close"]
  /\ late' = (late \/ thread = "listening")
  /\ UNCHANGED <<state, serverFd, open, thread, serving, routes, starts, overrun>>

\* The listening socket is closed to unblock accept(), and then forgotten.
Closed == open \ {serverFd}
StopClose(c) ==
  /\ call[c] = "close" /\ call' = [call EXCEPT ![c] = "forget"]
  /\ open' = Closed
  /\ UNCHANGED <<state, running, serverFd, thread, serving, routes, starts, late, overrun>>
StopForget(c) ==
  /\ call[c] = "forget" /\ call' = [call EXCEPT ![c] = "join"] /\ serverFd' = 0
  /\ UNCHANGED <<state, running, open, thread, serving, routes, starts, late, overrun>>

\* It waits five seconds, no longer, for the thread.
StopEnd(c) ==
  /\ call[c] = "join" /\ call' = [call EXCEPT ![c] = "idle"]
  /\ state' = "STOPPED" /\ late' = (late \/ Alive)
  /\ UNCHANGED <<running, serverFd, open, thread, serving, routes, starts, overrun>>

-----------------------------------------------------------------------------
(* The thread: server_thread_fn().                                         *)

ThreadSocket ==
  /\ thread = "socket"
  /\ \/ thread' = "bind" /\ serverFd' = starts /\ open' = open \union {starts} /\ UNCHANGED state
     \/ thread' = "ended" /\ state' = "ERROR" /\ UNCHANGED <<serverFd, open>>
  /\ UNCHANGED <<running, serving, routes, call, starts, late, overrun>>

\* bind() and listen(): a failure closes the socket.
Refused == open \ {serverFd}
ThreadBind ==
  /\ thread = "bind"
  /\ \/ thread' = "listening" /\ state' = "RUNNING" /\ UNCHANGED open
     \/ thread' = "ended" /\ state' = "ERROR" /\ open' = Refused
  /\ UNCHANGED <<running, serverFd, serving, routes, call, starts, late, overrun>>

\* running is set after the state says so.
ThreadRuns ==
  /\ thread = "listening" /\ thread' = "accept" /\ running' = TRUE
  /\ UNCHANGED <<state, serverFd, open, serving, routes, call, starts, late, overrun>>

Accept ==
  /\ thread = "accept" /\ running /\ serverFd \in open /\ thread' = "receive"
  /\ client' = TRUE /\ active' = active + 1
  /\ UNCHANGED <<state, running, serverFd, open, request, shifted, routes, call,
                 starts, late, overrun>>

\* The loop ends when accept() has failed and running is FALSE.
ThreadEnds ==
  /\ thread = "accept" /\ ~running /\ thread' = "ended"
  /\ open' = Closed /\ state' = "STOPPED"
  /\ UNCHANGED <<running, serverFd, serving, routes, call, starts, late, overrun>>

-----------------------------------------------------------------------------
(* A request: handle_request().                                            *)

\* Received and parsed: the search starts.
Receive(p) ==
  /\ thread = "receive" /\ thread' = "find" /\ shifted' = FALSE
  /\ request' = [path |-> p, at |-> 1, answer |-> "none"]
  /\ UNCHANGED <<state, running, serverFd, open, client, active, routes, call,
                 starts, late, overrun>>

\* find_route(), one entry at a time, without the mutex.
PastEnd(i) == i > Len(routes)
FindRoute ==
  /\ thread = "find" /\ request.answer = "none" /\ ~PastEnd(request.at)
  /\ request' = IF routes[request.at] = request.path
                THEN [request EXCEPT !.answer = "route"] ELSE [request EXCEPT !.at = @ + 1]
  /\ UNCHANGED <<server, client, active, shifted, routes, call, starts, late, overrun>>
NotFound ==
  /\ thread = "find" /\ request.answer = "none" /\ PastEnd(request.at)
  /\ request' = [request EXCEPT !.answer = "404"]
  /\ UNCHANGED <<server, client, active, shifted, routes, call, starts, late, overrun>>

\* The connection is closed after the answer, or when nothing was received.
Left == active - 1
CloseClient ==
  /\ thread = "receive" \/ (thread = "find" /\ request.answer # "none")
  /\ thread' = "accept" /\ client' = FALSE /\ active' = Left /\ request' = NoRequest
  /\ UNCHANGED <<state, running, serverFd, open, shifted, routes, call, starts,
                 late, overrun>>

-----------------------------------------------------------------------------
(* The table of routes.                                                    *)

RegisterRoute(p) ==
  /\ Len(routes) < MaxRoutes /\ routes' = Append(routes, p)
  /\ shifted' = TRUE
  /\ UNCHANGED <<server, client, active, request, call, starts, late, overrun>>

\* akira_http_unregister_route(): the first entry of the path is taken out
\* and the rest move down.
UnregisterRoute(p) ==
  /\ p \in ToSet(routes) /\ routes' = RemoveFirst(routes, p)
  /\ shifted' = TRUE
  /\ UNCHANGED <<server, client, active, request, call, starts, late, overrun>>

-----------------------------------------------------------------------------
Init ==
  /\ state = "STOPPED" /\ running = FALSE /\ serverFd = 0 /\ open = {} /\ thread = "none"
  /\ client = FALSE /\ active = 0 /\ routes = <<>> /\ request = NoRequest
  /\ call = [c \in Callers |-> "idle"]
  /\ starts = 0 /\ late = FALSE /\ overrun = FALSE /\ shifted = FALSE

Next ==
  \/ \E c \in Callers : Start(c) \/ StopBegin(c) \/ StopClose(c) \/ StopForget(c) \/ StopEnd(c)
  \/ ThreadSocket \/ ThreadBind \/ ThreadRuns \/ Accept \/ ThreadEnds
  \/ FindRoute \/ NotFound \/ CloseClient
  \/ \E p \in Paths : Receive(p) \/ RegisterRoute(p) \/ UnregisterRoute(p)

Spec == Init /\ [][Next]_vars

-----------------------------------------------------------------------------
(* Properties.                                                             *)

\* The variables keep their types.
TypeOK ==
  /\ state \in {"STOPPED", "STARTING", "RUNNING", "ERROR"} /\ running \in BOOLEAN
  /\ serverFd \in 0 .. MaxStarts /\ open \subseteq 1 .. MaxStarts
  /\ active \in 0 .. MaxStarts /\ routes \in Seq(Paths) /\ Len(routes) <= MaxRoutes
  /\ call \in [Callers -> {"idle", "close", "forget", "join"}]

\* A server whose thread has ended listens on no socket, and one that was
\* stopped by a call that waited for it has ended, unless one was started
\* over another or into a stop.
StoppedIsSilent ==
  ~overrun => /\ (~Alive => open = {})
              /\ (state = "STOPPED" /\ ~late) => ~Alive

\* The connections counted are those that are open, and each is answered
\* before the next.
CountsConnections ==
  ~overrun => /\ active = (IF client THEN 1 ELSE 0)
              /\ client <=> thread \in {"receive", "find"}

\* A path that is in the table is found, unless the table changed meanwhile.
RegisteredIsFound ==
  request.answer = "404" /\ ~shifted => request.path \notin ToSet(routes)

\* What the server owes its sockets, its connections and its routes.
ServerSound == StoppedIsSilent /\ CountsConnections /\ RegisteredIsFound
=============================================================================
