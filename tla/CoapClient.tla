----------------------------- MODULE CoapClient -----------------------------
(***************************************************************************)
(* The CoAP client (src/connectivity/client/coap_client.c): one request at *)
(* a time under a mutex, each on a socket of its own, sent once and        *)
(* answered by the first datagram that comes; and observers, which send    *)
(* nothing and have no socket.  The server may acknowledge first and       *)
(* answer later; any datagram may be lost.  Other components open sockets  *)
(* in the same table.                                                      *)
(*                                                                         *)
(* History: stopped says that an observer was stopped.                     *)
(***************************************************************************)
EXTENDS Integers, FiniteSets, FiniteSetsExt

CONSTANTS
  Threads,      \* callers
  Fds,          \* numbers in the table of sockets, from 0
  MaxObservers, \* COAP_MAX_OBSERVERS
  MaxHeld       \* bound: responses that callers hold

VARIABLES
  initialized, \* initialized
  mutex,       \* client_mutex: its holder, or Free
  socket,      \* who has each socket: a caller, "other" or Free
  observers,   \* the slots of observers[] that are active
  call,        \* what each caller is in the middle of
  payloads,    \* payload copies allocated by k_malloc
  held,        \* those that callers have been given
  result,      \* what each caller's last request answered
  stopped      \* history

vars == <<initialized, mutex, socket, observers, call, payloads, held, result, stopped>>

Free == "free"
Idle == [op |-> "idle"]
At(t, step) == call[t].op # "idle" /\ call[t].at = step
Outcome(op, is, from) == [op |-> op, is |-> is, from |-> from]
FreeFds == {f \in Fds : socket[f] = Free}
Released(t) == IF mutex = t THEN Free ELSE mutex \* by its owner only

\* What the server makes of a request: the responses it may give.
Responses(op) == IF op = "upload" THEN {"changed", "error"} ELSE {"content", "error"}

-----------------------------------------------------------------------------
(* Initialisation: coap_client_deinit() waits for the mutex only to stop   *)
(* an observer, and coap_client_init() makes a new one, held or not.       *)

ClientInit ==
  /\ ~initialized /\ initialized' = TRUE /\ mutex' = Free /\ observers' = {}
  /\ UNCHANGED <<socket, call, payloads, held, result, stopped>>

\* The socket of an observer is never opened: its number is 0, which is
\* closed for whoever has it.
ClosedZero(s) == [s EXCEPT ![0] = Free]

ClientDeinit ==
  /\ initialized /\ initialized' = FALSE /\ observers' = {}
  /\ IF observers = {} THEN UNCHANGED <<socket, stopped>>
     ELSE mutex = Free /\ socket' = ClosedZero(socket) /\ stopped' = TRUE
  /\ UNCHANGED <<mutex, call, payloads, held, result>>

Observe ==
  /\ initialized /\ mutex = Free
  /\ LET slots == (0 .. MaxObservers - 1) \ observers
     IN slots # {} /\ observers' = observers \union {Min(slots)}
  /\ UNCHANGED <<initialized, mutex, socket, call, payloads, held, result, stopped>>

ObserveStop ==
  /\ initialized /\ mutex = Free
  /\ \E o \in observers : observers' = observers \ {o}
  /\ socket' = ClosedZero(socket) /\ stopped' = TRUE
  /\ UNCHANGED <<initialized, mutex, call, payloads, held, result>>

-----------------------------------------------------------------------------
(* A request: coap_client_request().                                       *)

\* The caller's buffer is on its stack: the result of its last request is
\* overwritten, and the URL has been parsed.
Request(t, op) ==
  /\ initialized /\ call[t] = Idle
  /\ call' = [call EXCEPT ![t] = [op |-> op, at |-> "lock"]]
  /\ result' = [result EXCEPT ![t] = Outcome("none", "none", "none")]
  /\ UNCHANGED <<initialized, mutex, socket, observers, payloads, held, stopped>>

\* create_socket(): no address, no socket, or no connection, and the socket
\* that has been opened is closed.
NotConnectedBug(t) ==  \* mutation: the socket is left open
  [socket EXCEPT ![Min(FreeFds)] = t]
NotConnected(t) == socket
OpenSocket(t) ==
  /\ At(t, "lock") /\ mutex = Free
  /\ \/ FreeFds # {}
        /\ socket' = [socket EXCEPT ![Min(FreeFds)] = t] /\ mutex' = t
        /\ call' = [call EXCEPT ![t] =
             [op |-> @.op, at |-> "send", fd |-> Min(FreeFds), server |-> "waits", mail |-> {}]]
        /\ UNCHANGED result
     \/ socket' = (IF FreeFds = {} THEN socket ELSE NotConnected(t))
        /\ call' = [call EXCEPT ![t] = Idle] /\ UNCHANGED mutex
        /\ result' = [result EXCEPT ![t].is = "failed"]
  /\ UNCHANGED <<initialized, observers, payloads, held, stopped>>

\* The end of every request that has a socket.
CloseSocket(t) ==
  /\ socket' = [socket EXCEPT ![call[t].fd] = Free]
  /\ mutex' = Released(t)
  /\ call' = [call EXCEPT ![t] = Idle]
RequestFails(t) ==
  /\ CloseSocket(t) /\ result' = [result EXCEPT ![t].is = "failed"]
  /\ UNCHANGED <<initialized, observers, payloads, held, stopped>>

\* send_coap_request(), up to the receive: sent once, confirmable or not.
Send(t) ==
  /\ At(t, "send")
  /\ \/ RequestFails(t)
     \/ /\ \E gets \in {"request", "nothing"} :
             call' = [call EXCEPT ![t].at = "receive", ![t].server = gets]
        /\ UNCHANGED <<initialized, mutex, socket, observers, payloads, held,
                       result, stopped>>

\* The server acknowledges, or answers; the datagram may be lost.
ServerSends(t, what) ==
  /\ At(t, "receive")
  /\ \/ what = "ack" /\ call[t].server = "request"
     \/ what \in Responses(call[t].op) /\ call[t].server \in {"request", "ack"}
  /\ \E lost \in BOOLEAN :
       call' = [call EXCEPT ![t].server = what,
                            ![t].mail = IF lost THEN @ ELSE @ \union {what}]
  /\ UNCHANGED <<initialized, mutex, socket, observers, payloads, held, result, stopped>>

\* The timeout, an error of the socket, or a datagram that does not parse.
ReceiveFails(t) == At(t, "receive") /\ RequestFails(t)

\* What the caller makes of the code: coap_client_download() wants content,
\* coap_client_upload() wants changed; the others pass everything on.
Judged(op, code) ==
  LET refused == CASE op = "download" -> code # "content"
                   [] op = "upload" -> code # "changed"
                   [] OTHER -> FALSE
  IN IF refused THEN "failed" ELSE "ok"

\* coap_client_free_response() in download and upload, on every path.
Kept(op, code) == IF op = "get" THEN 1 ELSE 0

\* The first datagram is taken for the response, whatever it is; content
\* has a payload, which is copied if there is memory.
Receive(t, code) ==
  /\ At(t, "receive") /\ code \in call[t].mail
  /\ LET op == call[t].op
     IN /\ \E copied \in (IF code \in {"content", "error"} /\ held < MaxHeld THEN {0, 1} ELSE {0}) :
             /\ payloads' = payloads + copied * Kept(op, code)
             /\ held' = held + IF op = "get" THEN copied ELSE 0
        /\ result' = [result EXCEPT ![t] = Outcome(op, Judged(op, code), call[t].server)]
  /\ CloseSocket(t)
  /\ UNCHANGED <<initialized, observers, stopped>>

\* coap_client_free_response(), by a caller.
FreeResponse ==
  /\ held > 0 /\ held' = held - 1 /\ payloads' = payloads - 1
  /\ UNCHANGED <<initialized, mutex, socket, observers, call, result, stopped>>

\* Another component opens or closes a socket.
Other(f) ==
  /\ \/ FreeFds # {} /\ f = Min(FreeFds) /\ socket' = [socket EXCEPT ![f] = "other"]
     \/ socket[f] = "other" /\ socket' = [socket EXCEPT ![f] = Free]
  /\ UNCHANGED <<initialized, mutex, observers, call, payloads, held, result, stopped>>

-----------------------------------------------------------------------------
Init ==
  /\ initialized = FALSE /\ mutex = Free /\ socket = [f \in Fds |-> Free]
  /\ observers = {} /\ call = [t \in Threads |-> Idle] /\ payloads = 0 /\ held = 0
  /\ result = [t \in Threads |-> Outcome("none", "none", "none")] /\ stopped = FALSE

Next ==
  \/ ClientInit \/ ClientDeinit \/ Observe \/ ObserveStop \/ FreeResponse
  \/ \E t \in Threads :
       \/ \E op \in {"get", "download", "upload"} : Request(t, op)
       \/ OpenSocket(t) \/ Send(t) \/ ReceiveFails(t)
       \/ \E d \in {"ack", "content", "changed", "error"} : ServerSends(t, d) \/ Receive(t, d)
  \/ \E f \in Fds : Other(f)

Spec == Init /\ [][Next]_vars

-----------------------------------------------------------------------------
(* Properties.                                                             *)

\* The variables keep their types.
TypeOK ==
  /\ mutex \in Threads \union {Free} /\ socket \in [Fds -> Threads \union {"other", Free}]
  /\ observers \subseteq 0 .. MaxObservers - 1 /\ payloads \in 0 .. MaxHeld /\ held \in 0 .. MaxHeld
  /\ \A t \in Threads : call[t].op \in {"idle", "get", "download", "upload"}

\* Every socket the client has is that of a request, and every request has
\* its own, until an observer is stopped: that closes socket 0.
SocketsAreRequests ==
  ~stopped => \A f \in Fds, t \in Threads :
                socket[f] = t <=> call[t].op # "idle" /\ call[t].at # "lock" /\ call[t].fd = f

\* No payload is left allocated but those that callers hold.
PayloadsHeld == payloads = held

\* A download or an upload that answered 0 was answered by the server with
\* content or with changed: an acknowledgement alone is a failure.
OkIsAnswered ==
  \A t \in Threads :
    result[t].is = "ok" =>
      /\ result[t].op = "download" => result[t].from = "content"
      /\ result[t].op = "upload" => result[t].from = "changed"

\* What the client owes the sockets, the heap and its callers.
CoapSound == SocketsAreRequests /\ PayloadsHeld /\ OkIsAnswered
=============================================================================
