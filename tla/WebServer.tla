----------------------------- MODULE WebServer ------------------------------
(***************************************************************************)
(* The web server's thread (src/OTA/web_server.c) and the chunked install  *)
(* sessions of the app manager it feeds (src/services/app_manager.c).      *)
(*                                                                         *)
(* One thread reads server_msgq, and while it serves it is inside          *)
(* run_web_server(): it takes one connection after the other and reads no  *)
(* message.  The shell and the network code only ever put messages, which  *)
(* a full queue refuses.  Bodies are counted in units of one recv(); what  *)
(* a request makes another manager do is left to that one's module (the    *)
(* App Manager, the shell; a firmware upload is in OtaClients).            *)
(***************************************************************************)
EXTENDS Integers, Sequences, FiniteSets

CONSTANTS
  MaxSessions, \* MAX_INSTALL_SESSIONS
  QueueSize,   \* SERVER_MSG_QUEUE_SIZE
  MaxAttempts, \* max_attempts of the listen loop
  MaxRetries,  \* send retries of one response, 20 in the code
  LogSize,     \* LOG_BUFFER_SIZE
  MaxLine,     \* longest line the log is given; LogSize \div 2 - 2 at most
  MaxBody,     \* bound: units of an upload's body, and of a response
  MaxRequests, \* bound: requests
  MaxMessages  \* bound: messages put

VARIABLES
  thread,   \* where the thread is
  state,    \* server_state.state
  network,  \* server_state.network_connected
  msgq,     \* server_msgq
  put,      \* messages put so far
  sock,     \* run_web_server(): the listening socket is open
  attempts, \* run_web_server(): listens that failed
  req,      \* the request being handled
  sessions, \* g_sessions of the app manager
  stats,    \* requests_handled; history: requests, full answers, answers that
            \* nobody looks at, bad installs
  log_pos   \* log_buffer_pos

vars == <<thread, state, network, msgq, put, sock, attempts, req, sessions, stats, log_pos>>

Sessions == 1 .. MaxSessions
Unused == [active |-> FALSE, buffer |-> FALSE, total |-> 0, received |-> 0]
NoRequest == [kind |-> "none", length |-> 0, got |-> 0, session |-> 0, left |-> 0, retries |-> 0]

-----------------------------------------------------------------------------
(* Other threads.                                                          *)

\* web_server_stop() and web_server_notify_network_status().
Notify(m) ==
  /\ put < MaxMessages /\ put' = put + 1
  /\ msgq' = IF Len(msgq) < QueueSize THEN Append(msgq, m) ELSE msgq
  /\ UNCHANGED <<thread, state, network, sock, attempts, req, sessions, stats, log_pos>>

\* web_server_add_log(): when the line does not fit, the older half goes.
LogShiftBug(pos, len) == pos  \* mutation: no shift
LogShift(pos, len) == IF pos + len + 2 >= LogSize THEN pos - LogSize \div 2 ELSE pos
\* Where the log may end after so many lines.
LogAfter(lines, pos) ==
  LET ends[k \in 0 .. lines] == IF k = 0 THEN {pos}
        ELSE {LogShift(p, len) + len + 1 : p \in ends[k - 1], len \in 0 .. MaxLine}
  IN ends[lines]
AddLog(len) ==
  /\ log_pos' = LogShift(log_pos, len) + len + 1
  /\ UNCHANGED <<thread, state, network, msgq, put, sock, attempts, req, sessions, stats>>

-----------------------------------------------------------------------------
(* web_server_thread_main() and run_web_server().                          *)

\* A stop is read only while nothing runs; a connect starts the server.
Receive ==
  LET m == Head(msgq) IN
  /\ thread = "idle" /\ msgq # <<>> /\ msgq' = Tail(msgq)
  /\ \/ /\ m = "stop" /\ state' = "STOPPED"
        /\ UNCHANGED <<thread, attempts, network, log_pos>>
     \/ /\ m = "disconnected" /\ network' = FALSE /\ log_pos' \in LogAfter(1, log_pos)
        /\ UNCHANGED <<thread, state, attempts>>
     \/ /\ m = "connected" /\ network' = TRUE /\ log_pos' \in LogAfter(3, log_pos)
        /\ thread' = "open" /\ state' = "RUNNING" /\ attempts' = 0
  /\ UNCHANGED <<put, sock, req, sessions, stats>>

\* The function returns with its socket closed, and the state follows.
Leave == thread' = "idle" /\ state' = "STOPPED" /\ sock' = FALSE

\* socket() and bind(), before the first listen.
OpenSocket ==
  /\ thread = "open"
  /\ \/ thread' = "listen" /\ sock' = TRUE /\ UNCHANGED state
     \/ Leave
  /\ UNCHANGED <<network, msgq, put, attempts, req, sessions, stats, log_pos>>

Listen ==
  /\ thread = "listen" /\ sock /\ thread' = "accept"
  /\ UNCHANGED <<state, network, msgq, put, sock, attempts, req, sessions, stats, log_pos>>

\* The socket is closed and made again, which may fail: then the next listen does.
ListenFails ==
  /\ thread = "listen" /\ attempts' = attempts + 1
  /\ \/ attempts' >= MaxAttempts /\ Leave
     \/ attempts' < MaxAttempts /\ sock' \in BOOLEAN /\ UNCHANGED <<thread, state>>
  /\ UNCHANGED <<network, msgq, put, req, sessions, stats, log_pos>>

\* while (state == RUNNING): a timeout or an error of accept() goes round again.
Accept(kind, length) ==
  /\ thread = "accept" /\ state = "RUNNING" /\ stats.requests < MaxRequests
  /\ req' = [NoRequest EXCEPT !.kind = kind, !.length = length]
  /\ stats' = [stats EXCEPT !.requests = @ + 1]
  /\ thread' = "request"
  /\ UNCHANGED <<state, network, msgq, put, sock, attempts, sessions, log_pos>>

-----------------------------------------------------------------------------
(* handle_http_request().                                                  *)

CloseClient == thread' = "accept" /\ req' = NoRequest
Reply(n) == thread' = "reply" /\ req' = [req EXCEPT !.left = n, !.retries = 0]

\* What a request does besides its answer of n units.
Answers(kinds) ==
  /\ thread = "request" /\ req.kind \in kinds /\ \E n \in 1 .. MaxBody : Reply(n)
  /\ UNCHANGED <<state, network, msgq, put, sock, attempts, sessions, stats>>

\* Nothing is received: no answer.
NothingReceived ==
  /\ thread = "request" /\ CloseClient
  /\ UNCHANGED <<state, network, msgq, put, sock, attempts, sessions, stats, log_pos>>

\* Not a request line: answered, and an error all the same.
NotAnswered == req' = [req EXCEPT !.kind = "refused", !.left = 1, !.retries = 0]
BadRequest ==
  /\ thread = "request" /\ thread' = "reply" /\ NotAnswered
  /\ UNCHANGED <<state, network, msgq, put, sock, attempts, sessions, stats, log_pos>>

\* The main page, and whatever there is no page for.
HandlePage == Answers({"page"}) /\ UNCHANGED log_pos

\* handle_api_request(): the log and states of other components, the reboot;
\* the apps, which the App Manager lists, starts, stops and removes; and a
\* command of the shell, which is logged as its result is.
HandleApi == Answers({"api", "reboot"}) /\ UNCHANGED log_pos
HandleApps == Answers({"apps"}) /\ UNCHANGED log_pos
HandleCommand == Answers({"command"}) /\ log_pos' \in {log_pos} \union LogAfter(2, log_pos)

\* handle_firmware_upload(): an error is answered, and an answer that redirects
\* and is not looked at comes before the reboot.
HandleFirmware ==
  /\ thread = "request" /\ req.kind = "firmware" /\ thread' = "reply"
  /\ NotAnswered \/ req' = [req EXCEPT !.kind = "reboot", !.left = 1]
  /\ UNCHANGED <<state, network, msgq, put, sock, attempts, sessions, stats, log_pos>>

\* parse_content_length(): an upload without a length, or with one too large.
InvalidLength == Answers({"firmware", "app"}) /\ UNCHANGED log_pos

FreeSessions == {i \in Sessions : ~sessions[i].active}
Lowest(S) == CHOOSE i \in S : \A j \in S : i <= j

\* app_manager_install_begin(): no session or no memory is an error reply.
InstallBegin ==
  /\ thread = "request" /\ req.kind = "app"
  /\ \/ /\ FreeSessions # {}
        /\ LET i == Lowest(FreeSessions) IN
           /\ sessions' = [sessions EXCEPT ![i] = [active |-> TRUE, buffer |-> TRUE,
                                                   total |-> req.length, received |-> 0]]
           /\ req' = [req EXCEPT !.session = i] /\ thread' = "upload"
     \/ Reply(1) /\ UNCHANGED sessions
  /\ UNCHANGED <<state, network, msgq, put, sock, attempts, stats, log_pos>>

\* app_manager_install_abort().
AbortedBug(s) == [s EXCEPT !.buffer = FALSE]  \* mutation: the session is kept
Aborted(s) == [s EXCEPT !.buffer = FALSE, !.active = FALSE]

\* app_manager_install_chunk(): what came with the headers, and then recv()s.
\* What came with the headers may be longer than the body.
Fits(s, n) == s.received + n <= s.total
InstallChunk(n) ==
  LET s == sessions[req.session] IN
  /\ thread = "upload" /\ (req.got = 0 \/ req.got + n <= req.length)
  /\ IF Fits(s, n)
     THEN /\ sessions' = [sessions EXCEPT ![req.session].received = @ + n]
          /\ req' = [req EXCEPT !.got = @ + n] /\ UNCHANGED thread
     ELSE sessions' = [sessions EXCEPT ![req.session] = Aborted(s)] /\ Reply(1)
  /\ UNCHANGED <<state, network, msgq, put, sock, attempts, stats, log_pos>>

\* recv() fails or times out before the body is complete.
UploadLost ==
  /\ thread = "upload" /\ req.got < req.length
  /\ sessions' = [sessions EXCEPT ![req.session] = Aborted(@)] /\ Reply(1)
  /\ UNCHANGED <<state, network, msgq, put, sock, attempts, stats, log_pos>>

\* app_manager_install_end().
InstallEnd ==
  LET s == sessions[req.session] IN
  /\ thread = "upload" /\ req.got >= req.length
  /\ stats' = [stats EXCEPT
       !.bad = @ + IF s.active /\ s.buffer /\ s.received = req.length THEN 0 ELSE 1]
  /\ sessions' = [sessions EXCEPT ![req.session] = Aborted(s)] /\ Reply(1)
  /\ UNCHANGED <<state, network, msgq, put, sock, attempts, log_pos>>

-----------------------------------------------------------------------------
(* send_http_response() and the end of the request.                        *)

Send(n) ==
  /\ thread = "reply" /\ n \in 1 .. req.left
  /\ req' = [req EXCEPT !.left = @ - n, !.retries = 0]
  /\ UNCHANGED <<thread, state, network, msgq, put, sock, attempts, sessions,
                 stats, log_pos>>

SendRetry ==
  /\ thread = "reply" /\ req.left > 0 /\ req.retries < MaxRetries
  /\ req' = [req EXCEPT !.retries = @ + 1]
  /\ UNCHANGED <<thread, state, network, msgq, put, sock, attempts, sessions,
                 stats, log_pos>>

\* The peer is gone or the retries are used up.  Who reboots does not look.
Counts(r) == (r.left = 0 /\ r.kind # "refused") \/ r.kind = "reboot"
Finish ==
  /\ thread = "reply" /\ CloseClient
  /\ stats' = [stats EXCEPT !.handled = @ + (IF Counts(req) THEN 1 ELSE 0),
                            !.answered = @ + (IF req.left = 0 THEN 1 ELSE 0),
                            !.reboots = @ + (IF req.kind = "reboot" THEN 1 ELSE 0)]
  /\ UNCHANGED <<state, network, msgq, put, sock, attempts, sessions, log_pos>>

-----------------------------------------------------------------------------
Init ==
  /\ thread = "idle" /\ state = "STOPPED" /\ network = FALSE
  /\ msgq = <<>> /\ put = 0 /\ sock = FALSE /\ attempts = 0
  /\ req = NoRequest /\ sessions = [i \in Sessions |-> Unused]
  /\ stats = [requests |-> 0, handled |-> 0, answered |-> 0, reboots |-> 0, bad |-> 0]
  /\ log_pos \in LogAfter(9, 0) \* what it logs of the boot

Kinds == {"page", "api", "apps", "command", "reboot", "firmware", "app"}
Server ==
  \/ Receive \/ OpenSocket \/ Listen \/ ListenFails
  \/ \E k \in Kinds, n \in 1 .. MaxBody : Accept(k, n)
  \/ NothingReceived \/ BadRequest \/ HandlePage \/ HandleApi \/ HandleApps
  \/ HandleCommand \/ HandleFirmware \/ InvalidLength
  \/ InstallBegin \/ UploadLost \/ InstallEnd
  \/ \E n \in 1 .. MaxBody : InstallChunk(n) \/ Send(n)
  \/ SendRetry \/ Finish
Next ==
  \/ Server
  \/ \E m \in {"stop", "connected", "disconnected"} : Notify(m)
  \/ \E len \in 0 .. MaxLine : AddLog(len)

Spec == Init /\ [][Next]_vars

\* The server's thread is never starved; clients, which start requests, and
\* the other threads owe nothing.
FairSpec == Spec /\ WF_vars(Receive) /\ WF_vars(OpenSocket \/ Listen \/ ListenFails)

-----------------------------------------------------------------------------
(* Properties.                                                             *)

\* Counters stay within their bounds and the log within its buffer, with the
\* terminating zero; the shift never reaches before its start.
TypeOK ==
  /\ thread \in {"idle", "open", "listen", "accept", "request", "upload", "reply"}
  /\ Len(msgq) <= QueueSize /\ attempts \in 0 .. MaxAttempts
  /\ req.left \in 0 .. MaxBody /\ req.session \in 0 .. MaxSessions
  /\ req.kind \in Kinds \union {"none", "refused"} /\ log_pos \in 0 .. LogSize - 1

\* Between two requests no install session is taken and no buffer is held, and
\* during an upload only its own: a client that fails in any place of its
\* upload leaves the sessions free for the next one.
SessionsReturned ==
  \A i \in Sessions :
    /\ sessions[i].buffer = sessions[i].active
    /\ sessions[i].active => thread = "upload" /\ req.session = i

\* An upload is installed only when the whole body came.
InstallsAreWhole == stats.bad = 0

\* What the others are told is what the thread does: RUNNING while it is in
\* run_web_server(), which it leaves with its socket closed.
StateIsThread ==
  /\ state = "RUNNING" <=> thread # "idle"
  /\ thread \notin {"open", "listen"} => sock = (thread # "idle")

\* Every request that was counted as handled had its whole answer sent; only a
\* reboot does not look.
HandledIsAnswered == stats.handled <= stats.answered + stats.reboots

\* All four.
WebSound == SessionsReturned /\ InstallsAreWhole /\ StateIsThread /\ HandledIsAnswered

\* web_server_stop() "gracefully shuts down the HTTP server and terminates the
\* thread": a stop that was queued is carried out.
StopIsCarriedOut == (\E i \in 1 .. Len(msgq) : msgq[i] = "stop") ~> state = "STOPPED"
=============================================================================
