--------------------------- MODULE MCConnectivity ---------------------------
(* The components that talk to the outside, over the air or a wire, for TLC,  *)
(* side by side: each has its variables and its constants, and the one in     *)
(* focus runs while the others rest.  Behind the properties, the proofs about *)
(* USB, Bluetooth, the cloud client, WebSocket and the two servers, and what  *)
(* they and HidManager's say of the components together.                      *)
EXTENDS Integers, Sequences, FiniteSetTheorems, SequenceTheorems,
        WellFoundedInduction, TLAPS, TLC

CONSTANTS
  Callers, \* the threads of those that have several
  NoCaller,
  Paths,   \* the paths of the HTTP server's routes
  Sources, MessageKinds, AutoAdvertise, \* as in CloudClient and BtManager
  MaxTotal, MaxHandlers,         \* as in BtAppTransfer and CloudLink
  Slots, MaxConnects,            \* as in WsClient
  MaxRoutes, MaxStarts,          \* as in HttpServer
  MaxSessions, QueueSize, MaxAttempts, MaxRetries, LogSize, MaxLine, \* as in WebServer
  MaxBody, MaxRequests, MaxMessages,
  MaxEvents, MaxLinks, MaxFile, MaxTransferStarts, MaxChunks, MaxCalls \* bounds

\* What the proofs ask of the constants.
ASSUME CallersAssumption == NoCaller \notin Callers
ASSUME BoundsAssumption == MaxTotal \in Nat
ASSUME SlotsAssumption == Slots \in SUBSET Nat

VARIABLES
  focus, \* the component that runs
  enabled, registered, hidActive, trans, keyboard, pad,    \* HidManager
  typing, seen, down, shifting,
  usbInitialized, usbState, stack, cable, usbCall,         \* UsbManager
  events, usbOvertaken,
  btInitialized, btState, conn, btStats, adv, btLink,      \* BtManager
  refs, btCall, btOvertaken,
  transferState, xfer, file, exists, rx,                   \* BtAppTransfer
  transferStarts, installed,
  coapInitialized, mutex, socket, observers, coapCall,     \* CoapClient
  payloads, held, result, stopped,
  inUse, wsState, wsRunning, wsSock, websock, wsOpen,      \* WsClient
  wsThread, listens, wsTold, wsCall, connects, wsLate,
  shared, wsOverrun,
  webThread, webState, network, msgq, put, webSock,        \* WebServer
  attempts, req, sessions, webStats, log_pos,
  httpState, httpRunning, serverFd, httpOpen,              \* HttpServer
  httpThread, client, httpActive, routes, request,
  httpCall, httpStarts, httpLate, httpOverrun, shifted,
  cloudInitialized, cloudLink, cloudActive, owner,         \* CloudClient
  received, cloudCall, acks, opener, handed, mixed,
  linkInitialized, linkState, handlers, count, tx,         \* CloudLink
  holder, linkCall, linkTold, sent, crossed, clash,
  wiped, calls

hidVars == <<enabled, registered, hidActive, trans, keyboard, pad, typing, seen,
        down, shifting>>
usbVars == <<usbInitialized, usbState, stack, cable, usbCall, events,
        usbOvertaken>>
btVars == <<btInitialized, btState, conn, btStats, adv, btLink, refs, btCall,
        btOvertaken>>
transferVars == <<transferState, xfer, file, exists, rx, transferStarts, installed>>
coapVars == <<coapInitialized, mutex, socket, observers, coapCall, payloads,
        held, result, stopped>>
wsVars == <<inUse, wsState, wsRunning, wsSock, websock, wsOpen, wsThread,
        listens, wsTold, wsCall, connects, wsLate, shared, wsOverrun>>
webVars == <<webThread, webState, network, msgq, put, webSock, attempts, req,
        sessions, webStats, log_pos>>
httpVars == <<httpState, httpRunning, serverFd, httpOpen, httpThread, client,
        httpActive, routes, request, httpCall, httpStarts, httpLate,
        httpOverrun, shifted>>
cloudVars == <<cloudInitialized, cloudLink, cloudActive, owner, received,
        cloudCall, acks, opener, handed, mixed>>
linkVars == <<linkInitialized, linkState, handlers, count, tx, holder, linkCall,
        linkTold, sent, crossed, clash, wiped, calls>>

\* The keyboard of two threads, that of one with a key more than the report has
\* room for, and that of one that types nothing while its transports come and go.
HidKeys == INSTANCE HidManager WITH
  Threads <- Callers, Transports <- {"sim"}, Preferred <- "sim",
  Keys <- {1}, Chars <- {<<1, 1>>}, MaxKeys <- 1,
  MaxTransports <- 1, active <- hidActive

HidFull == INSTANCE HidManager WITH
  Threads <- {"a"}, Transports <- {"sim"}, Preferred <- "sim",
  Keys <- {1, 2}, Chars <- {<<1, 1>>, <<2, 0>>}, MaxKeys <- 1,
  MaxTransports <- 1, active <- hidActive

Hid == INSTANCE HidManager WITH
  Threads <- {"a"}, Transports <- {"sim", "ble"}, Preferred <- "ble",
  Keys <- {1}, Chars <- {}, MaxKeys <- 1,
  MaxTransports <- 2, active <- hidActive

Usb == INSTANCE UsbManager WITH
  initialized <- usbInitialized, state <- usbState,
  call <- usbCall, overtaken <- usbOvertaken

Bt == INSTANCE BtManager WITH
  Threads <- Callers,
  initialized <- btInitialized, state <- btState, stats <- btStats,
  link <- btLink, call <- btCall, overtaken <- btOvertaken

Transfer == INSTANCE BtAppTransfer WITH
  MaxStarts <- MaxTransferStarts, state <- transferState,
  starts <- transferStarts

\* Two sockets for the requests of two callers, and one that observers close.
Coap == INSTANCE CoapClient WITH
  Threads <- Callers, Fds <- {0, 1}, MaxObservers <- 0, MaxHeld <- 1,
  initialized <- coapInitialized, call <- coapCall

CoapObserved == INSTANCE CoapClient WITH
  Threads <- Callers, Fds <- {0}, MaxObservers <- 1, MaxHeld <- 0,
  initialized <- coapInitialized, call <- coapCall

Ws == INSTANCE WsClient WITH
  state <- wsState, running <- wsRunning, sock <- wsSock, open <- wsOpen, thread <- wsThread,
  told <- wsTold, call <- wsCall, late <- wsLate, overrun <- wsOverrun

Web == INSTANCE WebServer WITH
  thread <- webThread, state <- webState, sock <- webSock,
  stats <- webStats

Http == INSTANCE HttpServer WITH
  state <- httpState, running <- httpRunning, open <- httpOpen,
  thread <- httpThread, active <- httpActive, call <- httpCall,
  starts <- httpStarts, late <- httpLate, overrun <- httpOverrun

Cloud == INSTANCE CloudClient WITH
  Kinds <- MessageKinds,
  initialized <- cloudInitialized, link <- cloudLink, active <- cloudActive,
  call <- cloudCall

Link == INSTANCE CloudLink WITH
  Threads <- Callers, Nobody <- NoCaller,
  initialized <- linkInitialized, state <- linkState, call <- linkCall,
  told <- linkTold

Symmetry == Permutations(Callers) \cup Permutations(Paths)

ConnectivityInit ==
  /\ focus \in {"keys", "full", "hid", "usb", "bt", "transfer", "coap",
               "observed", "ws", "web", "http", "cloud", "link"}
  /\ CASE focus = "keys" -> HidKeys!Init [] focus = "full" -> HidFull!Init
       [] OTHER -> Hid!Init
  /\ IF focus = "observed" THEN CoapObserved!Init ELSE Coap!Init
  /\ Usb!Init /\ Bt!Init /\ Transfer!Init /\ Ws!Init /\ Web!Init /\ Http!Init /\ Cloud!Init /\ Link!Init

\* What the bounds leave the WebSocket client: nothing to do, and nobody in
\* the middle of anything.  A component that stops elsewhere is a deadlock.
ConnectivityRests ==
  /\ focus = "ws" /\ \A c \in DOMAIN wsCall : wsCall[c].at = "idle"
  /\ \A s \in DOMAIN wsThread : ~Ws!HasThread(s)

ConnectivityNext ==
  /\ UNCHANGED focus
  /\ \/ /\ \/ focus = "keys" /\ HidKeys!Next
           \/ focus = "full" /\ HidFull!Next
           \/ focus = "hid" /\ Hid!Next
        /\ UNCHANGED <<usbVars, btVars, transferVars, coapVars, wsVars,
                        webVars, httpVars, cloudVars, linkVars>>
     \/ /\ focus = "usb" /\ Usb!Next
        /\ UNCHANGED <<hidVars, btVars, transferVars, coapVars, wsVars,
                        webVars, httpVars, cloudVars, linkVars>>
     \/ /\ focus = "bt" /\ Bt!Next
        /\ UNCHANGED <<hidVars, usbVars, transferVars, coapVars, wsVars,
                        webVars, httpVars, cloudVars, linkVars>>
     \/ /\ focus = "transfer" /\ Transfer!Next
        /\ UNCHANGED <<hidVars, usbVars, btVars, coapVars, wsVars, webVars,
                        httpVars, cloudVars, linkVars>>
     \/ /\ \/ focus = "coap" /\ Coap!Next
           \/ focus = "observed" /\ CoapObserved!Next
        /\ UNCHANGED <<hidVars, usbVars, btVars, transferVars, wsVars,
                        webVars, httpVars, cloudVars, linkVars>>
     \/ /\ focus = "ws" /\ Ws!Next
        /\ UNCHANGED <<hidVars, usbVars, btVars, transferVars, coapVars,
                        webVars, httpVars, cloudVars, linkVars>>
     \/ /\ focus = "web" /\ Web!Next
        /\ UNCHANGED <<hidVars, usbVars, btVars, transferVars, coapVars,
                        wsVars, httpVars, cloudVars, linkVars>>
     \/ /\ focus = "http" /\ Http!Next
        /\ UNCHANGED <<hidVars, usbVars, btVars, transferVars, coapVars,
                        wsVars, webVars, cloudVars, linkVars>>
     \/ /\ focus = "cloud" /\ Cloud!Next
        /\ UNCHANGED <<hidVars, usbVars, btVars, transferVars, coapVars,
                        wsVars, webVars, httpVars, linkVars>>
     \/ /\ focus = "link" /\ Link!Next
        /\ UNCHANGED <<hidVars, usbVars, btVars, transferVars, coapVars,
                        wsVars, webVars, httpVars, cloudVars>>
     \/ ConnectivityRests /\ UNCHANGED <<hidVars, usbVars, btVars, transferVars, coapVars,
                        wsVars, webVars, httpVars, cloudVars, linkVars>>

connectivityVars ==
  <<focus, hidVars, usbVars, btVars, transferVars, coapVars, wsVars, webVars,
    httpVars, cloudVars, linkVars>>
ConnectivitySpec == ConnectivityInit /\ [][ConnectivityNext]_connectivityVars

-----------------------------------------------------------------------------
(* Properties.                                                             *)

\* Every component's variables keep their types.
ConnectivityTyped ==
  /\ focus = "keys" => HidKeys!TypeOK
  /\ focus = "full" => HidFull!TypeOK
  /\ focus = "hid" => Hid!TypeOK
  /\ focus = "usb" => Usb!TypeOK
  /\ focus = "bt" => Bt!TypeOK
  /\ focus = "transfer" => Transfer!TypeOK
  /\ focus = "coap" => Coap!TypeOK
  /\ focus = "observed" => CoapObserved!TypeOK
  /\ focus = "ws" => Ws!TypeOK
  /\ focus = "web" => Web!TypeOK
  /\ focus = "http" => Http!TypeOK
  /\ focus = "cloud" => Cloud!TypeOK
  /\ focus = "link" => Link!TypeOK

\* No key is stuck, the host has the reports the manager has, the active
\* transport is registered; and the USB manager's state says what its host
\* does (hid_manager.c, usb_manager.c).
HidSound ==
  /\ focus = "keys" => HidKeys!HidSound
  /\ focus = "full" => HidFull!HidSound
  /\ focus = "hid" => Hid!HidSound
  /\ focus = "usb" => Usb!UsbSound

\* The one connection is held while the host has it and shown as it is, and
\* what is installed over it is the whole app (bt_manager.c,
\* bt_app_transfer.c).
BluetoothSound ==
  /\ focus = "bt" => Bt!LinkSound
  /\ focus = "transfer" => Transfer!TransferSound

\* Sockets, payloads and callbacks of the CoAP and WebSocket clients: none is
\* left behind, and what answered 0 was answered by the server (coap_client.c,
\* ws_client.c).
ClientsSound ==
  /\ focus = "coap" => Coap!CoapSound
  /\ focus = "observed" => CoapObserved!CoapSound
  /\ focus = "ws" => Ws!ConnectionsSound

\* The web server returns its install sessions, installs whole bodies and
\* counts what it answered; the HTTP server is silent once stopped, counts its
\* connections and finds its routes (web_server.c, http_server.c).
ServersSound ==
  /\ focus = "web" => Web!WebSound
  /\ focus = "http" => Http!ServerSound

\* A transfer of the cloud client is that of the source that opened it and
\* counts what its handler was given, and its state handler was told the state
\* there is (cloud_client.c).
TransferIsOwn ==
  /\ focus = "cloud" => Cloud!TransferIsOwn
  /\ focus = "link" => Link!ReportsSound

-----------------------------------------------------------------------------
(* The USB manager.                                                        *)

UsbMatches ==
  /\ usbState = "CONNECTED" <=> cable = "up"
  /\ usbState = "SUSPENDED" <=> cable = "suspended"

\* The stack runs for an initialized manager, or one about to be, and not behind a
\* call that stops it; the state is the host's unless OFF hides it.
UsbInv ==
  /\ stack => usbInitialized \/ usbCall = "init"
  /\ usbCall \in {"deinit", "disable"} => ~stack
  /\ usbCall = "idle" /\ ~usbOvertaken /\ (stack \/ (usbInitialized /\ usbState # "OFF")) => UsbMatches

LEMMA UsbNext == UsbInv /\ [Usb!Next]_(Usb!vars) => UsbInv'
<1> SUFFICES ASSUME UsbInv, [Usb!Next]_(Usb!vars) PROVE UsbInv'
  OBVIOUS
<1> USE DEF UsbInv, UsbMatches
<1>1. CASE Usb!InitEnable
  BY <1>1 DEF Usb!InitEnable
<1>2. CASE Usb!InitReady
  BY <1>2 DEF Usb!InitReady
<1>3. CASE Usb!StopOff
  BY <1>3 DEF Usb!StopOff
<1>4. CASE Usb!Enable
  BY <1>4 DEF Usb!Enable
<1>5. ASSUME NEW op \in {"deinit", "disable"}, Usb!StopStack(op) PROVE UsbInv'
  BY <1>5 DEF Usb!StopStack
<1>6. ASSUME NEW now \in {"none", "up", "suspended"}, Usb!StatusCallback(now) PROVE UsbInv'
  BY <1>6 DEF Usb!StatusCallback, Usb!CallbackState
<1>7. CASE UNCHANGED Usb!vars
  BY <1>7 DEF Usb!vars
<1> QED
  BY <1>1, <1>2, <1>3, <1>4, <1>5, <1>6, <1>7 DEF Usb!Next

\* The USB manager shows the host's state, but for a callback that a call overtook.
THEOREM UsbShowsTheHost == Usb!Spec => []Usb!UsbSound
<1>1. Usb!Init => UsbInv
  BY DEF Usb!Init, UsbInv
<1>2. UsbInv => Usb!UsbSound
  BY DEF UsbInv, UsbMatches, Usb!UsbSound
<1> QED
  BY <1>1, <1>2, UsbNext, PTL DEF Usb!Spec

-----------------------------------------------------------------------------
(* The Bluetooth manager.                                                  *)

BtOps == {"idle", "start", "started", "stop", "stopped", "deinit", "deinit_stop",
          "deinit_stopped", "off"}
BtTyped ==
  /\ btCall \in [Callers -> BtOps]
  /\ btLink \in {"none", "up", "closing"} /\ adv \in BOOLEAN

\* Who has started or stopped advertising and has yet to write the state.
Writes(t) == btCall[t] \in {"started", "stopped", "deinit_stopped"}

\* Nobody was overtaken: one thread at most is about to write the state, and what
\* it writes is what the host does.
Calm ==
  /\ \A t, u \in Callers : Writes(t) /\ Writes(u) => t = u
  /\ \A t \in Callers :
       /\ btCall[t] = "started" => adv /\ btLink = "none"
       /\ btCall[t] \in {"stopped", "deinit_stopped"} => ~adv /\ btLink = "none"
       /\ btCall[t] \in {"stop", "deinit_stop"} => btLink = "none"
  /\ (\A t \in Callers : ~Writes(t)) => (btState = "ADVERTISING" <=> adv)
  /\ btState = "CONNECTED" <=> btLink # "none"

BtInv ==
  /\ BtTyped /\ Bt!HoldsTheLink /\ Bt!ConnectedIsHeld
  /\ adv => btLink = "none"
  /\ btInitialized /\ ~btOvertaken => Calm

LEMMA BtNext == BtInv /\ [Bt!Next]_(Bt!vars) => BtInv'
<1> SUFFICES ASSUME BtInv, [Bt!Next]_(Bt!vars) PROVE BtInv'
  OBVIOUS
<1> USE DEF BtInv, BtTyped, BtOps, Bt!HoldsTheLink, Bt!ConnectedIsHeld, Calm, Writes, Bt!Goto
<1>1. ASSUME NEW t \in Callers, Bt!StartCheck(t) \/ Bt!StartAdv(t) \/ Bt!Started(t) PROVE BtInv'
  <2>1. CASE Bt!StartCheck(t)
    BY <2>1 DEF Bt!StartCheck
  <2>2. CASE Bt!StartAdv(t)
    <3>1. CASE Bt!AdvStarts /\ adv' = TRUE /\ btCall' = [btCall EXCEPT ![t] = "started"]
      <4>1. /\ btCall' \in [Callers -> BtOps] /\ btCall'[t] = "started"
            /\ \A u \in Callers \ {t} : btCall'[u] = btCall[u]
        BY <3>1 DEF BtOps
      <4>2. btLink = "none" /\ btLink' = btLink /\ adv' = TRUE /\ btState' = btState /\ conn' = conn /\ refs' = refs
        BY <2>2, <3>1 DEF Bt!StartAdv, Bt!AdvStarts
      <4>3. ~btOvertaken' => \A u \in Callers \ {t} : btCall[u] = "idle"
        BY <2>2 DEF Bt!StartAdv, Bt!Others
      <4>4. btInitialized' = btInitialized /\ (~btOvertaken' => ~btOvertaken)
        BY <2>2 DEF Bt!StartAdv
      <4> QED
        BY <4>1, <4>2, <4>3, <4>4
    <3>2. CASE adv' = adv /\ btCall' = [btCall EXCEPT ![t] = "idle"]
      BY <2>2, <3>2 DEF Bt!StartAdv, Bt!Others
    <3> QED
      BY <2>2, <3>1, <3>2 DEF Bt!StartAdv
  <2>3. CASE Bt!Started(t)
    BY <2>3 DEF Bt!Started, Bt!StartedState
  <2> QED
    BY <1>1, <2>1, <2>2, <2>3
<1>2. ASSUME NEW t \in Callers, Bt!StopCheck(t) \/ Bt!StopAdv(t) \/ Bt!Stopped(t) PROVE BtInv'
  <2>1. CASE Bt!StopCheck(t)
    BY <2>1 DEF Bt!StopCheck
  <2>2. CASE Bt!StopAdv(t)
    BY <2>2 DEF Bt!StopAdv, Bt!Others
  <2>3. CASE Bt!Stopped(t)
    BY <2>3 DEF Bt!Stopped
  <2> QED
    BY <1>2, <2>1, <2>2, <2>3
<1>3. ASSUME NEW t \in Callers, Bt!Disconnect(t) \/ Bt!Deinit(t) \/ Bt!DeinitStop(t) \/ Bt!Off(t) \/ Bt!Reinit(t)
      PROVE  BtInv'
  <2>1. CASE Bt!Disconnect(t)
    BY <2>1 DEF Bt!Disconnect, Bt!Closing
  <2>2. CASE Bt!Deinit(t)
    BY <2>2 DEF Bt!Deinit, Bt!Closing
  <2>3. CASE Bt!DeinitStop(t)
    BY <2>3 DEF Bt!DeinitStop
  <2>4. CASE Bt!Off(t)
    BY <2>4 DEF Bt!Off
  <2>5. CASE Bt!Reinit(t)
    BY <2>5 DEF Bt!Reinit
  <2> QED
    BY <1>3, <2>1, <2>2, <2>3, <2>4, <2>5
<1>4. CASE Bt!Connected
  <2>1. refs' = 1 /\ conn' /\ btLink' = "up" /\ btState' = "CONNECTED" /\ adv' = FALSE
    BY <1>4 DEF Bt!Connected
  <2>2. btCall' = btCall /\ (~btOvertaken' => \A t \in Callers : btCall[t] = "idle")
    BY <1>4 DEF Bt!Connected, Bt!Busy
  <2> QED
    BY <2>1, <2>2
<1>5. CASE Bt!ConnectFailed
  BY <1>5 DEF Bt!ConnectFailed, Bt!Busy
<1>6. CASE Bt!Disconnected
  <2>1. refs' = 0 /\ conn' = FALSE /\ btLink' = "none" /\ adv = FALSE
    BY <1>6 DEF Bt!Disconnected, Bt!Unref
  <2>2. /\ adv' \in BOOLEAN /\ btState' \in {"READY", "ADVERTISING"}
        /\ btState' = "ADVERTISING" <=> adv'
    BY <1>6, <2>1 DEF Bt!Disconnected
  <2>3. btCall' = btCall /\ (~btOvertaken' => \A t \in Callers : btCall[t] = "idle")
    BY <1>6 DEF Bt!Disconnected, Bt!Busy
  <2> QED
    BY <2>1, <2>2, <2>3
<1>7. CASE UNCHANGED Bt!vars
  BY <1>7 DEF Bt!vars
<1> QED
  BY <1>1, <1>2, <1>3, <1>4, <1>5, <1>6, <1>7 DEF Bt!Next

\* The Bluetooth manager holds one reference to the host's connection and none
\* without it, and shows what the host does, but for calls that overlapped.
THEOREM OneConnectionIsHeld == Bt!Spec => []Bt!LinkSound
<1>1. Bt!Init => BtInv
  BY DEF Bt!Init, BtInv, BtTyped, BtOps, Bt!HoldsTheLink, Bt!ConnectedIsHeld, Calm, Writes
<1>2. BtInv => Bt!LinkSound
  BY DEF BtInv, BtTyped, Calm, Writes, Bt!Busy, Bt!LinkSound, Bt!StateIsLink
<1> QED
  BY <1>1, <1>2, BtNext, PTL DEF Bt!Spec

-----------------------------------------------------------------------------
(* Apps over Bluetooth.                                                    *)

Transfers == [total : Nat, received : Nat, open : BOOLEAN, crc : Seq(1 .. MaxTotal)]

\* A writer that passed its test has the transfer it saw, or none.
TransferInv ==
  /\ xfer \in Transfers /\ rx \in {Transfer!Quiet, "checked", "failed"}
  /\ rx = "checked" => transferState = "RECEIVING" \/ xfer = Transfer!NoTransfer
  /\ Transfer!TransferSound

LEMMA TransferNext == TransferInv /\ [Transfer!Next]_(Transfer!vars) => TransferInv'
<1> SUFFICES ASSUME TransferInv, [Transfer!Next]_(Transfer!vars) PROVE TransferInv'
  OBVIOUS
<1> USE DEF TransferInv, Transfer!TransferSound, Transfer!InstallsWholeApp, Transfer!ReceivingHasFile, Transfer!OpenFileIsOwned
<1>0. Transfer!NoTransfer \in Transfers
  BY DEF Transfer!NoTransfer, Transfers
<1>1. ASSUME NEW n \in 0 .. MaxTotal, Transfer!Start(n) PROVE TransferInv'
  <2>1. PICK ok \in BOOLEAN :
          xfer' = [xfer EXCEPT !.total = n, !.received = 0, !.crc = <<>>, !.open = @ \/ ok]
    BY <1>1 DEF Transfer!Start
  <2>2. transferState = "IDLE" /\ xfer.open = FALSE /\ ~exists /\ rx' = "none" /\ installed' = installed
    BY <1>1 DEF Transfer!Start, Transfer!Startable, Transfer!Quiet, Transfers
  <2>3. xfer' \in Transfers /\ xfer'.open = ok /\ xfer'.crc = <<>>
    <3>1. n \in Nat /\ (xfer.open \/ ok) \in BOOLEAN /\ (xfer.open \/ ok) = ok
      BY <2>2, BoundsAssumption
    <3>2. <<>> \in Seq(1 .. MaxTotal)
      OBVIOUS
    <3> QED
      BY <2>1, <3>1, <3>2 DEF Transfers
  <2>4. IF xfer'.open THEN transferState' = "RECEIVING" /\ file' = <<>> /\ exists' = TRUE
        ELSE UNCHANGED <<transferState, file, exists>>
    BY <1>1 DEF Transfer!Start
  <2> QED
    BY <2>2, <2>3, <2>4 DEF Transfer!Quiet
<1>2. CASE Transfer!ClientAbort
  BY <1>0, <1>2 DEF Transfer!ClientAbort, Transfer!Cleanup, Transfer!NoTransfer, Transfer!Quiet
<1>3. CASE Transfer!CommitRefused
  BY <1>0, <1>3 DEF Transfer!CommitRefused, Transfer!Cleanup, Transfer!NoTransfer, Transfer!Quiet
<1>4. CASE Transfer!CommitInstall
  <2>1. /\ rx = "none" /\ transferState = "RECEIVING" /\ rx' = rx
        /\ installed' = installed \cup {[chunks |-> file, total |-> xfer.total]}
        /\ file = xfer.crc /\ xfer.crc = Transfer!Whole(xfer.total)
    BY <1>4 DEF Transfer!CommitInstall, Transfer!Valid, Transfer!Quiet
  <2>2. \A i \in installed' : i.chunks = Transfer!Whole(i.total)
    BY <2>1
  <2>3. CASE transferState' = "ERROR" /\ Transfer!Cleanup
    BY <1>0, <2>1, <2>2, <2>3 DEF Transfer!Cleanup, Transfer!NoTransfer, Transfer!Quiet
  <2>4. CASE /\ transferState' = "IDLE" /\ xfer' = [xfer EXCEPT !.open = FALSE]
             /\ file' = <<>> /\ exists' = FALSE
    <3>1. xfer' \in Transfers /\ xfer'.open = FALSE
      BY <2>4 DEF Transfers
    <3> QED
      BY <2>1, <2>2, <2>4, <3>1 DEF Transfer!Quiet
  <2> QED
    BY <1>4, <2>3, <2>4 DEF Transfer!CommitInstall
<1>5. CASE Transfer!RxBegin
  BY <1>5 DEF Transfer!RxBegin, Transfer!RxCheck, Transfer!Quiet
<1>6. CASE Transfer!RxOverflow
  BY <1>6 DEF Transfer!RxOverflow, Transfer!Quiet
<1>7. CASE Transfer!RxFail
  BY <1>7 DEF Transfer!RxFail, Transfer!Quiet, Transfer!NoTransfer
<1>8. CASE Transfer!RxError
  BY <1>8 DEF Transfer!RxError, Transfer!Quiet
<1>9. ASSUME NEW chunk \in 1 .. MaxTotal, Transfer!RxWrite(chunk) PROVE TransferInv'
  <2>1. transferState = "RECEIVING"
    <3>1. rx = "checked" /\ xfer.received + 1 <= xfer.total
      BY <1>9 DEF Transfer!RxWrite
    <3>2. xfer # Transfer!NoTransfer
      BY <3>1 DEF Transfer!NoTransfer
    <3> QED
      BY <3>1, <3>2
  <2>2. /\ xfer' = [xfer EXCEPT !.received = @ + 1, !.crc = Append(@, chunk)]
        /\ file' = Append(file, chunk) /\ file = xfer.crc
        /\ rx' = "none" /\ UNCHANGED <<transferState, exists, installed>>
    BY <1>9, <2>1 DEF Transfer!RxWrite, Transfer!Quiet
  <2>3. xfer' \in Transfers /\ xfer'.crc = Append(xfer.crc, chunk) /\ xfer'.open = xfer.open
    <3>1. Append(xfer.crc, chunk) \in Seq(1 .. MaxTotal) /\ xfer.received + 1 \in Nat
      BY DEF Transfers
    <3> QED
      BY <2>2, <3>1 DEF Transfers
  <2>4. xfer.open /\ exists /\ exists' = exists /\ transferState' = transferState
    BY <2>1, <2>2, <1>9 DEF Transfer!RxWrite, Transfer!Quiet
  <2>5. file' = xfer'.crc
    BY <2>2, <2>3
  <2>6. installed' = installed /\ rx' = "none"
    BY <2>2
  <2> QED
    BY <2>1, <2>3, <2>4, <2>5, <2>6 DEF Transfer!Quiet
<1>10. CASE Transfer!Abort
  BY <1>0, <1>10 DEF Transfer!Abort, Transfer!Cleanup, Transfer!NoTransfer, Transfer!Quiet
<1>11. CASE UNCHANGED Transfer!vars
  BY <1>11 DEF Transfer!vars
<1> QED
  BY <1>1, <1>2, <1>3, <1>4, <1>5, <1>6, <1>7, <1>8, <1>9, <1>10, <1>11 DEF Transfer!Next

\* What is installed over Bluetooth is the whole app, and its file is open for no
\* longer than its transfer, whatever writes fail and aborts come between.
THEOREM WholeAppsAreInstalled == Transfer!Spec => []Transfer!TransferSound
<1>1. Transfer!Init => TransferInv
  BY DEF Transfer!Init, TransferInv, Transfer!TransferSound, Transfer!InstallsWholeApp, Transfer!ReceivingHasFile,
         Transfer!OpenFileIsOwned, Transfer!NoTransfer, Transfers, Transfer!Quiet
<1>2. TransferInv => Transfer!TransferSound
  BY DEF TransferInv
<1> QED
  BY <1>1, <1>2, TransferNext, PTL DEF Transfer!Spec

-----------------------------------------------------------------------------
(* The cloud client's transfers.                                           *)

Messages == [type : {"none", "metadata", "chunk", "complete"}, kind : MessageKinds \cup {"none"},
             at : {"idle", "transfer", "count", "dispatch"}]
CloudTyped ==
  /\ cloudCall \in [Sources -> Messages]
  /\ \A s \in Sources : cloudCall[s].at # "idle" => cloudCall[s].kind \in MessageKinds
  /\ cloudActive \in [MessageKinds -> BOOLEAN] /\ mixed \in [MessageKinds -> BOOLEAN]
  /\ owner \in [MessageKinds -> Sources \cup {"none"}] /\ opener \in [MessageKinds -> Sources \cup {"none"}]
  /\ received \in [MessageKinds -> Nat] /\ acks \in [MessageKinds -> Nat] /\ handed \in [MessageKinds -> Nat]

Sends(s, k) == cloudCall[s].kind = k /\ cloudCall[s].at # "idle"
Counts(s, k) == cloudCall[s].kind = k /\ cloudCall[s].at = "count"

\* A transfer that nobody mixed: one source sends, and it is the owner; a chunk it
\* was given and has not counted is the only difference of the two counts.
Unmixed(k) ==
  /\ \A s, o \in Sources : Sends(s, k) /\ Sends(o, k) => s = o
  /\ cloudActive[k] => owner[k] = opener[k] /\ \A s \in Sources : Sends(s, k) => s = owner[k]
  /\ acks[k] <= received[k]
  /\ \A s \in Sources : Counts(s, k) => s = owner[k] /\ handed[k] = received[k] + 1
  /\ (\A s \in Sources : ~Counts(s, k)) => handed[k] = received[k]
CloudInv == CloudTyped /\ \A k \in MessageKinds : ~mixed[k] => Unmixed(k)

\* A step that leaves a kind's transfer alone, and nobody newly sends or counts.
LEMMA UnmixedKept ==
  ASSUME NEW k \in MessageKinds, Unmixed(k),
         cloudActive'[k] = cloudActive[k], owner'[k] = owner[k], opener'[k] = opener[k],
         acks'[k] = acks[k], received'[k] = received[k], handed'[k] = handed[k],
         \A s \in Sources : (Sends(s, k)' => Sends(s, k)) /\ (Counts(s, k)' <=> Counts(s, k))
  PROVE  Unmixed(k)'
BY DEF Unmixed

\* A source goes on with its message.
LEMMA GoesOn ==
  ASSUME CloudTyped, NEW s \in Sources, cloudCall[s].kind \in MessageKinds,
         NEW at \in {"idle", "transfer", "count", "dispatch"}, Cloud!Goes(s, at)
  PROVE  /\ cloudCall' \in [Sources -> Messages]
         /\ cloudCall'[s].kind = cloudCall[s].kind /\ cloudCall'[s].at = at
         /\ \A o \in Sources \ {s} : cloudCall'[o] = cloudCall[o]
         /\ \A o \in Sources : cloudCall'[o].at # "idle" => cloudCall'[o].kind \in MessageKinds
BY DEF CloudTyped, Cloud!Goes, Messages

LEMMA ReceiveKeeps ==
  ASSUME CloudInv, NEW s \in Sources, NEW k \in MessageKinds, NEW type \in {"metadata", "chunk", "complete"},
         Cloud!Receive(s, k, type)
  PROVE  CloudInv'
<1>1. CloudTyped'
  BY DEF CloudInv, CloudTyped, Cloud!Receive, Messages
<1>2. /\ cloudCall[s].at = "idle" /\ cloudCall'[s] = [type |-> type, kind |-> k, at |-> "transfer"]
      /\ \A o \in Sources \ {s} : cloudCall'[o] = cloudCall[o]
      /\ UNCHANGED <<cloudActive, owner, received, acks, opener, handed>>
  BY DEF CloudInv, CloudTyped, Cloud!Receive
<1>3. ASSUME NEW j \in MessageKinds, ~mixed'[j] PROVE Unmixed(j)'
  <2>1. ~mixed[j]
    BY <1>3 DEF Cloud!Receive, CloudInv, CloudTyped
  <2>2. Unmixed(j)
    BY <2>1 DEF CloudInv
  <2>3. CASE j # k
    BY <1>2, <2>2, <2>3 DEF Unmixed, Sends, Counts
  <2>4. CASE j = k
    <3> DEFINE others == \E o \in Sources \ {s} : cloudCall[o].kind = k
               foreign == cloudActive[k] /\ owner[k] # s
               b == mixed[k] \/ others \/ foreign
    <3>0. mixed' = [mixed EXCEPT ![k] = b]
      BY DEF Cloud!Receive
    <3> HIDE DEF b
    <3>1. mixed'[k] = b
      BY <3>0 DEF CloudInv, CloudTyped
    <3>2. (\A o \in Sources \ {s} : cloudCall[o].kind # k) /\ (cloudActive[k] => owner[k] = s)
      BY <1>3, <2>4, <3>1 DEF b
    <3> QED
      BY <1>2, <2>2, <2>4, <3>2 DEF Unmixed, Sends, Counts
  <2> QED
    BY <2>3, <2>4
<1> QED
  BY <1>1, <1>3 DEF CloudInv

LEMMA MetadataKeeps ==
  ASSUME CloudInv, NEW s \in Sources, Cloud!Metadata(s)
  PROVE  CloudInv'
<1> DEFINE k == cloudCall[s].kind
<1>0. k \in MessageKinds /\ cloudCall[s].at = "transfer"
  BY DEF CloudInv, CloudTyped, Cloud!Metadata, Cloud!Handling
<1>2. /\ cloudCall' \in [Sources -> Messages]
      /\ cloudCall'[s].kind = k /\ cloudCall'[s].at = "dispatch"
      /\ \A o \in Sources \ {s} : cloudCall'[o] = cloudCall[o]
      /\ \A o \in Sources : cloudCall'[o].at # "idle" => cloudCall'[o].kind \in MessageKinds
  BY <1>0, GoesOn DEF CloudInv, Cloud!Metadata
<1>1. CloudTyped'
  <2>1. /\ cloudActive' = [cloudActive EXCEPT ![k] = TRUE] /\ owner' = [owner EXCEPT ![k] = s]
        /\ received' = [received EXCEPT ![k] = 0]
        /\ opener' = [opener EXCEPT ![k] = s] /\ handed' = [handed EXCEPT ![k] = 0]
        /\ acks' = [acks EXCEPT ![k] = 0]
        /\ mixed' = [mixed EXCEPT ![k] = \E o \in Sources \ {s} : cloudCall[o].kind = k]
    BY DEF Cloud!Metadata, Cloud!CountedFrom
  <2> HIDE DEF k
  <2> QED
    BY <1>0, <1>2, <2>1 DEF CloudInv, CloudTyped
<1>3. ASSUME NEW j \in MessageKinds, ~mixed'[j] PROVE Unmixed(j)'
  <2>3. CASE j # k
    <3>1. ~mixed[j] /\ /\ cloudActive'[j] = cloudActive[j] /\ owner'[j] = owner[j] /\ opener'[j] = opener[j]
          /\ acks'[j] = acks[j] /\ received'[j] = received[j] /\ handed'[j] = handed[j]
      BY <1>0, <1>3, <2>3 DEF Cloud!Metadata, CloudInv, CloudTyped
    <3>2. Unmixed(j)
      BY <3>1 DEF CloudInv
    <3>3. \A o \in Sources : (Sends(o, j)' => Sends(o, j)) /\ (Counts(o, j)' <=> Counts(o, j))
      BY <1>0, <1>2, <2>3 DEF Sends, Counts
    <3> QED
      BY <3>1, <3>2, <3>3, UnmixedKept
  <2>4. CASE j = k
    <3>1. \A o \in Sources \ {s} : cloudCall[o].kind # k
      BY <1>0, <1>3, <2>4 DEF Cloud!Metadata, CloudInv, CloudTyped
    <3>2. /\ owner'[j] = s /\ opener'[j] = s /\ received'[j] = 0 /\ handed'[j] = 0 /\ acks'[j] = 0
      BY <1>0, <2>4 DEF Cloud!Metadata, CloudInv, CloudTyped, Cloud!CountedFrom
    <3>3. \A o \in Sources : (Sends(o, j)' => o = s) /\ ~Counts(o, j)'
      BY <1>2, <2>4, <3>1 DEF Sends, Counts
    <3> QED
      BY <3>2, <3>3 DEF Unmixed
  <2> QED
    BY <2>3, <2>4
<1> QED
  BY <1>1, <1>3 DEF CloudInv

LEMMA ChunkKeeps ==
  ASSUME CloudInv, NEW s \in Sources, Cloud!Chunk(s)
  PROVE  CloudInv'
<1> DEFINE k == cloudCall[s].kind
<1>0. k \in MessageKinds /\ cloudCall[s].at = "transfer"
  BY DEF CloudInv, CloudTyped, Cloud!Chunk, Cloud!Handling
<1>a. Cloud!Goes(s, IF cloudActive[k] THEN "count" ELSE "dispatch")
  BY DEF Cloud!Chunk
<1>2. /\ cloudCall' \in [Sources -> Messages]
      /\ cloudCall'[s].kind = k /\ cloudCall'[s].at = IF cloudActive[k] THEN "count" ELSE "dispatch"
      /\ \A o \in Sources \ {s} : cloudCall'[o] = cloudCall[o]
      /\ \A o \in Sources : cloudCall'[o].at # "idle" => cloudCall'[o].kind \in MessageKinds
  BY <1>0, <1>a, GoesOn DEF CloudInv
<1>3. /\ UNCHANGED <<cloudActive, owner, received, acks, opener, mixed>>
      /\ \A j \in MessageKinds : handed'[j] = IF j = k /\ cloudActive[k] THEN handed[k] + 1 ELSE handed[j]
  BY <1>0 DEF Cloud!Chunk, CloudInv, CloudTyped
<1>b. handed' \in [MessageKinds -> Nat]
  <2>1. CASE cloudActive[k]
    BY <1>0, <2>1 DEF Cloud!Chunk, CloudInv, CloudTyped
  <2>2. CASE ~cloudActive[k]
    BY <2>2 DEF Cloud!Chunk, CloudInv, CloudTyped
  <2> QED
    BY <2>1, <2>2
<1>1. CloudTyped'
  BY <1>2, <1>3, <1>b DEF CloudInv, CloudTyped
<1>4. ASSUME NEW j \in MessageKinds, ~mixed'[j] PROVE Unmixed(j)'
  <2>1. Unmixed(j)
    BY <1>3, <1>4 DEF CloudInv
  <2>2. CASE j # k \/ ~cloudActive[k]
    <3>1. \A o \in Sources : (Sends(o, j)' => Sends(o, j)) /\ (Counts(o, j)' <=> Counts(o, j))
      BY <1>0, <1>2, <2>2 DEF Sends, Counts
    <3>2. handed'[j] = handed[j]
      BY <1>3, <2>2
    <3> QED
      BY <1>3, <2>1, <3>1, <3>2, UnmixedKept
  <2>3. CASE j = k /\ cloudActive[k]
    <3>1. Sends(s, j)
      BY <1>0, <2>3 DEF Sends
    <3>2. s = owner[j] /\ \A o \in Sources : Sends(o, j) => o = s
      BY <2>1, <2>3, <3>1 DEF Unmixed
    <3>3. \A o \in Sources : (Sends(o, j)' => o = s) /\ (Counts(o, j)' => o = s) /\ ~Counts(o, j)
      BY <1>0, <1>2, <2>3, <3>2 DEF Sends, Counts
    <3>4. handed[j] = received[j] /\ handed'[j] = handed[j] + 1
      BY <1>3, <2>1, <2>3, <3>3 DEF Unmixed
    <3>5. Counts(s, j)'
      BY <1>2, <2>3 DEF Counts
    <3>6. acks[j] <= received[j] /\ (cloudActive[j] => owner[j] = opener[j])
      BY <2>1 DEF Unmixed
    <3> HIDE DEF k
    <3> QED
      BY <1>3, <3>2, <3>3, <3>4, <3>5, <3>6 DEF Unmixed
  <2> QED
    BY <2>2, <2>3
<1> QED
  BY <1>1, <1>4 DEF CloudInv

LEMMA CountedKeeps ==
  ASSUME CloudInv, NEW s \in Sources, Cloud!ChunkCounted(s)
  PROVE  CloudInv'
<1> DEFINE k == cloudCall[s].kind
<1>0. k \in MessageKinds /\ cloudCall[s].at = "count"
  BY DEF CloudInv, CloudTyped, Cloud!ChunkCounted
<1>2. /\ cloudCall' \in [Sources -> Messages]
      /\ cloudCall'[s].kind = k /\ cloudCall'[s].at = "dispatch"
      /\ \A o \in Sources \ {s} : cloudCall'[o] = cloudCall[o]
      /\ \A o \in Sources : cloudCall'[o].at # "idle" => cloudCall'[o].kind \in MessageKinds
  BY <1>0, GoesOn DEF CloudInv, Cloud!ChunkCounted
<1>1. CloudTyped'
  <2>1. received' \in [MessageKinds -> Nat]
    BY <1>0 DEF CloudInv, CloudTyped, Cloud!ChunkCounted
  <2>2. acks' \in [MessageKinds -> Nat]
    <3>1. CASE s \in cloudLink
      BY <1>0, <3>1 DEF CloudInv, CloudTyped, Cloud!ChunkCounted
    <3>2. CASE s \notin cloudLink
      BY <3>2 DEF CloudInv, CloudTyped, Cloud!ChunkCounted
    <3> QED
      BY <3>1, <3>2
  <2> QED
    BY <1>2, <2>1, <2>2 DEF CloudInv, CloudTyped, Cloud!ChunkCounted
<1>3. /\ UNCHANGED <<cloudActive, owner, opener, handed, mixed>>
      /\ received'[k] = received[k] + 1 /\ acks'[k] \in {acks[k], acks[k] + 1}
      /\ \A j \in MessageKinds \ {k} : received'[j] = received[j] /\ acks'[j] = acks[j]
  <2>1. CASE s \in cloudLink
    BY <1>0, <2>1 DEF CloudInv, CloudTyped, Cloud!ChunkCounted
  <2>2. CASE s \notin cloudLink
    BY <1>0, <2>2 DEF CloudInv, CloudTyped, Cloud!ChunkCounted
  <2> QED
    BY <2>1, <2>2
<1>4. ASSUME NEW j \in MessageKinds, ~mixed'[j] PROVE Unmixed(j)'
  <2>1. Unmixed(j)
    BY <1>3, <1>4 DEF CloudInv
  <2>2. CASE j # k
    <3>1. \A o \in Sources : (Sends(o, j)' => Sends(o, j)) /\ (Counts(o, j)' <=> Counts(o, j))
      BY <1>0, <1>2, <2>2 DEF Sends, Counts
    <3> QED
      BY <1>3, <2>1, <2>2, <3>1, UnmixedKept
  <2>3. CASE j = k
    <3>1. Sends(s, j) /\ Counts(s, j)
      BY <1>0, <2>3 DEF Sends, Counts
    <3>2. s = owner[j] /\ handed[j] = received[j] + 1 /\ \A o \in Sources : Sends(o, j) => o = s
      BY <2>1, <2>3, <3>1 DEF Unmixed
    <3>3. \A o \in Sources : (Sends(o, j)' => o = s) /\ ~Counts(o, j)'
      BY <1>0, <1>2, <2>3, <3>2 DEF Sends, Counts
    <3>4. acks[j] \in Nat /\ received[j] \in Nat /\ acks[j] <= received[j]
      BY <1>0, <2>1 DEF CloudInv, CloudTyped, Unmixed
    <3>5. received'[j] = received[j] + 1 /\ acks'[j] \in {acks[j], acks[j] + 1}
      BY <1>3, <2>3
    <3>6. cloudActive[j] => owner[j] = opener[j]
      BY <2>1 DEF Unmixed
    <3> HIDE DEF k
    <3>7. acks'[j] <= received'[j] /\ handed'[j] = received'[j]
      BY <1>3, <3>2, <3>4, <3>5
    <3> QED
      BY <1>3, <3>2, <3>3, <3>6, <3>7 DEF Unmixed
  <2> QED
    BY <2>2, <2>3
<1> QED
  BY <1>1, <1>4 DEF CloudInv

LEMMA EndKeeps ==
  ASSUME CloudInv, NEW s \in Sources, Cloud!Complete(s) \/ Cloud!Return(s)
  PROVE  CloudInv'
<1> DEFINE k == cloudCall[s].kind
<1>0. k \in MessageKinds /\ cloudCall[s].at \in {"transfer", "dispatch"}
  BY DEF CloudInv, CloudTyped, Cloud!Complete, Cloud!Return, Cloud!Handling
<1>1. /\ \A o \in Sources \ {s} : cloudCall'[o] = cloudCall[o]
      /\ cloudCall'[s] \in Messages /\ cloudCall'[s].at # "count"
      /\ cloudCall'[s].at # "idle" => cloudCall'[s].kind = k
      /\ cloudCall' \in [Sources -> Messages]
  BY <1>0 DEF CloudInv, CloudTyped, Cloud!Complete, Cloud!Return, Cloud!Goes, Messages, Cloud!Idle
<1>2. /\ UNCHANGED <<owner, opener, handed, received, acks, mixed>>
      /\ cloudActive' \in [MessageKinds -> BOOLEAN] /\ \A j \in MessageKinds : cloudActive'[j] => cloudActive[j]
  BY <1>0 DEF CloudInv, CloudTyped, Cloud!Complete, Cloud!ActiveAfter, Cloud!Return, Cloud!transfers
<1>3. CloudTyped'
  BY <1>0, <1>1, <1>2 DEF CloudInv, CloudTyped
<1>4. ASSUME NEW j \in MessageKinds, ~mixed'[j] PROVE Unmixed(j)'
  <2>1. Unmixed(j)
    BY <1>2, <1>4 DEF CloudInv
  <2>2. \A o \in Sources : (Sends(o, j)' => Sends(o, j)) /\ (Counts(o, j)' <=> Counts(o, j))
    BY <1>0, <1>1 DEF Sends, Counts
  <2> QED
    BY <1>2, <2>1, <2>2 DEF Unmixed
<1> QED
  BY <1>3, <1>4 DEF CloudInv

LEMMA ClientInitKeeps == ASSUME CloudInv, Cloud!ClientInit PROVE CloudInv'
<1>1. CloudTyped'
  BY DEF CloudInv, CloudTyped, Cloud!ClientInit
<1>2. ASSUME NEW k \in MessageKinds, ~mixed'[k] PROVE Unmixed(k)'
  <2>1. \A s \in Sources : cloudCall'[s].kind # k
    BY <1>2 DEF Cloud!ClientInit
  <2>2. cloudActive'[k] = FALSE /\ received'[k] = 0 /\ handed'[k] = 0 /\ acks'[k] = 0
    BY DEF Cloud!ClientInit
  <2> QED
    BY <2>1, <2>2 DEF Unmixed, Sends, Counts
<1> QED
  BY <1>1, <1>2 DEF CloudInv

LEMMA CloudNext == CloudInv /\ [Cloud!Next]_(Cloud!vars) => CloudInv'
<1> SUFFICES ASSUME CloudInv, [Cloud!Next]_(Cloud!vars) PROVE CloudInv'
  OBVIOUS
<1>1. CASE UNCHANGED <<cloudCall, Cloud!transfers>>
  BY <1>1 DEF CloudInv, CloudTyped, Unmixed, Sends, Counts, Cloud!transfers
<1>2. ASSUME NEW up \in BOOLEAN, Cloud!BtConnected(up) PROVE CloudInv'
  BY <1>1, <1>2 DEF Cloud!BtConnected
<1>3. CASE Cloud!ClientDeinit
  BY <1>1, <1>3 DEF Cloud!ClientDeinit
<1>4. CASE UNCHANGED Cloud!vars
  BY <1>1, <1>4 DEF Cloud!vars
<1> QED
  BY <1>2, <1>3, <1>4, ReceiveKeeps, MetadataKeeps, ChunkKeeps, CountedKeeps, EndKeeps,
     ClientInitKeeps DEF Cloud!Next

\* While one source at a time sends messages of a kind, the client's transfer is
\* that source's, and counts and acknowledges what its handler was given.
THEOREM TransfersAreTheirSources == Cloud!Spec => []Cloud!TransferIsOwn
<1>1. Cloud!Init => CloudInv
  BY DEF Cloud!Init, CloudInv, CloudTyped, Unmixed, Sends, Counts, Messages, Cloud!Idle
<1>2. ASSUME CloudInv PROVE Cloud!TransferIsOwn
  <2> SUFFICES ASSUME NEW k \in MessageKinds, ~mixed[k]
               PROVE  /\ cloudActive[k] => owner[k] = opener[k]
                      /\ (\A s \in Sources : cloudCall[s].kind = k => cloudCall[s].at # "count") =>
                           received[k] = handed[k] /\ acks[k] <= received[k]
                      /\ \A s \in Sources : cloudCall[s].kind = k /\ cloudCall[s].at = "count" => s = owner[k]
    BY DEF Cloud!TransferIsOwn
  <2>1. Unmixed(k)
    BY <1>2 DEF CloudInv
  <2> QED
    BY <2>1 DEF Unmixed, Counts
<1> QED
  BY <1>1, <1>2, CloudNext, PTL DEF Cloud!Spec

-----------------------------------------------------------------------------
(* The cloud client's connections, handlers and counts.                    *)

Points == {"idle", "connecting", "connect", "connected", "disconnected", "register", "send",
           "offer", "count", "write"}
Calling == [at : Points, to : Seq({"cloud", "bt", "web"}), all : BOOLEAN, seen : Nat]
LinkTyped ==
  /\ linkCall \in [Callers -> Calling]
  /\ linkState \in [{"cloud", "bt", "web"} -> {"DISCONNECTED", "CONNECTING", "CONNECTED"}]
  /\ tx \in Nat /\ sent \in Nat /\ count \in Nat /\ handlers \in Nat

\* One thread at a time connects or disconnects, and what it will report is there.
ToReport(t) ==
  /\ linkCall[t].at = "connecting" => linkState["cloud"] = "CONNECTING"
  /\ linkCall[t].at = "connect" => linkState["cloud"] = linkTold
  /\ linkCall[t].at = "connected" => linkState["cloud"] = "CONNECTED"
  /\ linkCall[t].at = "disconnected" => linkState["cloud"] = "DISCONNECTED"
OneLinks ==
  ~crossed => /\ \A t, u \in Callers : Link!Linking(t) /\ Link!Linking(u) => t = u
              /\ \A t \in Callers : ToReport(t)
              /\ (\A t \in Callers : ~Link!Linking(t)) => linkTold = linkState["cloud"]

\* Every message that went out is counted, or its sender is about to count it;
\* one thread at a time writes the count.
Counting == {t \in Callers : linkCall[t].at \in {"count", "write"}}
AllCounted ==
  ~clash => /\ \A t, u \in Callers : linkCall[t].at = "write" /\ linkCall[u].at = "write" => t = u
            /\ \A t \in Callers : linkCall[t].at = "write" => linkCall[t].seen = tx
            /\ IsFiniteSet(Counting) /\ sent = tx + Cardinality(Counting)

\* The thread that stores a handler has the mutex, and has yet to count it.
AllStored ==
  ~wiped => /\ count <= handlers
            /\ \A t \in Callers : linkCall[t].at = "register" => holder = t /\ handlers = count + 1

LinkInv == LinkTyped /\ OneLinks /\ AllCounted /\ AllStored

\* Steps that leave what a part of the invariant is about alone.
LEMMA LinksRest ==
  ASSUME OneLinks, UNCHANGED <<linkState, linkTold, crossed>>,
         \A t \in Callers : linkCall'[t].at = linkCall[t].at \/ (~Link!Linking(t) /\ ~Link!Linking(t)')
  PROVE  OneLinks'
BY DEF OneLinks, ToReport, Link!Linking
LEMMA CountsRest ==
  ASSUME AllCounted, UNCHANGED <<tx, sent, clash>>,
         \A t \in Callers : \/ linkCall'[t].at = linkCall[t].at /\ linkCall'[t].seen = linkCall[t].seen
                            \/ t \notin Counting /\ t \notin Counting'
  PROVE  AllCounted'
<1>1. Counting' = Counting /\ \A t \in Callers : t \in Counting => linkCall'[t].at = linkCall[t].at /\ linkCall'[t].seen = linkCall[t].seen
  BY DEF Counting
<1>2. \A t \in Callers : linkCall'[t].at = "write" => linkCall[t].at = "write" /\ linkCall'[t].seen = linkCall[t].seen
  BY <1>1 DEF Counting
<1> HIDE DEF Counting
<1> QED
  BY <1>1, <1>2 DEF AllCounted
LEMMA StoresRest ==
  ASSUME AllStored, UNCHANGED <<handlers, count, holder, wiped>>,
         \A t \in Callers : linkCall'[t].at = "register" => linkCall[t].at = "register"
  PROVE  AllStored'
BY DEF AllStored

\* A call goes on, or ends.
LEMMA CallSteps ==
  ASSUME LinkTyped, NEW t \in Callers
  PROVE  /\ \A at \in Points : Link!Goes(t, at) =>
              /\ linkCall' \in [Callers -> Calling]
              /\ linkCall'[t].at = at /\ linkCall'[t].seen = linkCall[t].seen
              /\ \A u \in Callers \ {t} : linkCall'[u] = linkCall[u]
         /\ Link!Ends(t) =>
              /\ linkCall' \in [Callers -> Calling]
              /\ linkCall'[t].at = "idle"
              /\ \A u \in Callers \ {t} : linkCall'[u] = linkCall[u]
         /\ linkCall' = [linkCall EXCEPT ![t] = Link!Next1(linkCall[t])] =>
              /\ linkCall' \in [Callers -> Calling]
              /\ linkCall'[t].at \in {"idle", "offer", "send"}
              /\ \A u \in Callers \ {t} : linkCall'[u] = linkCall[u]
<1>0. linkCall[t] \in Calling
  BY DEF LinkTyped
<1> USE DEF Calling
<1>1. Link!Idle \in Calling /\ Link!Idle.at = "idle"
  BY DEF Link!Idle, Points
<1>2. /\ Link!Next1(linkCall[t]) \in Calling
      /\ Link!Next1(linkCall[t]).at \in {"idle", "offer", "send"}
  <2>1. CASE Len(linkCall[t].to) <= 1
    BY <1>1, <2>1 DEF Link!Next1
  <2>2. CASE ~(Len(linkCall[t].to) <= 1)
    <3>1. Tail(linkCall[t].to) \in Seq({"cloud", "bt", "web"})
      <4>1. linkCall[t].to \in Seq({"cloud", "bt", "web"})
        BY <1>0
      <4>2. linkCall[t].to # <<>>
        BY <4>1, <2>2
      <4> QED
        BY <4>1, <4>2
    <3> QED
      BY <1>0, <2>2, <3>1 DEF Link!Next1, Points
  <2> QED
    BY <2>1, <2>2
<1> HIDE DEF Link!Next1, Link!Idle
<1>3. \A at \in Points : Link!Goes(t, at) =>
              /\ linkCall' \in [Callers -> Calling]
              /\ linkCall'[t].at = at /\ linkCall'[t].seen = linkCall[t].seen
              /\ \A u \in Callers \ {t} : linkCall'[u] = linkCall[u]
  <2> SUFFICES ASSUME NEW at \in Points, Link!Goes(t, at)
               PROVE  /\ linkCall' \in [Callers -> Calling]
                      /\ linkCall'[t].at = at /\ linkCall'[t].seen = linkCall[t].seen
                      /\ \A u \in Callers \ {t} : linkCall'[u] = linkCall[u]
    OBVIOUS
  <2> QED
    BY <1>0 DEF LinkTyped, Link!Goes
<1>4. Link!Ends(t) =>
                   /\ linkCall' \in [Callers -> Calling]
                   /\ linkCall'[t].at = "idle"
                   /\ \A u \in Callers \ {t} : linkCall'[u] = linkCall[u]
  BY <1>1 DEF LinkTyped, Link!Ends
<1>5. linkCall' = [linkCall EXCEPT ![t] = Link!Next1(linkCall[t])] =>
                  /\ linkCall' \in [Callers -> Calling]
                  /\ linkCall'[t].at \in {"idle", "offer", "send"}
                  /\ \A u \in Callers \ {t} : linkCall'[u] = linkCall[u]
  BY <1>2 DEF LinkTyped
<1> QED
  BY <1>3, <1>4, <1>5

LEMMA OrderSet == Link!ToSet(Link!Order) = {"cloud", "bt", "web"}
BY DEF Link!ToSet, Link!Order

LEMMA LinkClientKeeps == ASSUME LinkInv, Link!ClientInit \/ Link!ClientDeinit PROVE LinkInv'
<1>1. CASE Link!ClientInit
  <2>1. LinkTyped'
    BY <1>1, OrderSet DEF Link!ClientInit, LinkInv, LinkTyped
  <2>2. OneLinks'
    <3>1. linkState'["cloud"] = linkTold'
      BY <1>1, OrderSet DEF Link!ClientInit
    <3>2. ~crossed' => \A t \in Callers : ~Link!Linking(t)'
      BY <1>1 DEF Link!ClientInit, Link!Linking
    <3> QED
      BY <3>1, <3>2 DEF OneLinks, ToReport, Link!Linking
  <2>3. AllCounted'
    <3>1. ~clash' => \A t \in Callers : linkCall'[t].at \notin {"count", "write"}
      BY <1>1 DEF Link!ClientInit
    <3>2. tx' = 0 /\ sent' = 0
      BY <1>1 DEF Link!ClientInit
    <3>3. ~clash' => Counting' = {}
      BY <3>1 DEF Counting
    <3>4. IsFiniteSet({}) /\ Cardinality({}) = 0
      BY FS_EmptySet
    <3> HIDE DEF Counting
    <3> QED
      BY <3>1, <3>2, <3>3, <3>4 DEF AllCounted
  <2>4. AllStored'
    BY <1>1 DEF Link!ClientInit, AllStored, Link!At
  <2> QED
    BY <2>1, <2>2, <2>3, <2>4 DEF LinkInv
<1>2. CASE Link!ClientDeinit
  <2>1. LinkTyped'
    BY <1>2 DEF Link!ClientDeinit, LinkInv, LinkTyped, Link!tables, Link!counters
  <2>2. OneLinks'
    <3>1. linkState'["cloud"] = linkTold' /\ linkCall' = linkCall
      BY <1>2 DEF Link!ClientDeinit, LinkInv, LinkTyped
    <3>2. ~crossed' => \A t \in Callers : ~Link!Linking(t)
      BY <1>2 DEF Link!ClientDeinit
    <3> QED
      BY <3>1, <3>2 DEF OneLinks, ToReport, Link!Linking
  <2>3. AllCounted'
    BY <1>2, CountsRest DEF Link!ClientDeinit, LinkInv, Link!counters
  <2>4. AllStored'
    BY <1>2, StoresRest DEF Link!ClientDeinit, LinkInv, Link!tables
  <2> QED
    BY <2>1, <2>2, <2>3, <2>4 DEF LinkInv
<1> QED
  BY <1>1, <1>2

\* A thread begins to connect or disconnect: none other does, or they cross.
LEMMA BeginKeeps ==
  ASSUME LinkInv, NEW t \in Callers, Link!Connect(t) \/ Link!Disconnect(t)
  PROVE  LinkInv'
<1>1. PICK at \in {"connecting", "disconnected"} :
        /\ linkCall[t].at = "idle" /\ Link!Goes(t, at)
        /\ linkState' = [linkState EXCEPT !["cloud"] = IF at = "connecting" THEN "CONNECTING" ELSE "DISCONNECTED"]
        /\ crossed' = (crossed \/ \E u \in Callers : Link!Linking(u))
        /\ UNCHANGED <<linkTold, Link!tables, Link!counters>>
  BY DEF Link!Connect, Link!Disconnect, Link!Calls, Link!Sets, Link!Begins, Link!At
<1>2. /\ linkCall' \in [Callers -> Calling] /\ linkCall'[t].at = at
      /\ \A u \in Callers \ {t} : linkCall'[u] = linkCall[u]
  BY <1>1, CallSteps DEF LinkInv, Points
<1>3. LinkTyped'
  BY <1>1, <1>2 DEF LinkInv, LinkTyped, Link!tables, Link!counters
<1>4. OneLinks'
  <2>1. ~crossed' => \A u \in Callers : ~Link!Linking(u)
    BY <1>1
  <2>2. linkState'["cloud"] = IF at = "connecting" THEN "CONNECTING" ELSE "DISCONNECTED"
    BY <1>1 DEF LinkInv, LinkTyped
  <2> QED
    BY <1>2, <2>1, <2>2 DEF OneLinks, ToReport, Link!Linking
<1>5. AllCounted'
  <2>1. UNCHANGED <<tx, sent, clash>>
    BY <1>1 DEF Link!counters
  <2>2. t \notin Counting /\ t \notin Counting'
    BY <1>1, <1>2 DEF Counting
  <2> QED
    BY <1>2, <2>1, <2>2, CountsRest DEF LinkInv
<1>6. AllStored'
  BY <1>1, <1>2, StoresRest DEF LinkInv, Link!tables
<1> QED
  BY <1>3, <1>4, <1>5, <1>6 DEF LinkInv

LEMMA ConnectedKeeps ==
  ASSUME LinkInv, NEW t \in Callers, Link!Connected(t) \/ Link!Report(t)
  PROVE  LinkInv'
<1>1. /\ linkCall[t].at \in {"connecting", "connect", "connected", "disconnected"}
      /\ UNCHANGED <<crossed, Link!tables, Link!counters>>
  BY DEF Link!Connected, Link!Report, Link!At
<1>2. /\ linkCall' \in [Callers -> Calling]
      /\ linkCall'[t].at = CASE linkCall[t].at = "connecting" -> "connect"
                         [] linkCall[t].at = "connect" -> "connected" [] OTHER -> "idle"
      /\ \A u \in Callers \ {t} : linkCall'[u] = linkCall[u]
  <2>1. CASE Link!Connected(t)
    <3>1. Link!Goes(t, "connected") /\ linkCall[t].at = "connect"
      BY <2>1 DEF Link!Connected, Link!Sets, Link!At
    <3> QED
      BY <3>1, CallSteps DEF LinkInv, Points
  <2>2. CASE Link!Report(t) /\ linkCall[t].at = "connecting"
    <3>1. Link!Goes(t, "connect")
      BY <2>2 DEF Link!Report, Link!At
    <3> QED
      BY <2>2, <3>1, CallSteps DEF LinkInv, Points
  <2>3. CASE Link!Report(t) /\ linkCall[t].at # "connecting"
    <3>1. Link!Ends(t) /\ linkCall[t].at \in {"connected", "disconnected"}
      BY <2>3 DEF Link!Report, Link!At
    <3> QED
      BY <3>1, CallSteps DEF LinkInv
  <2> QED
    BY <2>1, <2>2, <2>3
<1>3. LinkTyped'
  <2>1. CASE Link!Connected(t)
    BY <1>1, <1>2, <2>1 DEF Link!Connected, Link!Sets, LinkInv, LinkTyped, Link!tables, Link!counters
  <2>2. CASE Link!Report(t)
    BY <1>1, <1>2, <2>2 DEF Link!Report, LinkInv, LinkTyped, Link!tables, Link!counters
  <2> QED
    BY <2>1, <2>2
<1>4. OneLinks'
  <2>1. ~crossed' => /\ \A u \in Callers \ {t} : ~Link!Linking(u)
                     /\ ToReport(t)
    BY <1>1 DEF LinkInv, OneLinks, Link!Linking
  <2>2. \A u \in Callers \ {t} : Link!Linking(u)' <=> Link!Linking(u)
    BY <1>2 DEF Link!Linking
  <2>3. CASE Link!Connected(t)
    <3>1. linkState'["cloud"] = "CONNECTED" /\ linkCall'[t].at = "connected"
      BY <1>2, <2>3 DEF Link!Connected, Link!Sets, LinkInv, LinkTyped, Link!At
    <3> QED
      BY <2>1, <2>2, <3>1 DEF OneLinks, ToReport, Link!Linking
  <2>4. CASE Link!Report(t)
    <3>1. linkState' = linkState /\ linkTold' = Link!Reported(t)
      BY <2>4 DEF Link!Report
    <3>2. ~crossed' => linkState["cloud"] = Link!Reported(t)
      BY <2>1, <2>4 DEF Link!Report, Link!Reported, ToReport, Link!At
    <3>3. linkCall'[t].at \in {"connect", "idle"}
      BY <1>2, <2>4 DEF Link!Report
    <3> HIDE DEF Link!Reported
    <3> QED
      BY <2>1, <2>2, <3>1, <3>2, <3>3 DEF OneLinks, ToReport, Link!Linking
  <2> QED
    BY <2>3, <2>4
<1>5. AllCounted'
  <2>1. UNCHANGED <<tx, sent, clash>>
    BY <1>1 DEF Link!counters
  <2>2. t \notin Counting /\ t \notin Counting'
    BY <1>1, <1>2 DEF Counting
  <2> QED
    BY <1>2, <2>1, <2>2, CountsRest DEF LinkInv
<1>6. AllStored'
  BY <1>1, <1>2, StoresRest DEF LinkInv, Link!tables
<1> QED
  BY <1>3, <1>4, <1>5, <1>6 DEF LinkInv

LEMMA RegisterKeeps ==
  ASSUME LinkInv, NEW t \in Callers, Link!Register(t) \/ Link!Registered(t)
  PROVE  LinkInv'
<1>1. UNCHANGED <<Link!links, wiped, Link!counters>>
  BY DEF Link!Register, Link!Registered
<1>2. /\ linkCall' \in [Callers -> Calling]
      /\ \A u \in Callers \ {t} : linkCall'[u] = linkCall[u]
      /\ \/ linkCall[t].at = "idle" /\ linkCall'[t].at = "register"
         \/ linkCall[t].at = "register" /\ linkCall'[t].at = "idle"
  <2>1. CASE Link!Register(t)
    <3>1. Link!Goes(t, "register") /\ linkCall[t].at = "idle"
      BY <2>1 DEF Link!Register, Link!Calls, Link!At
    <3>2. "register" \in Points
      BY DEF Points
    <3>3. /\ linkCall' \in [Callers -> Calling] /\ linkCall'[t].at = "register"
          /\ \A u \in Callers \ {t} : linkCall'[u] = linkCall[u]
      BY <3>1, <3>2, CallSteps DEF LinkInv
    <3> QED
      BY <3>1, <3>3
  <2>2. CASE Link!Registered(t)
    <3>1. Link!Ends(t) /\ linkCall[t].at = "register"
      BY <2>2 DEF Link!Registered, Link!At
    <3> QED
      BY <3>1, CallSteps DEF LinkInv
  <2> QED
    BY <2>1, <2>2
<1>3. LinkTyped'
  BY <1>1, <1>2 DEF Link!Register, Link!Registered, Link!Stored, LinkInv, LinkTyped, Link!links, Link!counters
<1>4. OneLinks'
  BY <1>1, <1>2, LinksRest DEF LinkInv, Link!links, Link!Linking
<1>5. AllCounted'
  <2>1. UNCHANGED <<tx, sent, clash>>
    BY <1>1 DEF Link!counters
  <2>2. t \notin Counting /\ t \notin Counting'
    BY <1>2 DEF Counting
  <2> QED
    BY <1>2, <2>1, <2>2, CountsRest DEF LinkInv
<1>6. AllStored'
  <2>1. AllStored /\ count \in Nat /\ handlers \in Nat /\ NoCaller \notin Callers
    BY CallersAssumption DEF LinkInv, LinkTyped
  <2>2. CASE Link!Register(t)
    <3>1. holder = NoCaller /\ handlers' = count + 1 /\ count' = count /\ holder' = t /\ linkCall'[t].at = "register"
      BY <1>2, <2>2 DEF Link!Register, Link!Stored, Link!Calls, Link!At
    <3>2. ~wiped => \A u \in Callers : linkCall[u].at # "register"
      BY <2>1, <3>1 DEF AllStored
    <3> QED
      BY <1>1, <1>2, <2>1, <3>1, <3>2 DEF AllStored
  <2>3. CASE Link!Registered(t)
    <3>1. count' = count + 1 /\ handlers' = handlers /\ linkCall[t].at = "register" /\ linkCall'[t].at = "idle"
      BY <1>2, <2>3 DEF Link!Registered, Link!At
    <3>2. ~wiped => \A u \in Callers \ {t} : linkCall[u].at # "register"
      BY <2>1, <3>1 DEF AllStored
    <3> QED
      BY <1>1, <1>2, <2>1, <3>1, <3>2 DEF AllStored
  <2> QED
    BY <2>2, <2>3
<1> QED
  BY <1>3, <1>4, <1>5, <1>6 DEF LinkInv

\* A message is on its way, without a count yet.
LEMMA WayKeeps ==
  ASSUME LinkInv, NEW t \in Callers, UNCHANGED <<Link!links, Link!tables, Link!counters>>,
         linkCall[t].at \in {"idle", "offer", "send"}, linkCall' \in [Callers -> Calling],
         linkCall'[t].at \in {"idle", "offer", "send"}, \A u \in Callers \ {t} : linkCall'[u] = linkCall[u]
  PROVE  LinkInv'
<1>1. LinkTyped'
  BY DEF LinkInv, LinkTyped, Link!links, Link!tables, Link!counters
<1>2. OneLinks'
  BY LinksRest DEF LinkInv, Link!links, Link!Linking
<1>3. AllCounted'
  <2>1. t \notin Counting /\ t \notin Counting'
    BY DEF Counting
  <2> QED
    BY <2>1, CountsRest DEF LinkInv, Link!counters
<1>4. AllStored'
  BY StoresRest DEF LinkInv, Link!tables
<1> QED
  BY <1>1, <1>2, <1>3, <1>4 DEF LinkInv

LEMMA SendKeeps ==
  ASSUME LinkInv, NEW t \in Callers,
         Link!Send(t, "cloud") \/ Link!Send(t, "bt") \/ Link!Broadcast(t) \/ Link!Offer(t)
  PROVE  LinkInv'
<1>1. UNCHANGED <<Link!links, Link!tables, Link!counters>> /\ linkCall[t].at \in {"idle", "offer", "send"}
  BY DEF Link!Send, Link!Broadcast, Link!Offer, Link!Calls, Link!At
<1>2. ASSUME NEW c \in Calling, c.at \in {"idle", "offer", "send"}, linkCall' = [linkCall EXCEPT ![t] = c]
      PROVE  LinkInv'
  <2>1. /\ linkCall' \in [Callers -> Calling] /\ linkCall'[t] = c
        /\ \A u \in Callers \ {t} : linkCall'[u] = linkCall[u]
    BY <1>2 DEF LinkInv, LinkTyped
  <2> QED
    BY <1>1, <1>2, <2>1, WayKeeps
<1>3. ASSUME NEW dest \in {"cloud", "bt"}, Link!Send(t, dest) PROVE LinkInv'
  <2>1. /\ [Link!Idle EXCEPT !.at = "send", !.to = <<dest>>] \in Calling
        /\ [Link!Idle EXCEPT !.at = "send", !.to = <<dest>>].at = "send"
    <3>1. <<dest>> \in Seq({"cloud", "bt", "web"})
      OBVIOUS
    <3> QED
      BY <3>1 DEF Link!Idle, Calling, Points
  <2> QED
    BY <1>2, <1>3, <2>1 DEF Link!Send
<1>4. CASE Link!Broadcast(t)
  <2>1. /\ [Link!Idle EXCEPT !.at = "offer", !.to = Link!Order, !.all = TRUE] \in Calling
        /\ [Link!Idle EXCEPT !.at = "offer", !.to = Link!Order, !.all = TRUE].at = "offer"
    <3>1. Link!Order \in Seq({"cloud", "bt", "web"})
      BY DEF Link!Order
    <3> QED
      BY <3>1 DEF Link!Idle, Calling, Points
  <2> QED
    BY <1>2, <1>4, <2>1 DEF Link!Broadcast
<1>5. CASE Link!Offer(t)
  <2>1. Link!Goes(t, "send") \/ linkCall' = [linkCall EXCEPT ![t] = Link!Next1(linkCall[t])]
    BY <1>5 DEF Link!Offer
  <2>2. /\ linkCall' \in [Callers -> Calling]
        /\ linkCall'[t].at \in {"idle", "offer", "send"}
        /\ \A u \in Callers \ {t} : linkCall'[u] = linkCall[u]
    BY <2>1, CallSteps DEF LinkInv, Points
  <2> QED
    BY <1>1, <2>2, WayKeeps
<1> QED
  BY <1>3, <1>4, <1>5

\* The message goes out, and is counted.
LEMMA TransportKeeps ==
  ASSUME LinkInv, NEW t \in Callers, Link!Transport(t)
  PROVE  LinkInv'
<1>1. CASE sent' = sent + 1 /\ Link!Goes(t, "count")
  <2>1. linkCall[t].at = "send" /\ UNCHANGED <<Link!links, Link!tables, tx, clash>>
    BY DEF Link!Transport, Link!At
  <2>2. /\ linkCall' \in [Callers -> Calling] /\ linkCall'[t].at = "count"
        /\ \A u \in Callers \ {t} : linkCall'[u] = linkCall[u]
    BY <1>1, CallSteps DEF LinkInv, Points
  <2>3. LinkTyped'
    BY <1>1, <2>1, <2>2 DEF LinkInv, LinkTyped, Link!links, Link!tables
  <2>4. OneLinks'
    BY <2>1, <2>2, LinksRest DEF LinkInv, Link!links, Link!Linking
  <2>5. AllCounted'
    <3>1. Counting' = Counting \cup {t} /\ t \notin Counting
      BY <2>1, <2>2 DEF Counting
    <3>2. IsFiniteSet(Counting) => /\ IsFiniteSet(Counting') /\ Cardinality(Counting) \in Nat
                                   /\ Cardinality(Counting') = Cardinality(Counting) + 1
      BY <3>1, FS_AddElement, FS_CardinalityType
    <3>3. tx \in Nat
      BY DEF LinkInv, LinkTyped
    <3> HIDE DEF Counting
    <3>4. ~clash => IsFiniteSet(Counting') /\ sent' = tx' + Cardinality(Counting')
      BY <1>1, <2>1, <3>2, <3>3 DEF LinkInv, AllCounted
    <3>5. \A u \in Callers : linkCall'[u].at = "write" => linkCall[u].at = "write" /\ linkCall'[u].seen = linkCall[u].seen
      BY <2>2
    <3> QED
      BY <2>1, <3>4, <3>5 DEF LinkInv, AllCounted
  <2>6. AllStored'
    BY <2>1, <2>2, StoresRest DEF LinkInv, Link!tables
  <2> QED
    BY <2>3, <2>4, <2>5, <2>6 DEF LinkInv
<1>2. CASE linkCall' = [linkCall EXCEPT ![t] = Link!Next1(linkCall[t])] /\ UNCHANGED sent
  <2>1. linkCall[t].at = "send" /\ UNCHANGED <<Link!links, Link!tables, Link!counters>>
    BY <1>2 DEF Link!Transport, Link!At, Link!counters
  <2>2. /\ linkCall' \in [Callers -> Calling]
        /\ linkCall'[t].at \in {"idle", "offer", "send"}
        /\ \A u \in Callers \ {t} : linkCall'[u] = linkCall[u]
    BY <1>2, CallSteps DEF LinkInv
  <2> QED
    BY <2>1, <2>2, WayKeeps
<1> QED
  BY <1>1, <1>2 DEF Link!Transport

LEMMA CountReadKeeps ==
  ASSUME LinkInv, NEW t \in Callers, Link!CountRead(t)
  PROVE  LinkInv'
<1>1. /\ linkCall[t].at = "count" /\ UNCHANGED <<Link!links, Link!tables, tx, sent>>
      /\ linkCall' = [linkCall EXCEPT ![t].at = "write", ![t].seen = tx]
  BY DEF Link!CountRead, Link!At
<1>2. /\ linkCall' \in [Callers -> Calling] /\ linkCall'[t].at = "write" /\ linkCall'[t].seen = tx
      /\ \A u \in Callers \ {t} : linkCall'[u] = linkCall[u]
  BY <1>1 DEF LinkInv, LinkTyped, Calling, Points
<1>3. LinkTyped'
  BY <1>1, <1>2 DEF LinkInv, LinkTyped, Link!links, Link!tables
<1>4. OneLinks'
  BY <1>1, <1>2, LinksRest DEF LinkInv, Link!links, Link!Linking
<1>5. AllCounted'
  <2>1. ~clash' => ~clash /\ \A u \in Callers \ {t} : linkCall[u].at # "write"
    BY DEF Link!CountRead, Link!At
  <2>2. Counting' = Counting
    BY <1>1, <1>2 DEF Counting
  <2> HIDE DEF Counting
  <2> QED
    BY <1>1, <1>2, <2>1, <2>2 DEF LinkInv, AllCounted
<1>6. AllStored'
  BY <1>1, <1>2, StoresRest DEF LinkInv, Link!tables
<1> QED
  BY <1>3, <1>4, <1>5, <1>6 DEF LinkInv

LEMMA CountWriteKeeps ==
  ASSUME LinkInv, NEW t \in Callers, Link!CountWrite(t)
  PROVE  LinkInv'
<1>1. /\ linkCall[t].at = "write" /\ UNCHANGED <<Link!links, Link!tables, sent, clash>>
      /\ tx' = linkCall[t].seen + 1
      /\ linkCall' = [linkCall EXCEPT ![t] = Link!Next1(linkCall[t])]
  BY DEF Link!CountWrite, Link!At
<1>2. /\ linkCall' \in [Callers -> Calling] /\ linkCall'[t].at \in {"idle", "offer", "send"}
      /\ \A u \in Callers \ {t} : linkCall'[u] = linkCall[u]
  BY <1>1, CallSteps DEF LinkInv
<1>3. linkCall[t].seen \in Nat
  BY DEF LinkInv, LinkTyped, Calling
<1>4. LinkTyped'
  BY <1>1, <1>2, <1>3 DEF LinkInv, LinkTyped, Link!links, Link!tables
<1>5. OneLinks'
  BY <1>1, <1>2, LinksRest DEF LinkInv, Link!links, Link!Linking
<1>6. AllCounted'
  <2>1. Counting' = Counting \ {t} /\ t \in Counting
    BY <1>1, <1>2 DEF Counting
  <2>2. IsFiniteSet(Counting) => /\ IsFiniteSet(Counting') /\ Cardinality(Counting) \in Nat
                                 /\ Cardinality(Counting') = Cardinality(Counting) - 1
    BY <2>1, FS_RemoveElement, FS_CardinalityType
  <2> HIDE DEF Counting
  <2>3. ~clash => /\ linkCall[t].seen = tx /\ tx \in Nat
                  /\ \A u \in Callers \ {t} : linkCall[u].at # "write"
    BY <1>1 DEF LinkInv, LinkTyped, AllCounted
  <2>4. ~clash => IsFiniteSet(Counting') /\ sent' = tx' + Cardinality(Counting')
    BY <1>1, <2>2, <2>3 DEF LinkInv, AllCounted
  <2>5. ~clash => \A u \in Callers : linkCall'[u].at # "write"
    BY <1>2, <2>3
  <2> QED
    BY <1>1, <2>4, <2>5 DEF AllCounted
<1>7. AllStored'
  BY <1>1, <1>2, StoresRest DEF LinkInv, Link!tables
<1> QED
  BY <1>4, <1>5, <1>6, <1>7 DEF LinkInv

LEMMA LinkNext == LinkInv /\ [Link!Next]_(Link!vars) => LinkInv'
<1> SUFFICES ASSUME LinkInv, [Link!Next]_(Link!vars) PROVE LinkInv'
  OBVIOUS
<1>1. CASE UNCHANGED <<Link!links, Link!tables, Link!counters, linkCall>>
  <2>1. LinkTyped'
    BY <1>1 DEF LinkInv, LinkTyped, Link!links, Link!tables, Link!counters
  <2>2. OneLinks' /\ AllCounted' /\ AllStored'
    BY <1>1, LinksRest, CountsRest, StoresRest DEF LinkInv, Link!links, Link!tables, Link!counters
  <2> QED
    BY <2>1, <2>2 DEF LinkInv
<1>2. ASSUME NEW up \in BOOLEAN, Link!BtConnected(up) PROVE LinkInv'
  <2>1. LinkTyped' /\ linkState'["cloud"] = linkState["cloud"]
    BY <1>2 DEF Link!BtConnected, LinkInv, LinkTyped, Link!tables, Link!counters
  <2>2. OneLinks'
    BY <1>2, <2>1 DEF Link!BtConnected, LinkInv, OneLinks, ToReport, Link!Linking
  <2>3. AllCounted' /\ AllStored'
    BY <1>2, CountsRest, StoresRest DEF Link!BtConnected, LinkInv, Link!tables, Link!counters
  <2> QED
    BY <2>1, <2>2, <2>3 DEF LinkInv
<1>3. CASE UNCHANGED Link!vars
  BY <1>1, <1>3 DEF Link!vars
<1> QED
  BY <1>2, <1>3, LinkClientKeeps, BeginKeeps, ConnectedKeeps, RegisterKeeps, SendKeeps,
     TransportKeeps, CountReadKeeps, CountWriteKeeps DEF Link!Next

LEMMA LinkStarts == Link!Init => LinkInv
<1> SUFFICES ASSUME Link!Init PROVE LinkInv
  OBVIOUS
<1>1. LinkTyped
  <2>1. Link!Idle \in Calling
    BY DEF Link!Idle, Calling, Points
  <2> HIDE DEF Link!Idle
  <2> QED
    BY <2>1, OrderSet DEF Link!Init, LinkTyped
<1>2. \A t \in Callers : linkCall[t].at = "idle"
  BY DEF Link!Init, Link!Idle
<1>3. OneLinks
  BY <1>2, OrderSet DEF Link!Init, OneLinks, ToReport, Link!Linking
<1>4. AllCounted
  <2>1. Counting = {} /\ IsFiniteSet({}) /\ Cardinality({}) = 0
    BY <1>2, FS_EmptySet DEF Counting
  <2> HIDE DEF Counting
  <2> QED
    BY <1>2, <2>1 DEF Link!Init, AllCounted
<1>5. AllStored
  BY <1>2 DEF Link!Init, AllStored
<1> QED
  BY <1>1, <1>3, <1>4, <1>5 DEF LinkInv

\* The state handler was told the cloud's state, unless connects and disconnects
\* crossed; as many messages are counted as went out, unless two were counted at
\* once; no handler is counted that was not stored, unless the client was wiped.
THEOREM ReportsAreTrue == Link!Spec => []Link!ReportsSound
<1>1. ASSUME LinkInv PROVE Link!ReportsSound
  <2>1. ~crossed /\ (\A t \in Callers : ~Link!Linking(t)) => linkTold = linkState["cloud"]
    BY <1>1 DEF LinkInv, OneLinks
  <2>2. ~clash /\ (\A t \in Callers : linkCall[t].at \notin {"count", "write"}) => tx = sent
    <3> SUFFICES ASSUME ~clash, \A t \in Callers : linkCall[t].at \notin {"count", "write"}
                 PROVE  tx = sent
      OBVIOUS
    <3>1. Counting = {} /\ Cardinality({}) = 0
      BY FS_EmptySet DEF Counting
    <3> HIDE DEF Counting
    <3> QED
      BY <1>1, <3>1 DEF LinkInv, LinkTyped, AllCounted
  <2>3. ~wiped => count <= handlers
    BY <1>1 DEF LinkInv, AllStored
  <2> QED
    BY <2>1, <2>2, <2>3 DEF Link!ReportsSound
<1> QED
  BY <1>1, LinkStarts, LinkNext, PTL DEF Link!Spec

\* Numbers have a least.
LEMMA Least ==
  ASSUME NEW S \in SUBSET Nat, S # {} PROVE \E x \in S : \A y \in S : x <= y
<1>1. PICK x \in S : \A y \in S : ~(<<y, x>> \in OpToRel(<, Nat))
  BY NatLessThanWellFounded, WFMin
<1>2. ASSUME NEW y \in S PROVE x <= y
  <2>1. x \in Nat /\ y \in Nat /\ ~(y < x)
    BY <1>1 DEF OpToRel
  <2> QED
    BY <2>1
<1> QED
  BY <1>2

-----------------------------------------------------------------------------
(* The WebSocket client.                                                   *)

WsPoints == {"create", "close", "tcp", "join"}
WsCalls == {Ws!Idle} \cup [at : WsPoints, slot : Slots]
Places == {"none", "start", "connect", "up", "cleanup", "closed", "ended"}
WsTyped ==
  /\ inUse \in [Slots -> BOOLEAN] /\ wsSock \in [Slots -> BOOLEAN] /\ websock \in [Slots -> BOOLEAN]
  /\ listens \in [Slots -> BOOLEAN] /\ wsLate \in [Slots -> BOOLEAN]
  /\ shared \in [Slots -> BOOLEAN] /\ wsOverrun \in [Slots -> BOOLEAN]
  /\ wsState \in [Slots -> {"DISCONNECTED", "CONNECTING", "CONNECTED", "CLOSING", "ERROR"}]
  /\ wsTold \in [Slots -> {"none", "error", "connected", "disconnected"}]
  /\ wsThread \in [Slots -> Places] /\ wsCall \in [Callers -> WsCalls]

\* A call that is about the slot, creates its thread, closes it.
Works(v, s) == v.at # "idle" /\ v.slot = s
Creates(v, s) == Works(v, s) /\ v.at = "create"
Closes(v, s) == Works(v, s) /\ v.at # "create"

\* Two callers on one slot share it, and one whose slot is free shares it with
\* who freed it; a thread in a free slot was not waited for; who waits for a
\* thread that ends quietly tells of the end.
Shared(s) ==
  /\ \A c \in Callers, d \in Callers : Works(wsCall[c], s) /\ Works(wsCall[d], s) /\ c # d => shared[s]
  /\ \A c \in Callers : Works(wsCall[c], s) => inUse[s] \/ shared[s]
  /\ Ws!HasThread(s) => inUse[s] \/ wsLate[s] \/ shared[s]
  /\ wsState[s] = "CLOSING" => \E c \in Callers : Closes(wsCall[c], s)
  /\ wsTold[s] = "connected" => listens[s]

\* In a slot that was not given away: which sockets may be open, and that a new
\* connection has no thread yet and was told of nothing.
Owned(s) ==
  /\ <<"tcp", s>> \in wsOpen => wsSock[s]
  /\ <<"ws", s>> \in wsOpen => websock[s]
  /\ wsThread[s] \in {"none", "start", "closed", "ended"} => <<"tcp", s>> \notin wsOpen
  /\ wsThread[s] \in {"none", "start", "connect", "closed", "ended"} => <<"ws", s>> \notin wsOpen
  /\ \A c \in Callers : Creates(wsCall[c], s) => ~Ws!HasThread(s) /\ wsTold[s] # "connected"
  /\ \A c \in Callers, d \in Callers : Creates(wsCall[c], s) /\ Creates(wsCall[d], s) => c = d
  /\ wsThread[s] \in {"start", "connect"} => wsTold[s] # "connected"
  /\ ~Ws!HasThread(s) /\ wsTold[s] = "connected" => \E c \in Callers : Closes(wsCall[c], s)

SlotOK(s) == Shared(s) /\ (~wsOverrun[s] => Owned(s))
WsInv == WsTyped /\ \A s \in Slots : SlotOK(s)

\* What a step leaves of the other slots.
Rests(x) ==
  /\ inUse'[x] = inUse[x] /\ wsSock'[x] = wsSock[x] /\ websock'[x] = websock[x]
  /\ listens'[x] = listens[x] /\ wsLate'[x] = wsLate[x] /\ shared'[x] = shared[x]
  /\ wsOverrun'[x] = wsOverrun[x] /\ wsState'[x] = wsState[x] /\ wsTold'[x] = wsTold[x]
  /\ wsThread'[x] = wsThread[x]
  /\ <<"tcp", x>> \in wsOpen' <=> <<"tcp", x>> \in wsOpen
  /\ <<"ws", x>> \in wsOpen' <=> <<"ws", x>> \in wsOpen
  /\ \A c \in Callers : /\ Works(wsCall'[c], x) <=> Works(wsCall[c], x)
                        /\ Creates(wsCall'[c], x) <=> Creates(wsCall[c], x)
                        /\ Closes(wsCall'[c], x) <=> Closes(wsCall[c], x)

LEMMA SlotRests == ASSUME NEW x \in Slots, SlotOK(x), Rests(x) PROVE SlotOK(x)'
<1>1. Shared(x)'
  BY DEF SlotOK, Shared, Rests, Ws!HasThread
<1>2. ~wsOverrun'[x] => Owned(x)'
  BY DEF SlotOK, Owned, Rests, Ws!HasThread
<1> QED
  BY <1>1, <1>2 DEF SlotOK

\* The call of one caller changes.
LEMMA CallFacts ==
  ASSUME WsTyped, NEW c \in Callers, NEW v \in WsCalls, wsCall' = [wsCall EXCEPT ![c] = v]
  PROVE  /\ wsCall' \in [Callers -> WsCalls] /\ wsCall'[c] = v
         /\ \A d \in Callers \ {c} : wsCall'[d] = wsCall[d]
BY DEF WsTyped

\* A step of the thread of slot s, or of who sets its callback.
LEMMA WsThreadKeeps ==
  ASSUME WsInv, NEW s \in Slots,
         \/ Ws!SetEventCb(s) \/ Ws!ThreadFails(s) \/ Ws!ThreadSocket(s) \/ Ws!ThreadRefused(s)
         \/ Ws!ThreadConnected(s) \/ Ws!ThreadLeaves(s) \/ Ws!ThreadCloses(s) \/ Ws!ThreadEnds(s)
  PROVE  WsInv'
<1> USE DEF Ws!conn, Ws!Event, Ws!ThreadGoes
<1>1. UNCHANGED <<inUse, wsCall, wsLate, shared, wsOverrun>>
  BY DEF Ws!SetEventCb, Ws!ThreadFails, Ws!ThreadSocket, Ws!ThreadRefused, Ws!ThreadConnected, Ws!ThreadLeaves,
         Ws!ThreadCloses, Ws!ThreadEnds
<1>2. \A c \in Callers, x \in Slots : /\ Works(wsCall'[c], x) <=> Works(wsCall[c], x)
                                      /\ Creates(wsCall'[c], x) <=> Creates(wsCall[c], x)
                                      /\ Closes(wsCall'[c], x) <=> Closes(wsCall[c], x)
  BY <1>1 DEF Works, Creates, Closes
<1>3. WsTyped /\ SlotOK(s)
  BY DEF WsInv
<1>4. SUFFICES ASSUME WsTyped', \A x \in Slots \ {s} : Rests(x) PROVE SlotOK(s)'
  <2>1. WsTyped'
    <3> USE DEF WsTyped, Places
    <3>1. CASE Ws!SetEventCb(s)
      BY <1>1, <1>3, <3>1 DEF Ws!SetEventCb
    <3>2. CASE Ws!ThreadFails(s)
      BY <1>1, <1>3, <3>2 DEF Ws!ThreadFails
    <3>3. CASE Ws!ThreadSocket(s)
      BY <1>1, <1>3, <3>3 DEF Ws!ThreadSocket
    <3>4. CASE Ws!ThreadRefused(s)
      BY <1>1, <1>3, <3>4 DEF Ws!ThreadRefused
    <3>5. CASE Ws!ThreadConnected(s)
      BY <1>1, <1>3, <3>5 DEF Ws!ThreadConnected
    <3>6. CASE Ws!ThreadLeaves(s)
      BY <1>1, <1>3, <3>6 DEF Ws!ThreadLeaves
    <3>7. CASE Ws!ThreadCloses(s)
      BY <1>1, <1>3, <3>7 DEF Ws!ThreadCloses
    <3>8. CASE Ws!ThreadEnds(s)
      BY <1>1, <1>3, <3>8 DEF Ws!ThreadEnds
    <3> QED
      BY <3>1, <3>2, <3>3, <3>4, <3>5, <3>6, <3>7, <3>8
  <2>2. ASSUME NEW x \in Slots \ {s} PROVE Rests(x)
    <3>1. <<"tcp", x>> # <<"tcp", s>> /\ <<"ws", x>> # <<"ws", s>> /\ <<"tcp", x>> # <<"ws", s>> /\ <<"ws", x>> # <<"tcp", s>>
      OBVIOUS
    <3> QED
      BY <1>1, <1>2, <1>3, <3>1 DEF Ws!SetEventCb, Ws!ThreadFails, Ws!ThreadSocket, Ws!ThreadRefused,
         Ws!ThreadConnected, Ws!ThreadLeaves, Ws!ThreadCloses, Ws!ThreadEnds, Ws!StillOpen, WsTyped, Rests
  <2> QED
    BY <2>1, <2>2, SlotRests DEF WsInv
<1>5. CASE Ws!SetEventCb(s)
  BY <1>1, <1>2, <1>3, <1>5 DEF Ws!SetEventCb, WsTyped, SlotOK, Shared, Owned, Ws!HasThread
<1>6. CASE Ws!ThreadFails(s)
  BY <1>1, <1>2, <1>3, <1>6 DEF Ws!ThreadFails, WsTyped, SlotOK, Shared, Owned, Ws!HasThread
<1>7. CASE Ws!ThreadSocket(s)
  BY <1>1, <1>2, <1>3, <1>7 DEF Ws!ThreadSocket, WsTyped, SlotOK, Shared, Owned, Ws!HasThread
<1>8. CASE Ws!ThreadRefused(s)
  BY <1>1, <1>2, <1>3, <1>8 DEF Ws!ThreadRefused, Ws!StillOpen, WsTyped, SlotOK, Shared, Owned, Ws!HasThread
<1>9. CASE Ws!ThreadConnected(s)
  BY <1>1, <1>2, <1>3, <1>9 DEF Ws!ThreadConnected, WsTyped, SlotOK, Shared, Owned, Ws!HasThread
<1>10. CASE Ws!ThreadLeaves(s)
  BY <1>1, <1>2, <1>3, <1>10 DEF Ws!ThreadLeaves, WsTyped, SlotOK, Shared, Owned, Ws!HasThread
<1>11. CASE Ws!ThreadCloses(s)
  BY <1>1, <1>2, <1>3, <1>11 DEF Ws!ThreadCloses, WsTyped, SlotOK, Shared, Owned, Ws!HasThread
<1>12. CASE Ws!ThreadEnds(s)
  BY <1>1, <1>2, <1>3, <1>12 DEF Ws!ThreadEnds, Ws!QuietEnd, WsTyped, SlotOK, Shared, Owned, Ws!HasThread
<1> QED
  BY <1>5, <1>6, <1>7, <1>8, <1>9, <1>10, <1>11, <1>12

\* A connection gets the lowest free slot.
LEMMA WsConnectKeeps ==
  ASSUME WsInv, Slots \in SUBSET Nat, NEW c \in Callers, Ws!Connect(c)
  PROVE  WsInv'
<1>1. PICK s \in Slots : s = Ws!Min({x \in Slots : ~inUse[x]}) /\ ~inUse[s]
  <2>1. {x \in Slots : ~inUse[x]} \in SUBSET Nat /\ {x \in Slots : ~inUse[x]} # {}
    BY DEF Ws!Connect
  <2> QED
    BY <2>1, Least DEF Ws!Min
<1> DEFINE v == [at |-> "create", slot |-> s]
<1>2. v \in WsCalls /\ v.at = "create" /\ v.slot = s
  BY <1>1 DEF WsCalls, WsPoints
<1>3. /\ inUse' = [inUse EXCEPT ![s] = TRUE] /\ wsState' = [wsState EXCEPT ![s] = "CONNECTING"]
      /\ wsSock' = [wsSock EXCEPT ![s] = FALSE] /\ websock' = [websock EXCEPT ![s] = FALSE]
      /\ listens' = [listens EXCEPT ![s] = FALSE] /\ wsTold' = [wsTold EXCEPT ![s] = "none"]
      /\ wsCall' = [wsCall EXCEPT ![c] = v] /\ UNCHANGED <<wsOpen, wsThread>> /\ wsCall[c] = Ws!Idle
      /\ IF Ws!HasThread(s) \/ Ws!Closing(s) # {}
         THEN wsOverrun' = [wsOverrun EXCEPT ![s] = TRUE] /\ UNCHANGED <<wsLate, shared>>
         ELSE /\ wsLate' = [wsLate EXCEPT ![s] = FALSE] /\ shared' = [shared EXCEPT ![s] = FALSE]
              /\ UNCHANGED wsOverrun
  BY <1>1 DEF Ws!Connect
<1> HIDE DEF v
<1>4. WsTyped /\ SlotOK(s)
  BY <1>1 DEF WsInv
<1>a. /\ wsCall' \in [Callers -> WsCalls] /\ wsCall'[c] = v
      /\ \A d \in Callers \ {c} : wsCall'[d] = wsCall[d]
  BY <1>2, <1>3, <1>4, CallFacts
<1>5. WsTyped'
  BY <1>1, <1>3, <1>4, <1>a DEF WsTyped
<1>6. ASSUME NEW x \in Slots \ {s} PROVE Rests(x)
  <2>1. ~Works(wsCall[c], x) /\ ~Creates(wsCall[c], x) /\ ~Closes(wsCall[c], x)
    BY <1>3 DEF Works, Creates, Closes, Ws!Idle
  <2>2. \A d \in Callers : /\ Works(wsCall'[d], x) <=> Works(wsCall[d], x)
                           /\ Creates(wsCall'[d], x) <=> Creates(wsCall[d], x)
                           /\ Closes(wsCall'[d], x) <=> Closes(wsCall[d], x)
    BY <1>2, <1>a, <2>1 DEF Works, Creates, Closes
  <2> QED
    BY <1>3, <1>4, <2>2 DEF WsTyped, Rests
<1>7. SlotOK(s)'
  <2>1. /\ \A d \in Callers \ {c} : (Works(wsCall'[d], s) <=> Works(wsCall[d], s)) /\ (Creates(wsCall'[d], s) <=> Creates(wsCall[d], s))
        /\ ~Works(wsCall[c], s) /\ Works(wsCall'[c], s) /\ Creates(wsCall'[c], s)
    BY <1>2, <1>3, <1>a DEF Works, Creates, Ws!Idle
  <2>2. Ws!Closing(s) = {d \in Callers : Works(wsCall[d], s)}
    BY DEF Ws!Closing, Works
  <2>3. /\ inUse'[s] /\ wsState'[s] = "CONNECTING" /\ wsTold'[s] = "none" /\ wsThread'[s] = wsThread[s]
        /\ \A k \in {"tcp", "ws"} : <<k, s>> \in wsOpen' <=> <<k, s>> \in wsOpen
    BY <1>1, <1>3, <1>4 DEF WsTyped
  <2>4. CASE Ws!HasThread(s) \/ Ws!Closing(s) # {}
    <3>1. wsOverrun'[s] /\ shared'[s] = shared[s]
      BY <1>1, <1>3, <1>4, <2>4 DEF WsTyped
    <3>2. Ws!Closing(s) # {} => shared[s]
      BY <1>1, <1>4, <2>2 DEF SlotOK, Shared
    <3>3. Shared(s)'
      BY <1>4, <2>1, <2>2, <2>3, <3>1, <3>2 DEF SlotOK, Shared
    <3> QED
      BY <3>1, <3>3 DEF SlotOK
  <2>5. CASE ~Ws!HasThread(s) /\ Ws!Closing(s) = {}
    <3>1. \A d \in Callers : ~Works(wsCall[d], s)
      BY <2>2, <2>5
    <3>2. Shared(s)'
      BY <1>4, <2>1, <2>3, <3>1 DEF SlotOK, Shared
    <3>3. wsOverrun'[s] = wsOverrun[s]
      BY <1>3, <2>5
    <3>4. ASSUME ~wsOverrun[s] PROVE Owned(s)'
      <4>1. <<"tcp", s>> \notin wsOpen /\ <<"ws", s>> \notin wsOpen
        BY <1>1, <1>4, <2>5, <3>4 DEF SlotOK, Owned, Ws!HasThread, WsTyped
      <4>2. \A d \in Callers \ {c} : ~Creates(wsCall'[d], s)
        BY <2>1, <3>1 DEF Creates
      <4> QED
        BY <2>1, <2>3, <2>5, <4>1, <4>2 DEF Owned, Ws!HasThread
    <3> QED
      BY <3>2, <3>3, <3>4 DEF SlotOK
  <2> QED
    BY <2>4, <2>5
<1> QED
  BY <1>5, <1>6, <1>7, SlotRests DEF WsInv

\* A caller goes on with its slot: where its call goes, and what it does with it.
LEMMA WsCallKeeps ==
  ASSUME WsInv, NEW c \in Callers, Ws!CreateThread(c) \/ Ws!DisconnectWs(c) \/ Ws!DisconnectTcp(c) \/ Ws!DisconnectEnd(c)
  PROVE  WsInv'
<1>1. PICK s \in Slots : /\ s = wsCall[c].slot /\ Works(wsCall[c], s) /\ wsCall[c].at \in WsPoints
                         /\ wsCall[c] \in [at : WsPoints, slot : Slots]
  BY DEF WsInv, WsTyped, WsCalls, Ws!Idle, WsPoints, Ws!CreateThread, Ws!DisconnectWs, Ws!DisconnectTcp, Ws!DisconnectEnd, Works
<1>2. WsTyped /\ SlotOK(s)
  BY <1>1 DEF WsInv
<1>3. PICK v \in WsCalls : wsCall' = [wsCall EXCEPT ![c] = v] /\ (v.at # "idle" => v.slot = s)
  <2>1. Ws!Idle \in WsCalls /\ Ws!Idle.at = "idle"
    BY DEF Ws!Idle, WsCalls
  <2>2. ASSUME NEW to \in WsPoints PROVE [wsCall[c] EXCEPT !.at = to] \in WsCalls /\ [wsCall[c] EXCEPT !.at = to].slot = s
    BY <1>1 DEF WsCalls
  <2> QED
    BY <2>1, <2>2 DEF Ws!CreateThread, Ws!DisconnectWs, Ws!DisconnectTcp, Ws!DisconnectEnd, Ws!CallGoes, WsPoints
<1>a. /\ wsCall' \in [Callers -> WsCalls] /\ wsCall'[c] = v
      /\ \A d \in Callers \ {c} : wsCall'[d] = wsCall[d]
  BY <1>2, <1>3, CallFacts
<1> USE DEF Ws!conn, Ws!Event
<1>4. \A x \in Slots \ {s} : ~Works(wsCall[c], x) /\ ~Creates(wsCall[c], x) /\ ~Closes(wsCall[c], x)
  BY <1>1 DEF Works, Creates, Closes
<1>5. WsTyped' /\ \A x \in Slots \ {s} : Rests(x)
  <2>2. WsTyped'
    <3>1. CASE Ws!CreateThread(c)
      BY <1>1, <1>2, <1>a, <3>1 DEF Ws!CreateThread, WsTyped, Places
    <3>2. CASE Ws!DisconnectWs(c)
      BY <1>1, <1>2, <1>a, <3>2 DEF Ws!DisconnectWs, WsTyped, Places
    <3>3. CASE Ws!DisconnectTcp(c)
      BY <1>1, <1>2, <1>a, <3>3 DEF Ws!DisconnectTcp, WsTyped, Places
    <3>4. CASE Ws!DisconnectEnd(c)
      BY <1>1, <1>2, <1>a, <3>4 DEF Ws!DisconnectEnd, WsTyped, Places
    <3> QED
      BY <3>1, <3>2, <3>3, <3>4
  <2>3. ASSUME NEW x \in Slots \ {s} PROVE Rests(x)
    <3>1. <<"tcp", x>> # <<"tcp", s>> /\ <<"ws", x>> # <<"ws", s>> /\ <<"tcp", x>> # <<"ws", s>> /\ <<"ws", x>> # <<"tcp", s>>
      OBVIOUS
    <3>2. \A d \in Callers : /\ Works(wsCall'[d], x) <=> Works(wsCall[d], x)
                             /\ Creates(wsCall'[d], x) <=> Creates(wsCall[d], x)
                             /\ Closes(wsCall'[d], x) <=> Closes(wsCall[d], x)
      BY <1>3, <1>4, <1>a DEF Works, Creates, Closes, WsCalls, Ws!Idle
    <3>3. CASE Ws!CreateThread(c)
      BY <1>1, <1>2, <3>2, <3>3 DEF Ws!CreateThread, WsTyped, Rests
    <3>4. CASE Ws!DisconnectWs(c)
      BY <1>1, <1>2, <3>1, <3>2, <3>4 DEF Ws!DisconnectWs, WsTyped, Rests
    <3>5. CASE Ws!DisconnectTcp(c)
      BY <1>1, <1>2, <3>1, <3>2, <3>5 DEF Ws!DisconnectTcp, WsTyped, Rests
    <3>6. CASE Ws!DisconnectEnd(c)
      BY <1>1, <1>2, <3>2, <3>6 DEF Ws!DisconnectEnd, Ws!Event, WsTyped, Rests
    <3> QED
      BY <3>3, <3>4, <3>5, <3>6
  <2> QED
    BY <2>2, <2>3
<1>6. /\ \A d \in Callers \ {c} : /\ Works(wsCall'[d], s) <=> Works(wsCall[d], s)
                                  /\ Creates(wsCall'[d], s) <=> Creates(wsCall[d], s)
                                  /\ Closes(wsCall'[d], s) <=> Closes(wsCall[d], s)
      /\ Works(wsCall'[c], s) <=> v.at # "idle"
      /\ Creates(wsCall'[c], s) <=> v.at = "create"
      /\ Closes(wsCall'[c], s) <=> v.at \notin {"idle", "create"}
  BY <1>3, <1>a DEF Works, Creates, Closes, WsCalls, Ws!Idle
<1>7. ASSUME Ws!CreateThread(c) PROVE SlotOK(s)'
  <2>1. /\ wsCall[c].at = "create" /\ wsCall'[c].at = "idle" /\ wsThread'[s] = "start"
        /\ UNCHANGED <<inUse, wsState, wsSock, websock, wsOpen, listens, wsTold, wsLate, shared, wsOverrun>>
    BY <1>1, <1>2, <1>7 DEF Ws!CreateThread, Ws!Idle, WsTyped
  <2>2. Creates(wsCall[c], s) /\ ~Works(wsCall'[c], s) /\ ~Creates(wsCall'[c], s) /\ ~Closes(wsCall[c], s)
    BY <1>1, <2>1 DEF Works, Creates, Closes
  <2>3. Shared(s)'
    BY <1>1, <1>2, <1>6, <2>1, <2>2 DEF SlotOK, Shared
  <2>4. ~wsOverrun[s] => Owned(s)'
    BY <1>1, <1>2, <1>6, <2>1, <2>2 DEF SlotOK, Owned, Ws!HasThread, WsTyped, Places
  <2> QED
    BY <2>1, <2>3, <2>4 DEF SlotOK
<1>8. ASSUME Ws!DisconnectWs(c) \/ Ws!DisconnectTcp(c) PROVE SlotOK(s)'
  <2>1. /\ wsCall[c].at \in {"close", "tcp"} /\ wsCall'[c].at \in {"tcp", "join"}
        /\ UNCHANGED <<inUse, wsState, wsThread, listens, wsTold, wsLate, shared, wsOverrun>>
    BY <1>1, <1>2, <1>8 DEF Ws!DisconnectWs, Ws!DisconnectTcp, Ws!CallGoes, WsTyped
  <2>2. /\ Works(wsCall[c], s) /\ ~Creates(wsCall[c], s) /\ Closes(wsCall[c], s)
        /\ Works(wsCall'[c], s) /\ ~Creates(wsCall'[c], s) /\ Closes(wsCall'[c], s)
    BY <1>1, <1>2, <1>3, <1>6, <2>1 DEF Works, Creates, Closes, WsTyped
  <2>3. Shared(s)'
    BY <1>1, <1>2, <1>6, <2>1, <2>2 DEF SlotOK, Shared, Ws!HasThread
  <2>4. /\ wsOpen' \subseteq wsOpen
        /\ <<"tcp", s>> \in wsOpen' => (<<"tcp", s>> \in wsOpen /\ (wsSock[s] => wsSock'[s]))
        /\ <<"ws", s>> \in wsOpen' => (<<"ws", s>> \in wsOpen /\ (websock[s] => websock'[s]))
    BY <1>1, <1>2, <1>8 DEF Ws!DisconnectWs, Ws!DisconnectTcp, WsTyped
  <2>5. ~wsOverrun[s] => Owned(s)'
    BY <1>1, <1>2, <1>6, <2>1, <2>2, <2>4 DEF SlotOK, Owned, Ws!HasThread
  <2> QED
    BY <2>1, <2>3, <2>5 DEF SlotOK
<1>9. ASSUME Ws!DisconnectEnd(c) PROVE SlotOK(s)'
  <2>1. /\ wsCall[c].at = "join" /\ wsCall'[c].at = "idle" /\ wsState'[s] = "DISCONNECTED" /\ inUse'[s] = FALSE
        /\ wsLate'[s] = (wsLate[s] \/ Ws!HasThread(s)) /\ wsTold'[s] = (IF listens[s] THEN "disconnected" ELSE wsTold[s])
        /\ UNCHANGED <<wsSock, websock, wsOpen, wsThread, listens, shared, wsOverrun>>
    BY <1>1, <1>2, <1>9 DEF Ws!DisconnectEnd, Ws!TellsEnd, Ws!Idle, WsTyped
  <2>2. /\ Works(wsCall[c], s) /\ ~Creates(wsCall[c], s)
        /\ ~Works(wsCall'[c], s) /\ ~Creates(wsCall'[c], s) /\ ~Closes(wsCall'[c], s)
    BY <1>1, <2>1 DEF Works, Creates, Closes
  <2>3. wsTold'[s] # "connected"
    BY <1>2, <2>1 DEF SlotOK, Shared
  <2>4. Shared(s)'
    BY <1>1, <1>2, <1>6, <2>1, <2>2, <2>3 DEF SlotOK, Shared, Ws!HasThread
  <2>5. ~wsOverrun[s] => Owned(s)'
    BY <1>1, <1>2, <1>6, <2>1, <2>2, <2>3 DEF SlotOK, Owned, Ws!HasThread
  <2> QED
    BY <2>1, <2>4, <2>5 DEF SlotOK
<1>10. SlotOK(s)'
  BY <1>7, <1>8, <1>9
<1> QED
  BY <1>2, <1>5, <1>10, SlotRests DEF WsInv

\* A caller disconnects a slot, which others may be disconnecting.
LEMMA WsDisconnectKeeps ==
  ASSUME WsInv, NEW c \in Callers, NEW s \in Slots, Ws!Disconnect(c, s)
  PROVE  WsInv'
<1> DEFINE v == [at |-> "close", slot |-> s]
<1>1. v \in WsCalls /\ v.at = "close" /\ v.slot = s
  BY DEF WsCalls, WsPoints
<1>2. /\ wsCall[c] = Ws!Idle /\ inUse[s] /\ wsCall' = [wsCall EXCEPT ![c] = v]
      /\ wsState' = [wsState EXCEPT ![s] = "CLOSING"]
      /\ shared' = [shared EXCEPT ![s] = shared[s] \/ Ws!Closing(s) # {}]
      /\ UNCHANGED <<inUse, wsSock, websock, wsOpen, wsThread, listens, wsTold, wsLate, wsOverrun>>
  BY DEF Ws!Disconnect
<1> HIDE DEF v
<1>3. WsTyped /\ SlotOK(s)
  BY DEF WsInv
<1>4. shared'[s] = (shared[s] \/ Ws!Closing(s) # {}) /\ \A x \in Slots \ {s} : shared'[x] = shared[x]
  BY <1>2, <1>3 DEF WsTyped
<1>a. /\ wsCall' \in [Callers -> WsCalls] /\ wsCall'[c] = v
      /\ \A d \in Callers \ {c} : wsCall'[d] = wsCall[d]
  BY <1>1, <1>2, <1>3, CallFacts
<1>5. WsTyped'
  BY <1>2, <1>3, <1>a DEF WsTyped
<1>6. ASSUME NEW x \in Slots \ {s} PROVE Rests(x)
  <2>1. ~Works(wsCall[c], x) /\ ~Creates(wsCall[c], x) /\ ~Closes(wsCall[c], x)
    BY <1>2 DEF Works, Creates, Closes, Ws!Idle
  <2>2. \A d \in Callers : /\ Works(wsCall'[d], x) <=> Works(wsCall[d], x)
                           /\ Creates(wsCall'[d], x) <=> Creates(wsCall[d], x)
                           /\ Closes(wsCall'[d], x) <=> Closes(wsCall[d], x)
    BY <1>1, <1>a, <2>1 DEF Works, Creates, Closes
  <2> QED
    BY <1>2, <1>3, <1>4, <2>2 DEF WsTyped, Rests
<1>7. SlotOK(s)'
  <2>1. /\ \A d \in Callers \ {c} : /\ Works(wsCall'[d], s) <=> Works(wsCall[d], s)
                                    /\ Creates(wsCall'[d], s) <=> Creates(wsCall[d], s)
                                    /\ Closes(wsCall'[d], s) <=> Closes(wsCall[d], s)
        /\ ~Works(wsCall[c], s) /\ ~Creates(wsCall[c], s) /\ ~Closes(wsCall[c], s)
        /\ Works(wsCall'[c], s) /\ ~Creates(wsCall'[c], s) /\ Closes(wsCall'[c], s)
    BY <1>1, <1>2, <1>a DEF Works, Creates, Closes, Ws!Idle
  <2>2. Ws!Closing(s) = {d \in Callers : Works(wsCall[d], s)}
    BY DEF Ws!Closing, Works
  <2>3. \A d \in Callers \ {c} : Works(wsCall[d], s) => shared'[s]
    BY <1>4, <2>2
  <2>4. shared[s] => shared'[s]
    BY <1>4
  <2>5. Shared(s)'
    BY <1>2, <1>3, <2>1, <2>3, <2>4 DEF SlotOK, Shared, Ws!HasThread
  <2>6. ~wsOverrun[s] => Owned(s)'
    BY <1>2, <1>3, <2>1 DEF SlotOK, Owned, Ws!HasThread
  <2> QED
    BY <1>2, <2>5, <2>6 DEF SlotOK
<1> QED
  BY <1>5, <1>6, <1>7, SlotRests DEF WsInv

LEMMA WsNext == ASSUME Slots \in SUBSET Nat, WsInv, [Ws!Next]_(Ws!vars) PROVE WsInv'
<1>1. CASE UNCHANGED Ws!vars
  <2>1. UNCHANGED <<inUse, wsState, wsSock, websock, wsOpen, wsThread, listens, wsTold, wsCall, wsLate, shared, wsOverrun>>
    BY <1>1 DEF Ws!vars, Ws!conn
  <2>2. WsTyped' /\ \A x \in Slots : Rests(x)
    BY <2>1 DEF WsInv, WsTyped, Rests, Works, Creates, Closes
  <2> QED
    BY <2>2, SlotRests DEF WsInv
<1> QED
  BY <1>1, WsThreadKeeps, WsConnectKeeps, WsCallKeeps, WsDisconnectKeeps DEF Ws!Next

\* A connection that nobody works on any more has left no socket open and was
\* told of its end, and a living thread keeps its slot, but where the slot was
\* given away, shared or not waited for: for any callers and slots.
THEOREM ConnectionsEnd == Ws!Spec => []Ws!ConnectionsSound
<1>1. Ws!Init => WsInv
  <2> SUFFICES ASSUME Ws!Init PROVE WsInv
    OBVIOUS
  <2>1. WsTyped
    <3>1. Ws!Idle \in WsCalls
      BY DEF WsCalls
    <3> QED
      BY <3>1 DEF Ws!Init, WsTyped, Places
  <2>2. ASSUME NEW s \in Slots PROVE SlotOK(s)
    <3>1. \A c \in Callers : ~Works(wsCall[c], s) /\ ~Creates(wsCall[c], s)
      BY DEF Ws!Init, Works, Creates, Ws!Idle
    <3>2. wsThread[s] = "none" /\ wsState[s] = "DISCONNECTED" /\ wsTold[s] = "none" /\ wsOpen = {}
      BY DEF Ws!Init
    <3> QED
      BY <3>1, <3>2 DEF SlotOK, Shared, Owned, Ws!HasThread
  <2> QED
    BY <2>1, <2>2 DEF WsInv
<1>2. WsInv => Ws!ConnectionsSound
  <2> SUFFICES ASSUME WsInv, NEW s \in Slots
               PROVE  /\ ~Ws!HasThread(s) /\ Ws!Closing(s) = {} /\ ~wsOverrun[s]
                           => /\ <<"tcp", s>> \notin wsOpen /\ <<"ws", s>> \notin wsOpen
                              /\ wsTold[s] # "connected"
                      /\ Ws!HasThread(s) /\ ~wsLate[s] /\ ~shared[s] => inUse[s]
    BY DEF Ws!ConnectionsSound, Ws!NoSocketLeft, Ws!ToldOfEnd, Ws!LivesInItsSlot
  <2>1. SlotOK(s) /\ wsThread[s] \in Places
    BY DEF WsInv, WsTyped
  <2>2. Ws!Closing(s) = {} => \A c \in Callers : ~Closes(wsCall[c], s)
    BY DEF Ws!Closing, Closes, Works
  <2> QED
    BY <2>1, <2>2 DEF SlotOK, Shared, Owned, Ws!HasThread
<1> QED
  BY <1>1, <1>2, WsNext, SlotsAssumption, PTL DEF Ws!Spec

-----------------------------------------------------------------------------
(* The web server.                                                         *)

Doing == {"idle", "open", "listen", "accept", "request", "upload", "reply"}
Session == [active : BOOLEAN, buffer : BOOLEAN, total : Nat, received : Nat]
Request == [kind : Web!Kinds \cup {"none", "refused"}, length : Nat, got : Nat,
            session : Nat, left : Nat, retries : Nat]
Statistics == [requests : Nat, handled : Nat, answered : Nat, reboots : Nat, bad : Nat]
WebTyped ==
  /\ webThread \in Doing /\ req \in Request /\ sessions \in [Web!Sessions -> Session]
  /\ webStats \in Statistics /\ webSock \in BOOLEAN

\* The session of an upload is its own, and has what was received so far.
Uploading ==
  /\ webThread = "request" => req.got = 0
  /\ webThread = "upload" =>
       /\ req.session \in Web!Sessions /\ sessions[req.session].active
       /\ sessions[req.session].received = req.got
       /\ sessions[req.session].total = req.length
       /\ req.got <= req.length

\* Where the socket is open, and who says so.
Listening ==
  /\ webState = "RUNNING" <=> webThread # "idle"
  /\ webThread = "idle" => ~webSock
  /\ webThread \in {"accept", "request", "upload", "reply"} => webSock

WebInv ==
  /\ WebTyped /\ Uploading /\ Listening
  /\ Web!SessionsReturned /\ Web!InstallsAreWhole /\ Web!HandledIsAnswered

\* Steps outside a request.
LEMMA OutsideKeeps ==
  ASSUME WebInv, webThread' \in Doing, webSock' \in BOOLEAN, Listening',
         webThread # "upload", webThread' \notin {"request", "upload"}, req' \in Request,
         UNCHANGED <<sessions, webStats>>
  PROVE  WebInv'
BY DEF WebInv, WebTyped, Uploading, Web!SessionsReturned, Web!InstallsAreWhole, Web!HandledIsAnswered

LEMMA ServesKeeps ==
  ASSUME WebInv, Web!Receive \/ Web!OpenSocket \/ Web!Listen \/ Web!ListenFails
  PROVE  WebInv'
<1>1. CASE Web!Receive
  BY <1>1, OutsideKeeps DEF Web!Receive, WebInv, WebTyped, Listening, Doing
<1>2. CASE Web!OpenSocket
  BY <1>2, OutsideKeeps DEF Web!OpenSocket, Web!Leave, WebInv, WebTyped, Listening, Doing
<1>3. CASE Web!Listen
  BY <1>3, OutsideKeeps DEF Web!Listen, WebInv, WebTyped, Listening, Doing
<1>4. CASE Web!ListenFails
  BY <1>4, OutsideKeeps DEF Web!ListenFails, Web!Leave, WebInv, WebTyped, Listening, Doing
<1> QED
  BY <1>1, <1>2, <1>3, <1>4

\* A connection is taken, and what was asked is counted.
LEMMA AcceptKeeps ==
  ASSUME WebInv, NEW k \in Web!Kinds, NEW n \in 1 .. MaxBody, Web!Accept(k, n)
  PROVE  WebInv'
<1>1. req' \in Request /\ req'.got = 0
  <2>1. n \in Nat /\ k \in Web!Kinds \cup {"none", "refused"}
    OBVIOUS
  <2>2. Web!NoRequest \in Request /\ Web!NoRequest.got = 0
    BY DEF Web!NoRequest, Request
  <2>3. req' = [Web!NoRequest EXCEPT !.kind = k, !.length = n]
    BY DEF Web!Accept
  <2> QED
    BY <2>1, <2>2, <2>3 DEF Request
<1>2. /\ webStats' \in Statistics /\ webStats'.bad = webStats.bad /\ webStats'.handled = webStats.handled
      /\ webStats'.answered = webStats.answered /\ webStats'.reboots = webStats.reboots
  BY DEF Web!Accept, WebInv, WebTyped, Statistics
<1> QED
  BY <1>1, <1>2 DEF Web!Accept, WebInv, WebTyped, Uploading, Listening, Web!SessionsReturned,
                    Web!InstallsAreWhole, Web!HandledIsAnswered, Doing

\* What answers a request without an upload.
LEMMA AnswerKeeps ==
  ASSUME WebInv,
         \/ Web!NothingReceived \/ Web!BadRequest \/ Web!HandlePage \/ Web!HandleApi \/ Web!HandleApps
         \/ Web!HandleCommand \/ Web!HandleFirmware \/ Web!InvalidLength
  PROVE  WebInv'
<1>1. \A n \in 1 .. MaxBody : n \in Nat
  OBVIOUS
<1>2. /\ webThread = "request" /\ webThread' \in {"accept", "reply"} /\ UNCHANGED <<webState, webSock, sessions, webStats>>
  BY DEF Web!NothingReceived, Web!BadRequest, Web!HandlePage, Web!HandleApi, Web!HandleApps, Web!HandleCommand,
         Web!HandleFirmware, Web!InvalidLength, Web!Answers, Web!CloseClient, Web!Reply
<1>3. req' \in Request
  <2>1. req \in Request
    BY DEF WebInv, WebTyped
  <2>2. Web!NoRequest \in Request
    BY DEF Web!NoRequest, Request
  <2>3. \A n \in Nat : [req EXCEPT !.left = n, !.retries = 0] \in Request
    BY <2>1 DEF Request
  <2>4. /\ [req EXCEPT !.kind = "refused", !.left = 1, !.retries = 0] \in Request
        /\ [req EXCEPT !.kind = "reboot", !.left = 1] \in Request
    BY <2>1 DEF Request, Web!Kinds
  <2>5. CASE Web!NothingReceived
    BY <2>2, <2>5 DEF Web!NothingReceived, Web!CloseClient
  <2>6. CASE Web!BadRequest \/ Web!HandleFirmware
    BY <2>4, <2>6 DEF Web!BadRequest, Web!HandleFirmware, Web!NotAnswered
  <2>7. CASE Web!HandlePage \/ Web!HandleApi \/ Web!HandleApps \/ Web!HandleCommand \/ Web!InvalidLength
    BY <1>1, <2>3, <2>7
    DEF Web!HandlePage, Web!HandleApi, Web!HandleApps, Web!HandleCommand, Web!InvalidLength, Web!Answers, Web!Reply
  <2> QED
    BY <2>5, <2>6, <2>7
<1>4. Listening' /\ webSock' \in BOOLEAN /\ webThread' \in Doing
  BY <1>2 DEF WebInv, WebTyped, Listening, Doing
<1> QED
  BY <1>2, <1>3, <1>4, OutsideKeeps

\* An upload gets the lowest session that is free.
LEMMA UploadBegins ==
  ASSUME WebInv, Web!InstallBegin
  PROVE  WebInv'
<1> DEFINE i == Web!Lowest(Web!FreeSessions)
           s == [active |-> TRUE, buffer |-> TRUE, total |-> req.length, received |-> 0]
<1>0. req \in Request
  BY DEF WebInv, WebTyped
<1>1. CASE Web!Reply(1) /\ UNCHANGED sessions
  <2>1. req' \in Request
    BY <1>0, <1>1 DEF Web!Reply, Request
  <2> QED
    BY <1>1, <2>1, OutsideKeeps DEF Web!InstallBegin, Web!Reply, WebInv, WebTyped, Listening, Doing
<1>2. CASE /\ Web!FreeSessions # {} /\ sessions' = [sessions EXCEPT ![i] = s]
           /\ req' = [req EXCEPT !.session = i] /\ webThread' = "upload"
  <2>1. i \in Web!FreeSessions
    <3>1. Web!FreeSessions \in SUBSET Nat
      BY DEF Web!FreeSessions, Web!Sessions
    <3> QED
      BY <1>2, <3>1, Least DEF Web!Lowest
  <2>2. i \in Web!Sessions /\ ~sessions[i].active
    BY <2>1 DEF Web!FreeSessions
  <2>3. s \in Session /\ s.active /\ s.buffer /\ s.received = 0 /\ s.total = req.length
    BY <1>0 DEF Session, Request
  <2>4. i \in Nat
    BY <2>2 DEF Web!Sessions
  <2>5. /\ req' \in Request /\ req'.session = i /\ req'.got = 0 /\ req'.length = req.length
        /\ 0 <= req.length
    BY <1>0, <1>2, <2>4 DEF Request, Web!InstallBegin, WebInv, Uploading
  <2> HIDE DEF i, s
  <2>6. /\ sessions' \in [Web!Sessions -> Session] /\ sessions'[i] = s
        /\ \A j \in Web!Sessions \ {i} : sessions'[j] = sessions[j]
    BY <1>2, <2>2, <2>3 DEF WebInv, WebTyped
  <2>7. WebTyped' /\ Listening' /\ UNCHANGED webStats
    BY <1>2, <2>5, <2>6 DEF Web!InstallBegin, WebInv, WebTyped, Listening, Doing
  <2>8. Uploading'
    BY <1>2, <2>2, <2>3, <2>5, <2>6 DEF Uploading
  <2>9. Web!SessionsReturned'
    BY <1>2, <2>2, <2>3, <2>5, <2>6 DEF Web!InstallBegin, WebInv, Web!SessionsReturned
  <2> QED
    BY <2>7, <2>8, <2>9 DEF WebInv, Web!InstallsAreWhole, Web!HandledIsAnswered
<1> QED
  BY <1>1, <1>2 DEF Web!InstallBegin

\* An upload that ends gives its session back.
LEMMA GivesBack ==
  ASSUME WebInv, webThread = "upload", webThread' = "reply", UNCHANGED <<webState, webSock>>,
         sessions' = [sessions EXCEPT ![req.session] = Web!Aborted(sessions[req.session])], Web!Reply(1),
         webStats' \in Statistics, webStats'.bad = webStats.bad, webStats'.handled = webStats.handled,
         webStats'.answered = webStats.answered, webStats'.reboots = webStats.reboots
  PROVE  WebInv'
<1> DEFINE s == Web!Aborted(sessions[req.session])
<1>1. req.session \in Web!Sessions /\ sessions[req.session] \in Session
  BY DEF WebInv, WebTyped, Uploading
<1>2. s \in Session /\ s.active = FALSE /\ s.buffer = FALSE
  BY <1>1 DEF Web!Aborted, Session
<1>3. req' \in Request
  BY DEF Web!Reply, WebInv, WebTyped, Request
<1> HIDE DEF s
<1>4. /\ sessions' \in [Web!Sessions -> Session] /\ sessions'[req.session] = s
      /\ \A j \in Web!Sessions \ {req.session} : sessions'[j] = sessions[j]
  BY <1>1, <1>2 DEF WebInv, WebTyped, s
<1>5. WebTyped' /\ Uploading' /\ Listening'
  BY <1>3, <1>4 DEF WebInv, WebTyped, Uploading, Listening, Doing
<1>6. Web!SessionsReturned'
  <2>1. ASSUME NEW j \in Web!Sessions \ {req.session} PROVE sessions[j].buffer = FALSE /\ sessions[j].active = FALSE
    BY DEF WebInv, WebTyped, Web!SessionsReturned, Session
  <2> QED
    BY <1>1, <1>2, <1>4, <2>1 DEF Web!SessionsReturned
<1> QED
  BY <1>5, <1>6 DEF WebInv, Web!InstallsAreWhole, Web!HandledIsAnswered

\* An upload goes on, or ends.
LEMMA UploadKeeps ==
  ASSUME WebInv, Web!UploadLost \/ Web!InstallEnd \/ \E n \in 1 .. MaxBody : Web!InstallChunk(n)
  PROVE  WebInv'
<1>0. req \in Request /\ webStats \in Statistics
  BY DEF WebInv, WebTyped
<1>1. CASE Web!UploadLost
  BY <1>0, <1>1, GivesBack DEF Web!UploadLost, Web!Reply
<1>2. CASE Web!InstallEnd
  <2> DEFINE s == sessions[req.session]
  <2>1. s.active /\ s.buffer /\ s.received = req.length
    BY <1>0, <1>2 DEF Web!InstallEnd, WebInv, Uploading, Web!SessionsReturned, Request
  <2>2. webStats' = [webStats EXCEPT !.bad = @ + 0]
    BY <1>2, <2>1 DEF Web!InstallEnd
  <2>3. /\ webStats' \in Statistics /\ webStats'.bad = webStats.bad /\ webStats'.handled = webStats.handled
        /\ webStats'.answered = webStats.answered /\ webStats'.reboots = webStats.reboots
    BY <1>0, <2>2 DEF Statistics
  <2> QED
    BY <1>2, <2>3, GivesBack DEF Web!InstallEnd, Web!Reply
<1>3. ASSUME NEW n \in 1 .. MaxBody, Web!InstallChunk(n) PROVE WebInv'
  <2> DEFINE i == req.session
             s == sessions[i]
  <2>1. i \in Web!Sessions /\ s \in Session /\ s.active /\ s.buffer /\ s.received = req.got /\ s.total = req.length
    BY <1>3 DEF Web!InstallChunk, WebInv, WebTyped, Uploading, Web!SessionsReturned
  <2>2. CASE ~Web!Fits(s, n)
    <3>1. /\ sessions' = [sessions EXCEPT ![i] = Web!Aborted(s)] /\ Web!Reply(1) /\ webThread = "upload"
          /\ UNCHANGED <<webState, webSock, webStats>>
      BY <1>3, <2>2 DEF Web!InstallChunk
    <3> QED
      BY <1>0, <3>1, GivesBack DEF Web!Reply
  <2>3. CASE Web!Fits(s, n)
    <3> DEFINE r == [s EXCEPT !.received = s.received + n]
    <3>1. /\ sessions' = [sessions EXCEPT ![i] = r] /\ req' = [req EXCEPT !.got = req.got + n]
          /\ webThread = "upload" /\ UNCHANGED <<webThread, webState, webSock, webStats>>
      BY <1>3, <2>3 DEF Web!InstallChunk
    <3>2. n \in Nat /\ s.received + n \in Nat /\ req.got + n \in Nat /\ s.received + n <= s.total
      BY <1>0, <2>1, <2>3 DEF Web!Fits, Session, Request
    <3>3. /\ r \in Session /\ r.active /\ r.buffer /\ r.received = req.got + n /\ r.total = req.length
      BY <2>1, <3>2 DEF Session
    <3>4. /\ req' \in Request /\ req'.session = i /\ req'.got = req.got + n /\ req'.length = req.length
          /\ req.got + n <= req.length
      BY <1>0, <2>1, <3>1, <3>2 DEF Request
    <3> HIDE DEF r, s
    <3>5. /\ sessions' \in [Web!Sessions -> Session] /\ sessions'[i] = r
          /\ \A j \in Web!Sessions \ {i} : sessions'[j] = sessions[j]
      BY <2>1, <3>1, <3>3 DEF WebInv, WebTyped
    <3>6. WebTyped' /\ Listening'
      BY <3>1, <3>4, <3>5 DEF WebInv, WebTyped, Listening
    <3>7. Uploading'
      BY <2>1, <3>1, <3>3, <3>4, <3>5 DEF Uploading
    <3>8. Web!SessionsReturned'
      BY <2>1, <3>1, <3>3, <3>4, <3>5 DEF WebInv, Web!SessionsReturned
    <3> QED
      BY <3>1, <3>6, <3>7, <3>8 DEF WebInv, Web!InstallsAreWhole, Web!HandledIsAnswered
  <2> QED
    BY <2>2, <2>3
<1> QED
  BY <1>1, <1>2, <1>3

\* An answer is sent, and counted when it is whole.
LEMMA ReplyKeeps ==
  ASSUME WebInv, Web!SendRetry \/ Web!Finish \/ \E n \in 1 .. MaxBody : Web!Send(n)
  PROVE  WebInv'
<1>0. req \in Request /\ webStats \in Statistics
  BY DEF WebInv, WebTyped
<1>1. CASE Web!SendRetry
  <2>1. req' \in Request
    BY <1>0, <1>1 DEF Web!SendRetry, Request
  <2> QED
    BY <1>1, <2>1, OutsideKeeps DEF Web!SendRetry, WebInv, WebTyped, Listening
<1>2. CASE Web!Finish
  <2> DEFINE h == IF Web!Counts(req) THEN 1 ELSE 0
             a == IF req.left = 0 THEN 1 ELSE 0
             b == IF req.kind = "reboot" THEN 1 ELSE 0
  <2>1. h \in {0, 1} /\ a \in {0, 1} /\ b \in {0, 1} /\ h <= a + b
    BY DEF Web!Counts
  <2>2. webStats' = [webStats EXCEPT !.handled = @ + h, !.answered = @ + a, !.reboots = @ + b]
    BY <1>2 DEF Web!Finish
  <2> HIDE DEF h, a, b
  <2> DEFINE x == webStats.handled + h
             y == webStats.answered + a
             z == webStats.reboots + b
  <2>a. x \in Nat /\ y \in Nat /\ z \in Nat
    BY <1>0, <2>1 DEF Statistics
  <2>b. webStats' = [webStats EXCEPT !.handled = x, !.answered = y, !.reboots = z]
    BY <2>2
  <2> HIDE DEF x, y, z
  <2>c. webStats' \in Statistics /\ webStats'.bad = webStats.bad /\ webStats'.handled = x
        /\ webStats'.answered = y /\ webStats'.reboots = z
    BY <1>0, <2>a, <2>b DEF Statistics
  <2>3. /\ webStats' \in Statistics /\ webStats'.bad = webStats.bad /\ webStats'.handled = webStats.handled + h
        /\ webStats'.answered = webStats.answered + a /\ webStats'.reboots = webStats.reboots + b
    BY <2>c DEF x, y, z
  <2>4. webStats'.handled <= webStats'.answered + webStats'.reboots
    BY <1>0, <2>1, <2>3 DEF WebInv, Web!HandledIsAnswered, Statistics
  <2>5. Web!NoRequest \in Request
    BY DEF Web!NoRequest, Request
  <2>6. WebTyped' /\ Uploading' /\ Listening'
    BY <1>2, <2>3, <2>5 DEF Web!Finish, Web!CloseClient, WebInv, WebTyped, Uploading, Listening, Doing
  <2> QED
    BY <1>2, <2>3, <2>4, <2>6
    DEF Web!Finish, Web!CloseClient, WebInv, Web!SessionsReturned, Web!InstallsAreWhole, Web!HandledIsAnswered
<1>3. ASSUME NEW n \in 1 .. MaxBody, Web!Send(n) PROVE WebInv'
  <2> DEFINE x == req.left - n
  <2>1. x \in Nat
    <3>1. req.left \in Nat /\ n \in 1 .. req.left
      BY <1>0, <1>3 DEF Web!Send, Request
    <3> QED
      BY <3>1
  <2> HIDE DEF x
  <2>2. req' \in Request
    <3>1. req' = [req EXCEPT !.left = x, !.retries = 0]
      BY <1>3 DEF Web!Send, x
    <3> QED
      BY <1>0, <2>1, <3>1 DEF Request
  <2> QED
    BY <1>3, <2>2, OutsideKeeps DEF Web!Send, WebInv, WebTyped, Listening
<1> QED
  BY <1>1, <1>2, <1>3

LEMMA WebNext == ASSUME WebInv, [Web!Next]_(Web!vars) PROVE WebInv'
<1>1. CASE UNCHANGED Web!vars
  BY <1>1 DEF Web!vars, WebInv, WebTyped, Uploading, Listening, Web!SessionsReturned, Web!InstallsAreWhole,
              Web!HandledIsAnswered
<1>2. ASSUME NEW m, Web!Notify(m) PROVE WebInv'
  BY <1>2 DEF Web!Notify, WebInv, WebTyped, Uploading, Listening, Web!SessionsReturned, Web!InstallsAreWhole,
              Web!HandledIsAnswered
<1>3. ASSUME NEW n, Web!AddLog(n) PROVE WebInv'
  BY <1>3 DEF Web!AddLog, WebInv, WebTyped, Uploading, Listening, Web!SessionsReturned, Web!InstallsAreWhole,
              Web!HandledIsAnswered
<1>4. CASE Web!Server
  BY <1>4, ServesKeeps, AcceptKeeps, AnswerKeeps, UploadBegins, UploadKeeps, ReplyKeeps DEF Web!Server
<1> QED
  BY <1>1, <1>2, <1>3, <1>4 DEF Web!Next

\* Every install session is returned however its upload ends, only whole bodies
\* are installed, the state is what the thread does, and what was counted was
\* answered: for any number of sessions and bodies of any length.
THEOREM UploadsReturnSessions == Web!Spec => []Web!WebSound
<1>1. Web!Init => WebInv
  <2> SUFFICES ASSUME Web!Init PROVE WebInv
    OBVIOUS
  <2>1. req \in Request /\ webStats \in Statistics
    BY DEF Web!Init, Web!NoRequest, Request, Statistics
  <2>2. /\ sessions \in [Web!Sessions -> Session]
        /\ \A i \in Web!Sessions : ~sessions[i].active /\ ~sessions[i].buffer
    BY DEF Web!Init, Web!Unused, Session
  <2>3. webThread = "idle" /\ webState = "STOPPED" /\ webSock = FALSE
        /\ webStats.bad = 0 /\ webStats.handled = 0 /\ webStats.answered = 0 /\ webStats.reboots = 0
    BY DEF Web!Init
  <2>4. WebTyped /\ Uploading /\ Listening
    BY <2>1, <2>2, <2>3 DEF WebTyped, Uploading, Listening, Doing
  <2>5. Web!SessionsReturned
    BY <2>2 DEF Web!SessionsReturned, Session
  <2>6. Web!InstallsAreWhole /\ Web!HandledIsAnswered
    BY <2>3 DEF Web!InstallsAreWhole, Web!HandledIsAnswered
  <2> QED
    BY <2>4, <2>5, <2>6 DEF WebInv
<1>2. WebInv => Web!WebSound
  BY DEF WebInv, WebTyped, Listening, Web!WebSound, Web!StateIsThread, Doing
<1> QED
  BY <1>1, <1>2, WebNext, PTL DEF Web!Spec

-----------------------------------------------------------------------------
(* The HTTP server.                                                        *)

HttpPoints == {"none", "socket", "bind", "listening", "accept", "receive", "find", "ended"}
HttpCalls == {"idle", "close", "forget", "join"}
HttpRequests == [path : Paths \cup {"none"}, at : Nat, answer : {"none", "route", "404"}]
HttpTyped ==
  /\ httpThread \in HttpPoints /\ httpCall \in [Callers -> HttpCalls]
  /\ routes \in Seq(Paths) /\ request \in HttpRequests
  /\ httpStarts \in Nat /\ (httpThread # "none" => httpStarts # 0)
  /\ serverFd \in Nat /\ httpOpen \subseteq Nat \ {0} /\ httpActive \in Int

\* As long as no thread is created over another or into a stop, there is at most
\* the socket of server_fd, a stop that has closed it leaves none, and the thread
\* is still before its listen() only when nobody stops it.
OneSocket ==
  /\ httpOpen \subseteq {serverFd}
  /\ (~Http!Alive \/ httpThread = "socket") => httpOpen = {}
  /\ \A c \in Callers : httpCall[c] \in {"forget", "join"} => httpOpen = {}
  /\ httpThread \in {"socket", "bind"} => \A c \in Callers : httpCall[c] = "idle"
  /\ httpThread \in {"socket", "bind"} => httpState = "STARTING"

\* The entries that the search has passed are others, unless they moved.
Passed ==
  ~shifted => /\ request.answer = "none" =>
                   \A i \in 1 .. Len(routes) : i < request.at => routes[i] # request.path
              /\ request.answer = "404" =>
                   \A i \in 1 .. Len(routes) : routes[i] # request.path

HttpInv ==
  /\ HttpTyped /\ Passed
  /\ ~httpOverrun => /\ OneSocket
                     /\ httpState = "STOPPED" /\ ~httpLate => ~Http!Alive
                     /\ httpActive = (IF client THEN 1 ELSE 0)
                     /\ client <=> httpThread \in {"receive", "find"}

\* What a step that leaves the table and the request alone has to show.
LEMMA RestPasses ==
  ASSUME Passed, UNCHANGED <<routes, request, shifted>> PROVE Passed'
BY DEF Passed

\* A step of a caller.
LEMMA HttpCallerKeeps ==
  ASSUME HttpInv, NEW c \in Callers,
         Http!Start(c) \/ Http!StopBegin(c) \/ Http!StopClose(c) \/ Http!StopForget(c) \/ Http!StopEnd(c)
  PROVE  HttpInv'
<1>1. Passed'
  BY RestPasses DEF HttpInv, Http!Start, Http!StopBegin, Http!StopClose, Http!StopForget, Http!StopEnd, Http!serving
<1>2. CASE Http!Start(c)
  <2>1. HttpTyped'
    BY <1>2 DEF HttpInv, HttpTyped, Http!Start, Http!serving, HttpPoints
  <2>2. ~httpOverrun' => ~httpOverrun /\ ~Http!Alive /\ \A d \in Callers : httpCall[d] = "idle"
    BY <1>2 DEF Http!Start
  <2> QED
    BY <1>1, <1>2, <2>1, <2>2 DEF HttpInv, Http!Start, Http!serving, OneSocket, Http!Alive
<1>3. CASE Http!StopBegin(c)
  <2>1. HttpTyped'
    BY <1>3 DEF HttpInv, HttpTyped, Http!StopBegin, Http!serving, HttpCalls
  <2> QED
    BY <1>1, <1>3, <2>1 DEF HttpInv, HttpTyped, Http!StopBegin, Http!serving, OneSocket, Http!Alive
<1>4. CASE Http!StopClose(c)
  <2>1. HttpTyped'
    BY <1>4 DEF HttpInv, HttpTyped, Http!StopClose, Http!Closed, Http!serving, HttpCalls
  <2> QED
    BY <1>1, <1>4, <2>1 DEF HttpInv, HttpTyped, Http!StopClose, Http!Closed, Http!serving, OneSocket, Http!Alive
<1>5. CASE Http!StopForget(c)
  <2>1. HttpTyped'
    BY <1>5 DEF HttpInv, HttpTyped, Http!StopForget, Http!serving, HttpCalls
  <2> QED
    BY <1>1, <1>5, <2>1 DEF HttpInv, HttpTyped, Http!StopForget, Http!serving, OneSocket, Http!Alive
<1>6. CASE Http!StopEnd(c)
  <2>1. HttpTyped'
    BY <1>6 DEF HttpInv, HttpTyped, Http!StopEnd, Http!serving, HttpCalls
  <2> QED
    BY <1>1, <1>6, <2>1 DEF HttpInv, HttpTyped, Http!StopEnd, Http!serving, OneSocket, Http!Alive
<1> QED
  BY <1>2, <1>3, <1>4, <1>5, <1>6

\* A step of the thread that is not about a request.
LEMMA HttpThreadKeeps ==
  ASSUME HttpInv, Http!ThreadSocket \/ Http!ThreadBind \/ Http!ThreadRuns \/ Http!Accept \/ Http!ThreadEnds
  PROVE  HttpInv'
<1>1. Passed'
  BY RestPasses DEF HttpInv, Http!ThreadSocket, Http!ThreadBind, Http!ThreadRuns, Http!Accept, Http!ThreadEnds, Http!serving
<1>2. CASE Http!ThreadSocket
  <2>1. HttpTyped' /\ httpStarts # 0
    BY <1>2 DEF HttpInv, HttpTyped, Http!ThreadSocket, Http!serving, HttpPoints
  <2> QED
    BY <1>1, <1>2, <2>1 DEF HttpInv, HttpTyped, Http!ThreadSocket, Http!serving, OneSocket, Http!Alive
<1>3. CASE Http!ThreadBind
  <2>1. HttpTyped'
    BY <1>3 DEF HttpInv, HttpTyped, Http!ThreadBind, Http!Refused, Http!serving, HttpPoints
  <2> QED
    BY <1>1, <1>3, <2>1 DEF HttpInv, HttpTyped, Http!ThreadBind, Http!Refused, Http!serving, OneSocket, Http!Alive
<1>4. CASE Http!ThreadRuns
  <2>1. HttpTyped'
    BY <1>4 DEF HttpInv, HttpTyped, Http!ThreadRuns, Http!serving, HttpPoints
  <2> QED
    BY <1>1, <1>4, <2>1 DEF HttpInv, HttpTyped, Http!ThreadRuns, Http!serving, OneSocket, Http!Alive
<1>5. CASE Http!Accept
  <2>1. HttpTyped'
    BY <1>5 DEF HttpInv, HttpTyped, Http!Accept, HttpPoints
  <2> QED
    BY <1>1, <1>5, <2>1 DEF HttpInv, HttpTyped, Http!Accept, OneSocket, Http!Alive
<1>6. CASE Http!ThreadEnds
  <2>1. HttpTyped'
    BY <1>6 DEF HttpInv, HttpTyped, Http!ThreadEnds, Http!Closed, Http!serving, HttpPoints
  <2> QED
    BY <1>1, <1>6, <2>1 DEF HttpInv, HttpTyped, Http!ThreadEnds, Http!Closed, Http!serving, OneSocket, Http!Alive
<1> QED
  BY <1>2, <1>3, <1>4, <1>5, <1>6

\* A step of a request.
LEMMA RequestKeeps ==
  ASSUME HttpInv, Http!FindRoute \/ Http!NotFound \/ Http!CloseClient \/ \E p \in Paths : Http!Receive(p)
  PROVE  HttpInv'
<1>0. HttpTyped /\ Passed /\ request.at \in Nat
  BY DEF HttpInv, HttpTyped, HttpRequests
<1>1. CASE Http!FindRoute
  <2>1. CASE routes[request.at] = request.path
    <3>1. request'.answer = "route" /\ request' \in HttpRequests
      BY <1>0, <1>1, <2>1 DEF Http!FindRoute, HttpTyped, HttpRequests
    <3> QED
      BY <1>0, <1>1, <3>1 DEF Http!FindRoute, HttpInv, HttpTyped, Passed, OneSocket, Http!Alive, Http!server
  <2>2. CASE routes[request.at] # request.path
    <3>1. /\ request' \in HttpRequests /\ request'.at = request.at + 1
          /\ request'.path = request.path /\ request'.answer = "none" /\ request.answer = "none"
      BY <1>0, <1>1, <2>2 DEF Http!FindRoute, HttpTyped, HttpRequests
    <3>2. Passed'
      BY <1>0, <1>1, <2>2, <3>1 DEF Http!FindRoute, Passed, HttpTyped
    <3> QED
      BY <1>0, <1>1, <3>1, <3>2 DEF Http!FindRoute, HttpInv, HttpTyped, OneSocket, Http!Alive, Http!server
  <2> QED
    BY <2>1, <2>2
<1>2. CASE Http!NotFound
  <2>1. /\ request' \in HttpRequests /\ request'.path = request.path /\ request'.answer = "404"
        /\ request.answer = "none" /\ request.at > Len(routes)
    BY <1>0, <1>2 DEF Http!NotFound, Http!PastEnd, HttpTyped, HttpRequests
  <2>2. Passed'
    BY <1>0, <1>2, <2>1 DEF Http!NotFound, Passed, HttpTyped
  <2> QED
    BY <1>0, <1>2, <2>1, <2>2 DEF Http!NotFound, HttpInv, HttpTyped, OneSocket, Http!Alive, Http!server
<1>3. CASE Http!CloseClient
  <2>1. request' \in HttpRequests /\ request'.answer = "none" /\ request'.at = 0
    BY <1>3 DEF Http!CloseClient, Http!NoRequest, HttpRequests
  <2>2. Passed' /\ HttpTyped'
    BY <1>0, <1>3, <2>1 DEF Http!CloseClient, Passed, HttpTyped, Http!Left, HttpPoints
  <2> QED
    BY <1>0, <1>3, <2>2 DEF Http!CloseClient, Http!Left, HttpInv, HttpTyped, OneSocket, Http!Alive
<1>4. ASSUME NEW p \in Paths, Http!Receive(p) PROVE HttpInv'
  <2>1. request' \in HttpRequests /\ request'.answer = "none" /\ request'.at = 1
    BY <1>4 DEF Http!Receive, HttpRequests
  <2>2. HttpTyped'
    BY <1>0, <1>4, <2>1 DEF Http!Receive, HttpTyped, HttpPoints
  <2>3. Passed'
    <3>1. routes' = routes /\ \A i \in 1 .. Len(routes) : ~(i < 1)
      BY <1>0, <1>4 DEF Http!Receive, HttpTyped
    <3> QED
      BY <2>1, <3>1 DEF Passed
  <2> QED
    BY <1>0, <1>4, <2>2, <2>3 DEF Http!Receive, HttpInv, HttpTyped, OneSocket, Http!Alive
<1> QED
  BY <1>1, <1>2, <1>3, <1>4

\* An entry is taken out of the table, and the rest is a table again.
LEMMA TableRemains ==
  ASSUME NEW s \in Seq(Paths), NEW p PROVE Http!RemoveFirst(s, p) \in Seq(Paths)
<1> DEFINE I == {i \in 1 .. Len(s) : s[i] = p}
<1>1. CASE I = {}
  BY <1>1 DEF Http!RemoveFirst
<1>2. CASE I # {}
  <2>1. I \subseteq Nat /\ I # {}
    BY <1>2
  <2>2. \E x \in I : \A y \in I : x <= y
    BY <2>1, Least
  <2>4. Http!Min(I) \in I
    BY <2>2 DEF Http!Min
  <2>5. Http!RemoveFirst(s, p) = Http!RemoveAt(s, Http!Min(I))
    BY <2>1 DEF Http!RemoveFirst, Http!SelectInSeq
  <2>6. ASSUME NEW i \in 1 .. Len(s) PROVE Http!RemoveAt(s, i) \in Seq(Paths)
    BY DEF Http!RemoveAt
  <2> QED
    BY <2>4, <2>5, <2>6
<1> QED
  BY <1>1, <1>2

\* The table changes: what was searched tells nothing any more.
LEMMA RoutesKeep ==
  ASSUME HttpInv, NEW p \in Paths, Http!RegisterRoute(p) \/ Http!UnregisterRoute(p)
  PROVE  HttpInv'
<1>1. routes' \in Seq(Paths) /\ shifted' = TRUE
  BY TableRemains DEF HttpInv, HttpTyped, Http!RegisterRoute, Http!UnregisterRoute
<1>2. UNCHANGED <<Http!server, client, httpActive, request, httpCall, httpStarts, httpLate, httpOverrun>>
  BY DEF Http!RegisterRoute, Http!UnregisterRoute
<1> QED
  BY <1>1, <1>2 DEF HttpInv, HttpTyped, Passed, OneSocket, Http!Alive, Http!server

LEMMA HttpNext == HttpInv /\ [Http!Next]_(Http!vars) => HttpInv'
<1> SUFFICES ASSUME HttpInv, [Http!Next]_(Http!vars) PROVE HttpInv'
  OBVIOUS
<1>1. CASE UNCHANGED Http!vars
  BY <1>1, RestPasses DEF Http!vars, Http!server, Http!serving, HttpInv, HttpTyped, OneSocket, Http!Alive
<1> QED
  BY <1>1, HttpCallerKeeps, HttpThreadKeeps, RequestKeeps, RoutesKeep DEF Http!Next

\* A server that was stopped, by a call that waited for its thread, listens on
\* no socket and runs no thread, counts its connections and finds its routes,
\* unless one was started over another: for any callers and routes.
THEOREM StoppedServersAreSilent == Http!Spec => []Http!ServerSound
<1>1. Http!Init => HttpInv
  <2> SUFFICES ASSUME Http!Init PROVE HttpInv
    OBVIOUS
  <2>1. request \in HttpRequests /\ request.at = 0 /\ request.answer = "none"
    BY DEF Http!Init, Http!NoRequest, HttpRequests
  <2>2. HttpTyped
    <3>1. routes \in Seq(Paths)
      BY DEF Http!Init
    <3>2. httpCall \in [Callers -> HttpCalls]
      BY DEF Http!Init, HttpCalls
    <3> QED
      BY <2>1, <3>1, <3>2 DEF Http!Init, HttpTyped, HttpPoints
  <2>3. Passed
    BY <2>1 DEF Http!Init, Passed
  <2> QED
    BY <2>2, <2>3 DEF Http!Init, HttpInv, OneSocket, Http!Alive
<1>2. HttpInv => Http!ServerSound
  BY DEF HttpInv, HttpTyped, Passed, OneSocket, Http!ServerSound, Http!StoppedIsSilent, Http!CountsConnections,
         Http!RegisteredIsFound, Http!ToSet
<1> QED
  BY <1>1, <1>2, HttpNext, PTL DEF Http!Spec

-----------------------------------------------------------------------------
(* The components side by side: what is proved of one holds of it beside the *)
(* others, with which it shares no variable.                                 *)

\* The three keyboards' characters are made of their keys.
LEMMA KeyboardsOK == HidKeys!CharsOK /\ HidFull!CharsOK /\ Hid!CharsOK
BY DEF HidKeys!CharsOK, HidFull!CharsOK, Hid!CharsOK

\* A step is one of the component in focus and leaves the others alone.
LEMMA ConnectivitySteps ==
  ASSUME [ConnectivityNext]_connectivityVars
  PROVE  /\ focus' = focus
         /\ focus = "keys" => [HidKeys!Next]_(HidKeys!vars)
         /\ focus = "full" => [HidFull!Next]_(HidFull!vars)
         /\ focus = "hid" => [Hid!Next]_(Hid!vars)
         /\ [Usb!Next]_(Usb!vars)
         /\ [Bt!Next]_(Bt!vars)
         /\ [Transfer!Next]_(Transfer!vars)
         /\ [Cloud!Next]_(Cloud!vars)
         /\ [Link!Next]_(Link!vars)
         /\ [Ws!Next]_(Ws!vars)
         /\ [Web!Next]_(Web!vars)
         /\ [Http!Next]_(Http!vars)
<1>1. focus' = focus
  BY DEF ConnectivityNext, connectivityVars
<1>2. focus = "keys" => [HidKeys!Next]_(HidKeys!vars)
  BY DEF ConnectivityNext, ConnectivityRests, connectivityVars, hidVars, HidKeys!vars
<1>3. focus = "full" => [HidFull!Next]_(HidFull!vars)
  BY DEF ConnectivityNext, ConnectivityRests, connectivityVars, hidVars, HidFull!vars
<1>4. focus = "hid" => [Hid!Next]_(Hid!vars)
  BY DEF ConnectivityNext, ConnectivityRests, connectivityVars, hidVars, Hid!vars
<1>5. Usb!Next \/ UNCHANGED usbVars
  BY DEF ConnectivityNext, connectivityVars
<1>6. Bt!Next \/ UNCHANGED btVars
  BY DEF ConnectivityNext, connectivityVars
<1>7. Transfer!Next \/ UNCHANGED transferVars
  BY DEF ConnectivityNext, connectivityVars
<1>8. Cloud!Next \/ UNCHANGED cloudVars
  BY DEF ConnectivityNext, connectivityVars
<1>9. Link!Next \/ UNCHANGED linkVars
  BY DEF ConnectivityNext, connectivityVars
<1>11. Ws!Next \/ UNCHANGED wsVars
  BY DEF ConnectivityNext, ConnectivityRests, connectivityVars
<1>12. Web!Next \/ UNCHANGED webVars
  BY DEF ConnectivityNext, connectivityVars
<1>13. Http!Next \/ UNCHANGED httpVars
  BY DEF ConnectivityNext, connectivityVars
<1>14. /\ UNCHANGED wsVars => UNCHANGED Ws!vars
       /\ UNCHANGED webVars => UNCHANGED Web!vars
       /\ UNCHANGED httpVars => UNCHANGED Http!vars
  BY DEF wsVars, webVars, httpVars, Ws!vars, Ws!conn, Web!vars, Http!vars, Http!server, Http!serving
<1>10. /\ UNCHANGED usbVars => UNCHANGED Usb!vars
       /\ UNCHANGED btVars => UNCHANGED Bt!vars
       /\ UNCHANGED transferVars => UNCHANGED Transfer!vars
       /\ UNCHANGED cloudVars => UNCHANGED Cloud!vars
       /\ UNCHANGED linkVars => UNCHANGED Link!vars
  BY DEF usbVars, btVars, transferVars, cloudVars, linkVars, Usb!vars, Bt!vars, Transfer!vars,
         Cloud!vars, Cloud!transfers, Link!vars, Link!links, Link!tables, Link!counters
<1> QED
  BY <1>1, <1>2, <1>3, <1>4, <1>5, <1>6, <1>7, <1>8, <1>9, <1>10, <1>11, <1>12, <1>13, <1>14

\* No key is stuck on any of the three keyboards, and the USB manager shows its
\* host unless a callback was overtaken, beside the other components
\* (hid_manager.c, usb_manager.c).
THEOREM ConnectivityHid == ConnectivitySpec => []HidSound
<1>1. ConnectivityInit => /\ focus = "keys" => HidKeys!Init
                          /\ focus = "full" => HidFull!Init
                          /\ focus = "hid" => Hid!Init
                          /\ Usb!Init
  BY DEF ConnectivityInit
<1>2. [ConnectivityNext]_connectivityVars =>
        /\ (focus = "keys")' <=> focus = "keys"
        /\ (focus = "full")' <=> focus = "full"
        /\ (focus = "hid")' <=> focus = "hid"
        /\ focus = "keys" => [HidKeys!Next]_(HidKeys!vars)
        /\ focus = "full" => [HidFull!Next]_(HidFull!vars)
        /\ focus = "hid" => [Hid!Next]_(Hid!vars)
        /\ [Usb!Next]_(Usb!vars)
  BY ConnectivitySteps
<1>3. HidKeys!Spec => []HidKeys!HidSound
  BY KeyboardsOK, HidKeys!KeysAreReleased
<1>4. HidFull!Spec => []HidFull!HidSound
  BY KeyboardsOK, HidFull!KeysAreReleased
<1>5. Hid!Spec => []Hid!HidSound
  BY KeyboardsOK, Hid!KeysAreReleased
<1>6. Usb!Spec => []Usb!UsbSound
  BY UsbShowsTheHost
<1>7. /\ focus = "keys" => HidKeys!HidSound
      /\ focus = "full" => HidFull!HidSound
      /\ focus = "hid" => Hid!HidSound
      /\ Usb!UsbSound
      => HidSound
  BY DEF HidSound
<1> QED
  BY <1>1, <1>2, <1>3, <1>4, <1>5, <1>6, <1>7, PTL
  DEF ConnectivitySpec, HidKeys!Spec, HidFull!Spec, Hid!Spec, Usb!Spec

\* The one connection is held and, unless a call was overtaken, shown as it is,
\* and what is installed over it is the whole app, beside the other components
\* (bt_manager.c, bt_app_transfer.c).
THEOREM ConnectivityBluetooth == ConnectivitySpec => []BluetoothSound
<1>1. ConnectivityInit => Bt!Init /\ Transfer!Init
  BY DEF ConnectivityInit
<1>2. [ConnectivityNext]_connectivityVars =>
        [Bt!Next]_(Bt!vars) /\ [Transfer!Next]_(Transfer!vars)
  BY ConnectivitySteps
<1>3. Bt!LinkSound /\ Transfer!TransferSound => BluetoothSound
  BY DEF BluetoothSound
<1>4. Bt!Spec => []Bt!LinkSound
  BY OneConnectionIsHeld
<1>5. Transfer!Spec => []Transfer!TransferSound
  BY WholeAppsAreInstalled
<1> QED
  BY <1>1, <1>2, <1>3, <1>4, <1>5, PTL DEF ConnectivitySpec, Bt!Spec, Transfer!Spec

\* A transfer is its source's and counts what its handler got, and the state
\* handler was told the state there is, beside the other components
\* (cloud_client.c).
THEOREM ConnectivityCloud == ConnectivitySpec => []TransferIsOwn
<1>1. ConnectivityInit => Cloud!Init /\ Link!Init
  BY DEF ConnectivityInit
<1>2. [ConnectivityNext]_connectivityVars =>
        [Cloud!Next]_(Cloud!vars) /\ [Link!Next]_(Link!vars)
  BY ConnectivitySteps
<1>3. Cloud!TransferIsOwn /\ Link!ReportsSound => TransferIsOwn
  BY DEF TransferIsOwn
<1>4. Cloud!Spec => []Cloud!TransferIsOwn
  BY TransfersAreTheirSources
<1>5. Link!Spec => []Link!ReportsSound
  BY ReportsAreTrue
<1> QED
  BY <1>1, <1>2, <1>3, <1>4, <1>5, PTL DEF ConnectivitySpec, Cloud!Spec, Link!Spec

\* The web server returns its sessions, installs whole bodies and counts its
\* answers, and a stopped HTTP server is silent unless the stop met a thread
\* that was just starting, beside the other components (web_server.c,
\* http_server.c).
THEOREM ConnectivityServers == ConnectivitySpec => []ServersSound
<1>1. ConnectivityInit => Web!Init /\ Http!Init
  BY DEF ConnectivityInit
<1>2. [ConnectivityNext]_connectivityVars =>
        [Web!Next]_(Web!vars) /\ [Http!Next]_(Http!vars)
  BY ConnectivitySteps
<1>3. Web!WebSound /\ Http!ServerSound => ServersSound
  BY DEF ServersSound
<1>4. Web!Spec => []Web!WebSound
  BY UploadsReturnSessions
<1>5. Http!Spec => []Http!ServerSound
  BY StoppedServersAreSilent
<1> QED
  BY <1>1, <1>2, <1>3, <1>4, <1>5, PTL DEF ConnectivitySpec, Web!Spec, Http!Spec
=============================================================================
