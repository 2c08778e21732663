----------------------------- MODULE OtaClients -----------------------------
(***************************************************************************)
(* The clients of the OTA manager, on its promise (FirmwareSlot.tla): the  *)
(* web server's firmware upload, the Bluetooth OTA service and the cloud   *)
(* OTA handler.  Nothing gives one of them the slot: each may start over,  *)
(* write into and finalize what another one began.                         *)
(*                                                                         *)
(* A call of the OTA API is one step, answered OTA_OK or with an error;    *)
(* after a refused flash operation or a timeout an error says little about *)
(* what was done (OtaManager.tla has requests carried out even later).     *)
(* Cloud messages are handled one after the other, under client.mutex of   *)
(* the cloud client; the cloud OTA API runs beside them, partly unlocked.  *)
(*                                                                         *)
(* A firmware has Size units, one in a chunk, and unit 1 has the magic.    *)
(* owner, orderly and told are history.  Operations whose name ends in Bug *)
(* are mutations.                                                          *)
(***************************************************************************)
EXTENDS Integers, Sequences, SequencesExt

CONSTANTS
  Size,      \* units of a firmware
  Capacity,  \* units in the slot: more than Size
  NoClient,  \* nobody had the slot for himself
  MaxStarts, \* bound: updates started
  MaxFaults  \* bound: calls that fail or time out

Clients == {"web", "ble", "cloud"}

VARIABLES
  state, expected, open, image, pending, \* the OTA manager
  web,     \* handle_firmware_upload: where it is, total_written
  ble,     \* ble_ota, and whether ota_data_write is about to finalize
  dl,      \* ota_handler, with the chunk handle_fw_chunk has let in
  apply,   \* where cloud_ota_apply is
  reboot,  \* a reboot was asked for
  owner,   \* history: the client nobody disturbed since its start
  orderly, \* history: clients whose units came whole and in order
  told,    \* history: clients that reported success
  starts, faults

slotVars == <<state, expected, open, image, pending>>
vars == <<slotVars, web, ble, dl, apply, reboot, owner, orderly, told, starts, faults>>

IsMagic(unit) == unit[2] = 1
Slot == INSTANCE FirmwareSlot WITH IsFirst <- IsMagic, Sizes <- {Size, Size + 1}

Whole(c) == [i \in 1 .. Size |-> <<c, i>>]

-----------------------------------------------------------------------------
(* Calls of the OTA API and their answers.                                 *)

Fault == faults < MaxFaults /\ faults' = faults + 1
NoFault == UNCHANGED faults

Kept(c) == IF owner = c THEN c ELSE NoClient

StartOk(c, size) ==
  /\ Slot!Start(size)
  /\ owner' = c
  /\ NoFault
StartError(c, size) ==
  /\ \/ Slot!StartFails
     \/ Slot!Start(size)
     \/ UNCHANGED slotVars
  /\ owner' = c
  /\ Fault

WriteOk(c, unit) ==
  /\ Slot!Take(<<unit>>)
  /\ owner' = Kept(c)
  /\ NoFault
WriteError(c, unit) ==
  \/ /\ ~Slot!Accepts(1)
     /\ UNCHANGED <<slotVars, owner>>
     /\ NoFault
  \/ /\ Slot!Take(<<unit>>) \/ UNCHANGED slotVars
     /\ owner' = Kept(c)
     /\ Fault

FinalizeOk(c) ==
  /\ Slot!Complete
  /\ owner' = Kept(c)
  /\ NoFault
FinalizeError(c) ==
  /\ owner' = Kept(c)
  /\ \/ ~Slot!Finalizable /\ Slot!Fail /\ NoFault
     \/ Fault /\ (Slot!Fail \/ Slot!Complete \/ UNCHANGED slotVars)

\* The clients ignore the answer of ota_abort_update.
AbortUpdate(c) ==
  /\ owner' = Kept(c)
  /\ \/ Slot!Abort /\ NoFault
     \/ UNCHANGED slotVars /\ Fault

NewUpdate(c) ==
  /\ starts < MaxStarts /\ starts' = starts + 1
  /\ told' = told \ {c}

-----------------------------------------------------------------------------
(* The web server's upload: handle_firmware_upload.                        *)

OnlyWeb == UNCHANGED <<ble, dl, apply, orderly>>

\* The expected size is that of the body, which has the boundary as well.
TotalWritten == 0
WebStart ==
  /\ web.pc = "idle"
  /\ NewUpdate("web")
  /\ \/ StartOk("web", Size + 1) /\ web' = [pc |-> "upload", written |-> TotalWritten]
     \/ StartError("web", Size + 1) /\ UNCHANGED web
  /\ orderly' = orderly \cup {"web"}
  /\ UNCHANGED <<ble, dl, apply, reboot>>

\* A boundary that arrives in two pieces is not found and is written, too.
WebWrite ==
  LET unit == <<"web", IF web.written < Size THEN web.written + 1 ELSE 0>> IN
  /\ web.pc = "upload"
  /\ \/ /\ WriteOk("web", unit)
        /\ web' = [pc |-> IF web.written < Size THEN "upload" ELSE "finalize",
                   written |-> web.written + 1]
     \/ WriteError("web", unit) /\ web' = [web EXCEPT !.pc = "abort"]
  /\ OnlyWeb /\ UNCHANGED <<reboot, told, starts>>

\* The closing boundary is found, or the connection was closed.
WebEnd ==
  /\ web.pc = "upload"
  /\ web' = [web EXCEPT !.pc = IF web.written = 0 THEN "abort" ELSE "finalize"]
  /\ orderly' = IF web.written < Size THEN orderly \ {"web"} ELSE orderly
  /\ UNCHANGED <<slotVars, ble, dl, apply, reboot, owner, told, starts, faults>>

\* recv fails or times out.
WebLost ==
  /\ web.pc = "upload"
  /\ web' = [web EXCEPT !.pc = "abort"]
  /\ OnlyWeb /\ UNCHANGED <<slotVars, reboot, owner, told, starts, faults>>

WebAbort ==
  /\ web.pc = "abort"
  /\ AbortUpdate("web")
  /\ web' = [web EXCEPT !.pc = "idle"]
  /\ OnlyWeb /\ UNCHANGED <<reboot, told, starts>>

WebFinalize ==
  /\ web.pc = "finalize"
  /\ web' = [web EXCEPT !.pc = "idle"]
  /\ \/ FinalizeOk("web") /\ told' = told \cup {"web"} /\ reboot' = TRUE
     \/ FinalizeError("web") /\ UNCHANGED <<told, reboot>>
  /\ OnlyWeb /\ UNCHANGED starts

-----------------------------------------------------------------------------
(* The Bluetooth service: ota_control_write and ota_data_write.            *)

OnlyBle == UNCHANGED <<web, dl, apply, reboot, orderly>>

BleStart ==
  /\ ~ble.full
  /\ NewUpdate("ble")
  /\ \/ /\ StartOk("ble", Size)
        /\ ble' = [state |-> "RECEIVING", received |-> 0, full |-> FALSE]
     \/ StartError("ble", Size) /\ ble' = [ble EXCEPT !.state = "ERROR"]
  /\ orderly' = orderly \cup {"ble"}
  /\ UNCHANGED <<web, dl, apply, reboot>>

BleAbort ==
  /\ ~ble.full
  /\ AbortUpdate("ble")
  /\ ble' = [state |-> "READY", received |-> 0, full |-> FALSE]
  /\ told' = told \ {"ble"}
  /\ OnlyBle /\ UNCHANGED starts

\* The link delivers the units in order.
FullBug(n) == n >= Size - 1  \* mutation: one unit early
Full(n) == n >= Size
BleData ==
  LET unit == <<"ble", ble.received + 1>> IN
  /\ ble.state = "RECEIVING" /\ ~ble.full
  /\ \/ /\ WriteOk("ble", unit)
        /\ ble' = [ble EXCEPT !.received = @ + 1, !.full = Full(ble.received + 1)]
     \/ WriteError("ble", unit) /\ ble' = [ble EXCEPT !.state = "ERROR"]
  /\ OnlyBle /\ UNCHANGED <<told, starts>>

BleFinalize ==
  /\ ble.full
  /\ \/ /\ FinalizeOk("ble")
        /\ ble' = [ble EXCEPT !.state = "READY", !.full = FALSE]
        /\ told' = told \cup {"ble"}
     \/ /\ FinalizeError("ble")
        /\ ble' = [ble EXCEPT !.state = "ERROR", !.full = FALSE]
        /\ UNCHANGED told
  /\ OnlyBle /\ UNCHANGED starts

-----------------------------------------------------------------------------
(* The cloud OTA handler: messages, handled with ota_handler.mutex.        *)

OnlyCloud == UNCHANGED <<web, ble, reboot>>
NoMessage == dl.chunk = 0

FwAvailable ==
  /\ NoMessage
  /\ dl' = [dl EXCEPT !.state = "AVAILABLE"]
  /\ OnlyCloud /\ UNCHANGED <<slotVars, apply, owner, orderly, told, starts, faults>>

Received == 0
FwMetadata ==
  /\ NoMessage
  /\ NewUpdate("cloud")
  /\ \E s \in {"RECEIVING", "ERROR"} :
       /\ IF s = "RECEIVING" THEN StartOk("cloud", Size) ELSE StartError("cloud", Size)
       /\ dl' = [state |-> s, received |-> Received, chunk |-> 0]
  /\ orderly' = orderly \cup {"cloud"}
  /\ OnlyCloud /\ UNCHANGED apply

\* handle_fw_chunk reads the state before it takes the mutex.
FwChunkCheck ==
  /\ NoMessage /\ dl.state = "RECEIVING"
  /\ \E i \in 1 .. Size : dl' = [dl EXCEPT !.chunk = i]
  /\ OnlyCloud /\ UNCHANGED <<slotVars, apply, owner, orderly, told, starts, faults>>

\* Its offset and its source are not looked at.
FwChunk ==
  /\ ~NoMessage
  /\ \/ /\ WriteOk("cloud", <<"cloud", dl.chunk>>)
        /\ dl' = [dl EXCEPT !.received = @ + 1, !.chunk = 0]
     \/ /\ WriteError("cloud", <<"cloud", dl.chunk>>)
        /\ dl' = [dl EXCEPT !.state = "ERROR", !.chunk = 0]
  /\ orderly' = IF dl.chunk = dl.received + 1 THEN orderly ELSE orderly \ {"cloud"}
  /\ OnlyCloud /\ UNCHANGED <<apply, told, starts>>

\* What was received is not compared with what was announced.
FwComplete ==
  /\ NoMessage /\ dl.state = "RECEIVING"
  /\ dl' = [dl EXCEPT !.state = "READY"]
  /\ told' = told \cup {"cloud"}
  /\ orderly' = IF dl.received < Size THEN orderly \ {"cloud"} ELSE orderly
  /\ OnlyCloud /\ UNCHANGED <<slotVars, apply, owner, starts, faults>>

-----------------------------------------------------------------------------
(* The cloud OTA API; only cloud_ota_cancel takes the mutex.               *)

CloudCheck ==
  /\ dl' = [dl EXCEPT !.state = "CHECKING"]
  /\ OnlyCloud /\ UNCHANGED <<slotVars, apply, owner, orderly, told, starts, faults>>

\* Chunks are let in from here on, whatever the slot holds.
CloudDownload ==
  /\ dl.state # "RECEIVING"
  /\ dl' = [dl EXCEPT !.state = "RECEIVING"]
  /\ orderly' = orderly \ {"cloud"}
  /\ told' = told \ {"cloud"}
  /\ OnlyCloud /\ UNCHANGED <<slotVars, apply, owner, starts, faults>>

CloudCancel ==
  /\ IF dl.state = "RECEIVING" THEN AbortUpdate("cloud")
                               ELSE UNCHANGED <<slotVars, owner, faults>>
  /\ dl' = [dl EXCEPT !.state = "IDLE"]
  /\ told' = told \ {"cloud"}
  /\ OnlyCloud /\ UNCHANGED <<apply, orderly, starts>>

CloudApply ==
  /\ apply = "idle" /\ dl.state = "READY"
  /\ dl' = [dl EXCEPT !.state = "APPLYING"]
  /\ apply' = "finalize"
  /\ OnlyCloud /\ UNCHANGED <<slotVars, owner, orderly, told, starts, faults>>

CloudFinalize ==
  /\ apply = "finalize"
  /\ apply' = "idle"
  /\ \/ FinalizeOk("cloud") /\ reboot' = TRUE /\ UNCHANGED dl
     \/ FinalizeError("cloud") /\ dl' = [dl EXCEPT !.state = "ERROR"] /\ UNCHANGED reboot
  /\ UNCHANGED <<web, ble, orderly, told, starts>>

-----------------------------------------------------------------------------
WebAtRest == [pc |-> "idle", written |-> 0]
BleAtRest == [state |-> "IDLE", received |-> 0, full |-> FALSE]
CloudAtRest == [state |-> "IDLE", received |-> 0, chunk |-> 0]

Init ==
  /\ Slot!Init
  /\ web = WebAtRest /\ ble = BleAtRest /\ dl = CloudAtRest
  /\ apply = "idle" /\ reboot = FALSE
  /\ owner = NoClient /\ orderly = {} /\ told = {}
  /\ starts = 0 /\ faults = 0

Reboot ==
  /\ reboot /\ reboot' = FALSE
  /\ Slot!PowerUp
  /\ web' = WebAtRest /\ ble' = BleAtRest /\ dl' = CloudAtRest
  /\ apply' = "idle"
  /\ owner' = NoClient /\ orderly' = {} /\ told' = {}
  /\ UNCHANGED <<starts, faults>>

Web == WebStart \/ WebWrite \/ WebEnd \/ WebLost \/ WebAbort \/ WebFinalize
Ble == BleStart \/ BleAbort \/ BleData \/ BleFinalize
Cloud ==
  \/ FwAvailable \/ FwMetadata \/ FwChunkCheck \/ FwChunk \/ FwComplete
  \/ CloudCheck \/ CloudDownload \/ CloudCancel \/ CloudApply \/ CloudFinalize

Next == Web \/ Ble \/ Cloud \/ Reboot

Spec == Init /\ [][Next]_vars

-----------------------------------------------------------------------------
(* Properties.                                                             *)

\* Every variable keeps its type; the image never outgrows the slot.
TypeOK ==
  /\ state \in {"IDLE", "RECEIVING", "COMPLETE", "ERROR"}
  /\ expected \in {0, Size, Size + 1}
  /\ open \in BOOLEAN /\ pending \in BOOLEAN
  /\ image \in Seq(Clients \X (0 .. Size)) /\ Len(image) <= Capacity
  /\ web \in [pc: {"idle", "upload", "abort", "finalize"}, written: 0 .. Size + 1]
  /\ ble \in [state: {"IDLE", "READY", "RECEIVING", "ERROR"}, received: 0 .. Size,
              full: BOOLEAN]
  /\ dl \in [state: {"IDLE", "CHECKING", "AVAILABLE", "RECEIVING", "READY",
                     "APPLYING", "ERROR"},
             received: Nat, chunk: 0 .. Size]
  /\ apply \in {"idle", "finalize"} /\ reboot \in BOOLEAN
  /\ owner \in Clients \cup {NoClient}
  /\ orderly \subseteq Clients /\ told \subseteq Clients
  /\ starts \in 0 .. MaxStarts /\ faults \in 0 .. MaxFaults

\* A client that reports success, that nobody disturbed and whose firmware
\* came whole and in order has all of it in the slot; the bootloader was asked
\* to try it, unless it is the cloud's and waits for cloud_ota_apply.
SuccessIsWhole ==
  \A c \in told \cap orderly :
    owner = c => /\ IsPrefix(Whole(c), image)
                 /\ c # "cloud" => pending

\* As long as nobody disturbed it and no call failed, what a client counts as
\* received is what the OTA manager has: through cancelled transfers, chunks
\* let in before a cancel and written after it, and a second start.
CountIsImage ==
  open /\ faults = 0 /\ owner # NoClient =>
    Len(image) = CASE owner = "web" -> web.written
                   [] owner = "ble" -> ble.received
                   [] owner = "cloud" -> dl.received
=============================================================================
