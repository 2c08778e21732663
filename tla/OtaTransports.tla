--------------------------- MODULE OtaTransports ---------------------------
(***************************************************************************)
(* The four OTA transports (src/OTA/transports): each has the life cycle   *)
(* of ota_transport_ops_t and a state of its own, and all share the one    *)
(* update of the OTA manager, which no transport asks for its owner.       *)
(*                                                                         *)
(* The HTTP server's thread carries uploads, the Bluetooth thread commands *)
(* and data, and a third calls the operations of a transport.  None takes  *)
(* a lock.  A call of the OTA manager is one step.  The USB commands call  *)
(* functions that do not exist and the cloud's are stubs: of these two the *)
(* life cycle is left.                                                     *)
(*                                                                         *)
(* The manager's update is the transport that opened it, or none.          *)
(* History: crossed has the transports of whose update, since they began   *)
(* it, another made use, or whose operations were called.                  *)
(***************************************************************************)
EXTENDS Naturals

CONSTANTS
  Sources,   \* the transports that are built in: "http" and "ble", and of "usb"
             \* and "cloud" those the configuration has
  NoSource,  \* no update is open
  MaxFaults  \* bound: calls of the OTA manager that fail

VARIABLES
  tr,      \* xxx_ota of each transport: initialized, enabled, state
  update,  \* the transport whose update the OTA manager has open
  handler, \* the HTTP server has the upload handler
  upload,  \* where http_upload_chunk is
  aborting,\* the transport whose abort operation runs
  crossed, \* history
  faults

vars == <<tr, update, handler, upload, aborting, crossed, faults>>

Others(s) == Sources \ {s}
SetState(s, st) == tr' = [tr EXCEPT ![s].state = st]
Began(s) == crossed' = (crossed \ {s}) \union Others(s)
Crosses(s) == crossed' = crossed \union Others(s)

-----------------------------------------------------------------------------
(* The operations of a transport.                                          *)

Initialize(s) ==
  /\ ~tr[s].initialized
  /\ tr' = [tr EXCEPT ![s] = [initialized |-> TRUE, enabled |-> FALSE, state |-> "IDLE"]]
  /\ UNCHANGED handler

\* The state stays, and so does the upload handler.
Deinitialize(s) ==
  /\ tr' = [tr EXCEPT ![s].initialized = FALSE, ![s].enabled = FALSE]
  /\ UNCHANGED handler

\* READY, whatever is being received.
Enable(s) ==
  /\ tr[s].initialized
  /\ tr' = [tr EXCEPT ![s].enabled = TRUE, ![s].state = "READY"]
  /\ handler' = (handler \/ s = "http")

\* IDLE: an update that is open stays open.
Disable(s) ==
  /\ tr' = [tr EXCEPT ![s].enabled = FALSE, ![s].state = "IDLE"]
  /\ handler' = (handler /\ s # "http")

Lifecycle(s) ==
  /\ Initialize(s) \/ Deinitialize(s) \/ Enable(s) \/ Disable(s)
  /\ crossed' = crossed \union {s}
  /\ UNCHANGED <<update, upload, aborting, faults>>

\* A transport that is receiving aborts the update, whose ever it is.
AbortAsked(s) ==
  /\ aborting = NoSource /\ tr[s].state = "RECEIVING" /\ aborting' = s
  /\ crossed' = crossed \union {s}
  /\ UNCHANGED <<tr, update, handler, upload, faults>>
Abort ==
  /\ aborting # NoSource /\ aborting' = NoSource
  /\ update' = NoSource /\ SetState(aborting, "READY")
  /\ crossed' = Sources /\ UNCHANGED <<handler, upload, faults>>

HttpTransport == Lifecycle("http") \/ AbortAsked("http")
BleTransport == Lifecycle("ble") \/ AbortAsked("ble")
UsbTransport == "usb" \in Sources /\ (Lifecycle("usb") \/ AbortAsked("usb"))
CloudTransport == "cloud" \in Sources /\ (Lifecycle("cloud") \/ AbortAsked("cloud"))

-----------------------------------------------------------------------------
(* http_upload_chunk(): the body of one request, at offset 0.              *)

Upload ==
  /\ upload = "idle" /\ handler /\ upload' = "enter"
  /\ UNCHANGED <<tr, update, handler, aborting, crossed, faults>>

UploadEnter ==
  /\ upload = "enter"
  /\ IF tr["http"].enabled
     THEN SetState("http", "RECEIVING") /\ upload' = "start" /\ crossed' = crossed \ {"http"}
     ELSE upload' = "idle" /\ UNCHANGED <<tr, crossed>>
  /\ UNCHANGED <<update, handler, aborting, faults>>

\* A start closes the update that was open, also when it fails.
UploadStart ==
  /\ upload = "start" /\ Crosses("http") /\ UNCHANGED <<handler, aborting>>
  /\ \/ update' = "http" /\ upload' = "write" /\ UNCHANGED <<tr, faults>>
     \/ /\ faults < MaxFaults /\ faults' = faults + 1
        /\ update' = NoSource /\ upload' = "idle" /\ SetState("http", "ERROR")

\* What came may be all of it, or the first part: the rest never comes here.
UploadWrite ==
  /\ upload = "write" /\ Crosses("http") /\ UNCHANGED <<tr, update, handler, aborting>>
  /\ \/ update # NoSource /\ upload' \in {"finalize", "idle"} /\ UNCHANGED faults
     \/ update = NoSource /\ upload' = "abort" /\ UNCHANGED faults
     \/ faults < MaxFaults /\ faults' = faults + 1 /\ upload' = "abort"

LeftOpenBug == update  \* mutation: an abort leaves the update open
LeftOpen == NoSource
UploadAbort ==
  /\ upload = "abort" /\ upload' = "idle"
  /\ update' = LeftOpen /\ SetState("http", "ERROR")
  /\ Crosses("http") /\ UNCHANGED <<handler, aborting, faults>>

UploadFinalize ==
  /\ upload = "finalize" /\ upload' = "idle"
  /\ update' = NoSource /\ Crosses("http") /\ UNCHANGED <<handler, aborting>>
  /\ \/ update # NoSource /\ SetState("http", "READY") /\ UNCHANGED faults
     \/ update = NoSource /\ SetState("http", "ERROR") /\ UNCHANGED faults
     \/ faults < MaxFaults /\ faults' = faults + 1 /\ SetState("http", "ERROR")

-----------------------------------------------------------------------------
(* ota_control_write(), ota_data_write(): neither asks whether the         *)
(* transport is initialized or enabled.                                    *)

BleStart ==
  /\ UNCHANGED <<handler, upload, aborting>>
  /\ \/ update' = "ble" /\ SetState("ble", "RECEIVING") /\ Began("ble") /\ UNCHANGED faults
     \/ /\ faults < MaxFaults /\ faults' = faults + 1
        /\ update' = NoSource /\ SetState("ble", "ERROR") /\ Crosses("ble")

BleAbort ==
  /\ update' = NoSource /\ SetState("ble", "READY")
  /\ Crosses("ble") /\ UNCHANGED <<handler, upload, aborting, faults>>

\* A write that fails leaves the update as it is; the last one finalizes.
AfterData == "ERROR"
BleData ==
  /\ tr["ble"].state = "RECEIVING" /\ Crosses("ble") /\ UNCHANGED <<handler,
                                                                    upload,
                                                                    aborting>>
  /\ \/ update # NoSource /\ UNCHANGED <<tr, update, faults>>
     \/ update # NoSource /\ SetState("ble", "READY") /\ update' = NoSource /\ UNCHANGED faults
     \/ update = NoSource /\ SetState("ble", AfterData) /\ UNCHANGED <<update, faults>>
     \/ /\ faults < MaxFaults /\ faults' = faults + 1
        /\ SetState("ble", AfterData) /\ update' \in {update, NoSource}

-----------------------------------------------------------------------------
Init ==
  /\ tr = [s \in Sources |-> [initialized |-> FALSE, enabled |-> FALSE, state |-> "IDLE"]]
  /\ update = NoSource /\ handler = FALSE /\ upload = "idle"
  /\ aborting = NoSource /\ crossed = {} /\ faults = 0

Next ==
  \/ HttpTransport \/ BleTransport \/ UsbTransport \/ CloudTransport \/ Abort
  \/ Upload \/ UploadEnter \/ UploadStart \/ UploadWrite \/ UploadAbort \/ UploadFinalize
  \/ BleStart \/ BleAbort \/ BleData

Spec == Init /\ [][Next]_vars

-----------------------------------------------------------------------------
(* Properties.                                                             *)

\* The variables keep their types.
TypeOK ==
  /\ tr \in [Sources -> [initialized : BOOLEAN, enabled : BOOLEAN,
                         state : {"IDLE", "READY", "RECEIVING", "ERROR"}]]
  /\ update \in Sources \union {NoSource} /\ handler \in BOOLEAN
  /\ upload \in {"idle", "enter", "start", "write", "finalize", "abort"}

\* Of a transport that no other crossed, and none of whose operations was
\* called since, a RECEIVING state stands for an update of its own, through
\* failed writes and starts over; and an update of HTTP's that is open after
\* the request is one it knows of: no failed upload leaves it behind.
TransportsSound ==
  \A s \in Sources \ crossed :
    /\ (tr[s].state = "RECEIVING" /\ (s = "http" => upload = "idle")) => update = s
    /\ (s = "http" /\ update = s /\ upload = "idle") => tr[s].state = "RECEIVING"
=============================================================================
