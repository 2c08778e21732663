---------------------------- MODULE BtAppTransfer ----------------------------
(***************************************************************************)
(* Installing an app over Bluetooth                                        *)
(* (src/connectivity/bluetooth/bt_app_transfer.c).                         *)
(*                                                                         *)
(* One client writes the control and data characteristics on the Bluetooth *)
(* receive thread, other threads call bt_app_transfer_abort().  The work   *)
(* is done under xfer_mutex, but rx_data_write() reads the state before it *)
(* takes the mutex and writes ERROR after it gave it up.  Nothing happens  *)
(* on a disconnect, and nothing times out.                                 *)
(*                                                                         *)
(* The temporary file is a sequence of chunks, an entry being the place in *)
(* the app the chunk belongs to; the CRC is right when they are in order.  *)
(* A chunk has bytes: one without any, which the code does not refuse, is  *)
(* left out.  In a transfer announced as empty it divides by zero (line    *)
(* 292), and in any other it changes nothing.                              *)
(***************************************************************************)
EXTENDS Integers, Sequences

CONSTANTS
  MaxTotal,  \* MAX_APP_SIZE, in chunks
  MaxFile,   \* bound: chunks written to one file, with those of failed writes
  MaxStarts  \* bound: transfers started

VARIABLES
  state,     \* g_xfer.state
  xfer,      \* g_xfer.total_size, received_bytes, file_open; crc: what was summed up
  file,      \* the chunks in TEMP_APP_PATH
  exists,    \* there is such a file
  rx,        \* where rx_data_write() is
  starts,    \* transfers started
  installed  \* history: the files given to app_manager_install_from_path()

vars == <<state, xfer, file, exists, rx, starts, installed>>

Quiet == "none"
NoTransfer == [total |-> 0, received |-> 0, open |-> FALSE, crc |-> <<>>]
Whole(n) == [i \in 1 .. n |-> i]

\* cleanup_transfer().
Cleanup == xfer' = NoTransfer /\ file' = <<>> /\ exists' = FALSE

-----------------------------------------------------------------------------
(* control_write(), under the mutex.                                       *)

\* start_transfer(): a file that cannot be opened leaves sizes behind, and IDLE.
Startable == state = "IDLE"
Start(n) ==
  /\ rx = Quiet /\ Startable /\ starts < MaxStarts /\ starts' = starts + 1
  /\ \E ok \in BOOLEAN :
       xfer' = [xfer EXCEPT !.total = n, !.received = 0, !.crc = <<>>, !.open = @ \/ ok]
  /\ IF xfer'.open
     THEN state' = "RECEIVING" /\ file' = <<>> /\ exists' = TRUE
     ELSE UNCHANGED <<state, file, exists>>
  /\ UNCHANGED <<rx, installed>>

ClientAbort ==
  /\ rx = Quiet /\ state' = "IDLE" /\ Cleanup /\ UNCHANGED <<rx, starts, installed>>

\* finalize_transfer(): the file is closed, then size and CRC are compared.
Valid(x) == x.received = x.total /\ x.crc = Whole(x.total)
CommitRefused ==
  /\ rx = Quiet /\ state = "RECEIVING" /\ ~Valid(xfer)
  /\ state' = "ERROR" /\ Cleanup /\ UNCHANGED <<rx, starts, installed>>

\* The app manager reads the file; only a success leaves the sizes as they are.
CommitInstall ==
  /\ rx = Quiet /\ state = "RECEIVING" /\ Valid(xfer)
  /\ installed' = installed \cup {[chunks |-> file, total |-> xfer.total]}
  /\ \/ state' = "ERROR" /\ Cleanup
     \/ /\ state' = "IDLE" /\ xfer' = [xfer EXCEPT !.open = FALSE]
        /\ file' = <<>> /\ exists' = FALSE
  /\ UNCHANGED <<rx, starts>>

-----------------------------------------------------------------------------
(* rx_data_write(): the test, the write under the mutex, the late ERROR.   *)

RxCheck == state = "RECEIVING"
RxBegin ==
  /\ rx = Quiet /\ RxCheck /\ rx' = "checked"
  /\ UNCHANGED <<state, xfer, file, exists, starts, installed>>

RxOverflow ==
  /\ rx = "checked" /\ xfer.received + 1 > xfer.total /\ rx' = Quiet
  /\ UNCHANGED <<state, xfer, file, exists, starts, installed>>

RxWrite(chunk) ==
  /\ rx = "checked" /\ xfer.received + 1 <= xfer.total /\ Len(file) < MaxFile
  /\ file' = Append(file, chunk)
  /\ xfer' = [xfer EXCEPT !.received = @ + 1, !.crc = Append(@, chunk)]
  /\ rx' = Quiet
  /\ UNCHANGED <<state, exists, starts, installed>>

\* A part of the chunk may have been written.
RxFail ==
  /\ rx = "checked" /\ xfer.received + 1 <= xfer.total
  /\ file' \in {file, Append(file, 0)} /\ rx' = "failed"
  /\ UNCHANGED <<state, xfer, exists, starts, installed>>
RxError ==
  /\ rx = "failed" /\ state' = "ERROR" /\ rx' = Quiet
  /\ UNCHANGED <<xfer, file, exists, starts, installed>>

-----------------------------------------------------------------------------
\* bt_app_transfer_abort(), from another thread, between the writer's steps.
Abort ==
  /\ state = "RECEIVING" /\ state' = "IDLE" /\ Cleanup
  /\ UNCHANGED <<rx, starts, installed>>

Init ==
  /\ state = "IDLE" /\ xfer = NoTransfer /\ file = <<>> /\ exists = FALSE
  /\ rx = Quiet /\ starts = 0 /\ installed = {}

Next ==
  \/ \E n \in 0 .. MaxTotal : Start(n)
  \/ ClientAbort \/ CommitRefused \/ CommitInstall
  \/ RxBegin \/ RxOverflow \/ RxFail \/ RxError
  \/ \E chunk \in 1 .. MaxTotal : RxWrite(chunk)
  \/ Abort

Spec == Init /\ [][Next]_vars

-----------------------------------------------------------------------------
(* Properties.                                                             *)

\* No byte is received past the announced size, and the states in the middle
\* of a commit are never seen with the mutex free.
TypeOK ==
  /\ state \in {"IDLE", "RECEIVING", "ERROR"}
  /\ xfer.received \in 0 .. xfer.total /\ xfer.total \in 0 .. MaxTotal
  /\ rx \in {Quiet, "checked", "failed"} /\ Len(file) <= MaxFile + 1

\* What is installed is the whole app: the file holds the chunks the CRC was
\* computed over, in order, whatever writes failed and aborts came between.
InstallsWholeApp == \A i \in installed : i.chunks = Whole(i.total)

\* While a transfer is received its file is open and holds what was counted,
\* until a failed write is about to end it; an abort between the test of the
\* state and the write leaves nothing that write could go to.
ReceivingHasFile ==
  state = "RECEIVING" /\ rx # "failed" => xfer.open /\ exists /\ file = xfer.crc

\* A file that is open belongs to a transfer that is received, or that a
\* failed write has ended and the client can still abort.
OpenFileIsOwned ==
  /\ xfer.open => exists /\ state \in {"RECEIVING", "ERROR"}
  /\ exists => xfer.open

\* All three.
TransferSound == InstallsWholeApp /\ ReceivingHasFile /\ OpenFileIsOwned
=============================================================================
