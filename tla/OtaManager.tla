----------------------------- MODULE OtaManager -----------------------------
(***************************************************************************)
(* The OTA manager (src/OTA/ota_manager.c): firmware updates written to    *)
(* the secondary MCUboot slot.                                             *)
(*                                                                         *)
(* One thread owns the slot and takes requests from ota_msgq.  The callers *)
(* (web server, Bluetooth, USB, HTTP and cloud transports, the shell) are  *)
(* the Clients: each puts a message that points into its own stack and     *)
(* waits for the answer, up to 120 s.  Only the OTA thread writes the      *)
(* status, so an operation is one step here, except that a chunk is copied *)
(* piece by piece and that the answer, and the error state set after it,   *)
(* are steps of their own: clients act in between.                         *)
(*                                                                         *)
(* A caller that timed out has left its stack frame.  Its request is still *)
(* carried out, from a buffer that may have been reused, and its answer    *)
(* goes to the old address: it is lost, or it wakes the next call of the   *)
(* same client, whose frame is at the same place.                          *)
(*                                                                         *)
(* Firmware is counted in units, numbered per client from the start of its *)
(* image: unit 0 is the one with MCUboot's magic.  Flash is NOR: a cell    *)
(* programmed twice without an erase holds junk.  Operations whose name    *)
(* ends in Bug are mutations.                                              *)
(***************************************************************************)
EXTENDS Integers, Sequences, FiniteSets

CONSTANTS
  Clients,      \* threads that call the OTA API
  NoClient,     \* the origin of a unit that is no firmware
  FlashSize,    \* fa_size of the secondary slot, in units
  BufferSize,   \* OTA_WRITE_BUFFER_SIZE
  WriteAlign,   \* flash_area_align()
  QueueSize,    \* OTA_MSG_QUEUE_SIZE
  Sizes,        \* expected sizes a client may announce, 0 for unknown
  ChunkLengths, \* lengths of the chunks a client may send
  MaxMishaps    \* bound: refused flash operations, timeouts and reboots

ASSUME ClientsAssumption == NoClient \notin Clients
ASSUME FlashAssumption ==
  /\ FlashSize \in Nat \ {0} /\ BufferSize \in Nat \ {0}
  /\ WriteAlign \in Nat \ {0}
  /\ BufferSize % WriteAlign = 0 /\ FlashSize % WriteAlign = 0
ASSUME QueueAssumption == QueueSize \in Nat \ {0}
ASSUME InputsAssumption == Sizes \subseteq Nat /\ ChunkLengths \subseteq Nat \ {0}
ASSUME BoundAssumption == MaxMishaps \in Nat

VARIABLES
  ota_state, total_size, bytes_written, \* ota_status
  secondary_fa,  \* the slot is open
  write_buffer,  \* the first buffer_pos units of write_buffer
  flash,         \* the secondary slot
  boot_pending,  \* MCUboot's request to try the secondary slot
  ota_msgq,
  phase,         \* where the OTA thread is
  current,       \* the message it works on, with its result
  client,        \* busy: in a call, with chunk; sent: units acknowledged
  received,      \* history: the units taken over since the last start
  acked,         \* history: the units whose write was answered with OTA_OK
  faults, timeouts, boots \* mishaps so far

vars == <<ota_state, total_size, bytes_written, secondary_fa, write_buffer,
          flash, boot_pending, ota_msgq, phase, current, client, received,
          acked, faults, timeouts, boots>>

progressVars == <<total_size, bytes_written, secondary_fa, write_buffer,
                  flash, received>>
slotVars == <<progressVars, acked>>
callVars == <<client, timeouts>>

\* VALIDATING and INSTALLING are passed through within one request.
States == {"IDLE", "RECEIVING", "COMPLETE", "ERROR"}
Phases == {"wait", "copy", "signal", "check"}

Cells == 1 .. FlashSize
Unit == (Clients \cup {NoClient}) \X (0 .. FlashSize)
Erased == <<NoClient, 0>>  \* 0xFF, also the padding
Junk == <<NoClient, 1>>
IsMagic(u) == u[1] # NoClient /\ u[2] = 0

Mishaps == faults + timeouts + boots

Min2(a, b) == IF a < b THEN a ELSE b
UnitsOf(s) == {s[i] : i \in DOMAIN s}

Message(op, c, size, units) ==
  [op |-> op, from |-> c, live |-> TRUE, size |-> size, units |-> units,
   ok |-> FALSE]
NoMessage == [op |-> "reboot", from |-> NoClient, live |-> FALSE, size |-> 0,
              units |-> <<>>, ok |-> FALSE]
AtRest == [busy |-> FALSE, chunk |-> <<>>, sent |-> 0]

-----------------------------------------------------------------------------
(* Flash.                                                                  *)

\* What a slot holds that is neither open nor complete is never read again.
Forgotten == [i \in Cells |-> Junk]
Program(old, new) == IF old \in {Erased, new} THEN new ELSE Junk
Written(f, offset, units) ==
  [i \in Cells |-> IF i - offset \in DOMAIN units
                     THEN Program(f[i], units[i - offset]) ELSE f[i]]

\* flush_write_buffer: a write that fails has programmed a part of the
\* buffer, which is kept.  The padding is 0xFF, the value of an erased cell.
FlushOffsetBug(written, buffer) == written
FlushOffset(written, buffer) == written - Len(buffer)
FlushOutcomes(written, buffer) ==
  LET part(n) == Written(flash, FlushOffset(written, buffer),
                         SubSeq(buffer, 1, n))
  IN
  IF buffer = <<>> \/ ~secondary_fa
    THEN {[ok |-> TRUE, flash |-> flash, buffer |-> buffer, faults |-> faults]}
    ELSE {[ok |-> TRUE, flash |-> part(Len(buffer)), buffer |-> <<>>,
           faults |-> faults]}
         \cup {[ok |-> FALSE, flash |-> part(n), buffer |-> buffer,
                faults |-> faults + 1] :
                 n \in IF Mishaps < MaxMishaps THEN 0 .. Len(buffer) ELSE {}}

-----------------------------------------------------------------------------
(* The OTA thread.                                                         *)

\* The message at the head of the queue is taken and answered at once.
Answer(op, ok) ==
  /\ phase = "wait" /\ ota_msgq # <<>> /\ Head(ota_msgq).op = op
  /\ ota_msgq' = Tail(ota_msgq)
  /\ current' = [Head(ota_msgq) EXCEPT !.ok = ok]
  /\ phase' = "signal"
  /\ UNCHANGED <<callVars, boots>>

\* do_abort_update flushes what is buffered and ignores the result.  In IDLE
\* there is nothing to flush.
AbortFaults ==
  IF ota_state = "IDLE" THEN {faults}
  ELSE {o.faults : o \in FlushOutcomes(bytes_written, write_buffer)}

\* What do_start_update does before it opens the slot.
Reset ==
  /\ write_buffer' = <<>>
  /\ bytes_written' = 0
  /\ received' = <<>>
  /\ acked' = {}

StartUpdate ==
  /\ Answer("start", TRUE)
  /\ Reset
  /\ faults' \in AbortFaults
  /\ secondary_fa' = TRUE
  /\ flash' = [i \in Cells |-> Erased]
  /\ boot_pending' = FALSE  \* the request is in the slot's trailer
  /\ LET size == Head(ota_msgq).size IN
     total_size' = IF size > 0 THEN size ELSE FlashSize
  /\ ota_state' = "RECEIVING"

\* The slot cannot be opened, or the erase fails half way.
StartFails ==
  /\ Answer("start", FALSE)
  /\ Reset
  /\ secondary_fa' = FALSE
  /\ \E n \in AbortFaults :
       n + timeouts + boots < MaxMishaps /\ faults' = n + 1
  /\ flash' = Forgotten
  /\ boot_pending' \in {boot_pending, FALSE}
  /\ total_size' = 0
  /\ ota_state' = "ERROR"

\* do_write_chunk's guards.
WriteAllowedBug(n) == secondary_fa /\ ota_state = "RECEIVING"  \* no bounds
WriteAllowed(n) ==
  /\ secondary_fa /\ ota_state = "RECEIVING"
  /\ bytes_written + n <= FlashSize
  /\ bytes_written + n <= total_size

WriteRefusedBug ==  \* the refusal is not reported
  /\ Answer("write", TRUE)
  /\ ~WriteAllowed(Len(Head(ota_msgq).units))
  /\ UNCHANGED <<ota_state, slotVars, boot_pending, faults>>
WriteRefused ==
  /\ Answer("write", FALSE)
  /\ ~WriteAllowed(Len(Head(ota_msgq).units))
  /\ UNCHANGED <<ota_state, slotVars, boot_pending, faults>>

WriteChunk ==
  /\ phase = "wait" /\ ota_msgq # <<>> /\ Head(ota_msgq).op = "write"
  /\ WriteAllowed(Len(Head(ota_msgq).units))
  /\ ota_msgq' = Tail(ota_msgq)
  /\ current' = Head(ota_msgq)
  /\ phase' = "copy"
  /\ UNCHANGED <<ota_state, slotVars, boot_pending, callVars, faults, boots>>

\* One turn of do_write_chunk's loop: fill the buffer, flush it when full.
\* A client that timed out may have reused the memory the data is read from.
FlushDue(buffer) == Len(buffer) >= BufferSize
CopySize == Min2(Len(current.units), BufferSize - Len(write_buffer))
CopyChunk ==
  LET n == CopySize
      rest == SubSeq(current.units, n + 1, Len(current.units))
      sent == SubSeq(current.units, 1, n)
  IN
  /\ phase = "copy"
  /\ \E piece \in {sent} \cup (IF current.live THEN {}
                                ELSE {[i \in 1 .. n |-> Junk]}) :
       /\ received' = received \o piece
       /\ bytes_written' = bytes_written + n
       /\ LET full == write_buffer \o piece
              flushed == IF FlushDue(full)
                           THEN FlushOutcomes(bytes_written', full)
                           ELSE {[ok |-> TRUE, flash |-> flash,
                                  buffer |-> full, faults |-> faults]}
          IN \E o \in flushed :
               /\ write_buffer' = o.buffer
               /\ flash' = o.flash
               /\ faults' = o.faults
               /\ current' = [current EXCEPT !.units = rest, !.ok = o.ok]
               /\ phase' = IF o.ok /\ rest # <<>> THEN "copy" ELSE "signal"
  /\ UNCHANGED <<ota_state, total_size, secondary_fa, boot_pending, ota_msgq,
                 acked, callVars, boots>>

FinalizeBug ==  \* the rest of the buffer is not flushed
  /\ Answer("finalize", TRUE)
  /\ secondary_fa /\ ota_state = "RECEIVING"
  /\ bytes_written > 0 /\ IsMagic(flash[1])
  /\ boot_pending' = TRUE
  /\ secondary_fa' = FALSE
  /\ ota_state' = "COMPLETE"
  /\ UNCHANGED <<total_size, bytes_written, received, acked, flash,
                 write_buffer, faults>>
\* do_finalize_update succeeds: the buffer is flushed, the image has data and
\* the magic, and the bootloader takes the request.
Finalize ==
  /\ Answer("finalize", TRUE)
  /\ secondary_fa /\ ota_state = "RECEIVING"
  /\ \E o \in FlushOutcomes(bytes_written, write_buffer) :
       /\ o.ok
       /\ bytes_written > 0 /\ IsMagic(o.flash[1])
       /\ flash' = o.flash
       /\ write_buffer' = o.buffer
       /\ faults' = o.faults
  /\ boot_pending' = TRUE
  /\ secondary_fa' = FALSE
  /\ ota_state' = "COMPLETE"
  /\ UNCHANGED <<total_size, bytes_written, received, acked>>

\* The failures: no update to finalize, a refused flush, an invalid image, or
\* a bootloader that refuses the request.
FinalizeFails ==
  /\ Answer("finalize", FALSE)
  /\ \/ /\ ~secondary_fa \/ ota_state # "RECEIVING"
        /\ UNCHANGED <<ota_state, write_buffer, flash, faults>>
     \/ /\ secondary_fa /\ ota_state = "RECEIVING"
        /\ \E o \in FlushOutcomes(bytes_written, write_buffer) :
             /\ write_buffer' = o.buffer
             /\ flash' = o.flash
             /\ \/ /\ ~o.ok
                   /\ faults' = o.faults
                   /\ UNCHANGED ota_state
                \/ /\ o.ok
                   /\ bytes_written = 0 \/ ~IsMagic(o.flash[1])
                   /\ faults' = o.faults
                   /\ ota_state' = "ERROR"
                \/ /\ o.ok /\ bytes_written > 0 /\ IsMagic(o.flash[1])
                   /\ Mishaps < MaxMishaps
                   /\ faults' = o.faults + 1
                   /\ ota_state' = "ERROR"
  /\ UNCHANGED <<total_size, bytes_written, secondary_fa, boot_pending,
                 received, acked>>

Abort ==
  /\ Answer("abort", TRUE)
  /\ Reset
  /\ faults' \in AbortFaults
  /\ flash' = Forgotten
  /\ secondary_fa' = FALSE
  /\ total_size' = 0
  /\ ota_state' = "IDLE"
  /\ UNCHANGED boot_pending

Confirm ==
  /\ \/ Answer("confirm", TRUE) /\ UNCHANGED faults
     \/ /\ Answer("confirm", FALSE)
        /\ Mishaps < MaxMishaps /\ faults' = faults + 1
  /\ UNCHANGED <<ota_state, slotVars, boot_pending>>

\* A client takes the answer: it counts a chunk as sent when told OTA_OK.
Wake(c, ok) ==
  LET chunk == client[c].chunk IN
  /\ client' = [client EXCEPT ![c] =
       [busy |-> FALSE, chunk |-> <<>>,
        sent |-> IF ok THEN @.sent + Len(chunk) ELSE @.sent]]
  /\ acked' = IF ok THEN acked \cup UnitsOf(chunk) ELSE acked

\* The messages of a client whose call is over point to a dead frame.
Orphaned(m, c) == IF m.from = c THEN [m EXCEPT !.live = FALSE] ELSE m
OrphanedQueue(c) == [i \in DOMAIN ota_msgq |-> Orphaned(ota_msgq[i], c)]

SignalBug ==  \* the error path returns without giving the semaphore
  /\ phase = "signal"
  /\ phase' = "check"
  /\ IF current.live /\ current.ok
       THEN Wake(current.from, TRUE) ELSE UNCHANGED <<client, acked>>
  /\ UNCHANGED <<ota_state, progressVars, boot_pending, ota_msgq, current,
                 timeouts, faults, boots>>
Signal ==
  /\ phase = "signal"
  /\ phase' = "check"
  /\ \/ /\ current.live
        /\ Wake(current.from, current.ok)
        /\ UNCHANGED ota_msgq
     \/ /\ ~current.live
        /\ UNCHANGED <<client, acked, ota_msgq>>
     \/ /\ ~current.live /\ client[current.from].busy
        /\ Wake(current.from, current.ok)
        /\ ota_msgq' = OrphanedQueue(current.from)
  /\ UNCHANGED <<ota_state, progressVars, boot_pending, current, timeouts,
                 faults, boots>>

\* A failed operation other than a write ends in the error state.
CheckResult ==
  /\ phase = "check"
  /\ phase' = "wait"
  /\ ota_state' = IF ~current.ok /\ current.op # "write" THEN "ERROR"
                                                         ELSE ota_state
  /\ current' = NoMessage
  /\ UNCHANGED <<slotVars, boot_pending, ota_msgq, callVars, faults, boots>>

\* ota_manager_init after a reset.  MCUboot swaps a pending image in.
PowerUp ==
  /\ ota_state' = "IDLE"
  /\ total_size' = 0
  /\ Reset
  /\ secondary_fa' = FALSE
  /\ flash' = Forgotten
  /\ boot_pending' = FALSE
  /\ ota_msgq' = <<>>
  /\ phase' = "wait"
  /\ current' = NoMessage
  /\ client' = [c \in Clients |-> AtRest]
  /\ UNCHANGED <<faults, timeouts>>

Reboot ==
  /\ phase = "wait" /\ ota_msgq # <<>> /\ Head(ota_msgq).op = "reboot"
  /\ PowerUp
  /\ UNCHANGED boots  \* counted when it was asked for

PowerLoss ==
  /\ Mishaps < MaxMishaps
  /\ boots' = boots + 1
  /\ PowerUp

-----------------------------------------------------------------------------
(* The clients.                                                            *)

\* send_ota_message_sync up to the wait.  A put that finds no room for a
\* second returns OTA_ERROR_TIMEOUT and changes nothing.
Send(c, m) ==
  /\ ~client[c].busy
  /\ Len(ota_msgq) < QueueSize
  /\ ota_msgq' = Append(ota_msgq, m)
  /\ UNCHANGED <<ota_state, slotVars, boot_pending, phase, current,
                 timeouts, faults>>

SendStart(c, size) ==
  /\ Send(c, Message("start", c, size, <<>>))
  /\ client' = [client EXCEPT ![c] = [busy |-> TRUE, chunk |-> <<>>, sent |-> 0]]
  /\ UNCHANGED boots

SendChunk(c, n) ==
  LET units == [i \in 1 .. n |-> <<c, client[c].sent + i - 1>>] IN
  /\ client[c].sent + n <= FlashSize
  /\ Send(c, Message("write", c, 0, units))
  /\ client' = [client EXCEPT ![c] =
       [busy |-> TRUE, chunk |-> units, sent |-> @.sent]]
  /\ UNCHANGED boots

SendOther(c, op) ==
  /\ Send(c, Message(op, c, 0, <<>>))
  /\ client' = [client EXCEPT ![c] =
       [busy |-> TRUE, chunk |-> @.chunk, sent |-> @.sent]]
  /\ UNCHANGED boots

\* ota_reboot_to_apply_update does not wait.
SendReboot(c) ==
  /\ Mishaps < MaxMishaps
  /\ boots' = boots + 1
  /\ Send(c, NoMessage)
  /\ UNCHANGED client

\* k_sem_take gives up after 120 s: the message stays where it is.
Timeout(c) ==
  /\ client[c].busy
  /\ Mishaps < MaxMishaps
  /\ timeouts' = timeouts + 1
  /\ client' = [client EXCEPT ![c] =
       [busy |-> FALSE, chunk |-> <<>>, sent |-> @.sent]]
  /\ ota_msgq' = OrphanedQueue(c)
  /\ current' = Orphaned(current, c)
  /\ UNCHANGED <<ota_state, slotVars, boot_pending, phase, faults, boots>>

-----------------------------------------------------------------------------
Init ==
  /\ ota_state = "IDLE" /\ total_size = 0 /\ bytes_written = 0
  /\ secondary_fa = FALSE
  /\ write_buffer = <<>>
  /\ flash = Forgotten
  /\ boot_pending = FALSE
  /\ ota_msgq = <<>>
  /\ phase = "wait"
  /\ current = NoMessage
  /\ client = [c \in Clients |-> AtRest]
  /\ received = <<>>
  /\ acked = {}
  /\ faults = 0 /\ timeouts = 0 /\ boots = 0

OtaThread ==
  \/ StartUpdate \/ StartFails
  \/ WriteRefused \/ WriteChunk \/ CopyChunk
  \/ Finalize \/ FinalizeFails
  \/ Abort \/ Confirm \/ Reboot
  \/ Signal \/ CheckResult

Call(c) ==
  \/ \E size \in Sizes : SendStart(c, size)
  \/ \E n \in ChunkLengths : SendChunk(c, n)
  \/ \E op \in {"finalize", "abort", "confirm"} : SendOther(c, op)
  \/ SendReboot(c)

Next ==
  \/ OtaThread
  \/ \E c \in Clients : Call(c) \/ Timeout(c)
  \/ PowerLoss

\* The OTA thread never stops; nothing forces a client to call or time out.
Spec == Init /\ [][Next]_vars /\ WF_vars(OtaThread)

-----------------------------------------------------------------------------
(* Properties.                                                             *)

TypeOK ==
  /\ ota_state \in States
  /\ total_size \in Nat /\ bytes_written \in 0 .. FlashSize
  /\ secondary_fa \in BOOLEAN /\ boot_pending \in BOOLEAN
  /\ write_buffer \in Seq(Unit) /\ received \in Seq(Unit)
  /\ flash \in [Cells -> Unit]
  /\ Len(ota_msgq) <= QueueSize
  /\ phase \in Phases
  /\ client \in [Clients -> [busy : BOOLEAN, chunk : Seq(Unit),
                             sent : 0 .. FlashSize]]
  /\ acked \in SUBSET Unit
  /\ faults \in 0 .. MaxMishaps
  /\ timeouts \in 0 .. MaxMishaps
  /\ boots \in 0 .. MaxMishaps

\* As long as the slot is open, what flush_write_buffer has written of it and
\* what write_buffer still holds are together exactly the units taken over
\* since the last ota_start_update: whatever flushes failed half way and were
\* repeated, whoever aborted and started over, whichever late requests of
\* timed-out callers came in between.
SlotIsReceived ==
  LET flushed == bytes_written - Len(write_buffer) IN
  secondary_fa =>
    /\ Len(received) = bytes_written
    /\ \A i \in 1 .. flushed : flash[i] = received[i]
    /\ write_buffer = SubSeq(received, flushed + 1, bytes_written)

\* What is buffered will be written to an aligned offset, as the flash driver
\* requires: only the flush that ends an update is padded.
FlushAligned ==
  write_buffer # <<>> => (bytes_written - Len(write_buffer)) % WriteAlign = 0

\* The update never outgrows the announced size, nor the slot, nor the buffer.
WithinSlot ==
  secondary_fa =>
    /\ bytes_written <= total_size /\ bytes_written <= FlashSize
    /\ Len(write_buffer) <= BufferSize

\* The slot and the buffer together are the update so far, aligned and inside
\* what was announced.
SlotSound == SlotIsReceived /\ FlushAligned /\ WithinSlot

\* COMPLETE, "Ready - reboot to apply": the bootloader will try the slot, and
\* the slot holds the magic and every unit taken over.  A request another
\* client queued before the update was finished cannot spoil it.
CompleteIsBootable ==
  ota_state = "COMPLETE" =>
    /\ boot_pending
    /\ IsMagic(flash[1])
    /\ \A i \in 1 .. Len(received) : flash[i] = received[i]

\* "For write operations, we need synchronous handling to detect errors"
\* (ota_write_chunk): as long as no call timed out, a unit whose write was
\* answered with OTA_OK is part of the update in progress.  A late answer to
\* a call that timed out may be taken for the answer to the next one.
AckedReceived == timeouts = 0 => acked \subseteq UnitsOf(received)

\* The OTA manager keeps the promise of FirmwareSlot.tla: flash and write
\* buffer are together one sequence that only grows until it is thrown away,
\* through every refused operation, repeated flush and late request, and the
\* bootloader is asked to try it only when all of it is written.
Image ==
  LET flushed == bytes_written - Len(write_buffer)
  IN  [i \in 1 .. bytes_written |->
         IF i <= flushed THEN flash[i] ELSE write_buffer[i - flushed]]
Slot == INSTANCE FirmwareSlot
  WITH IsFirst <- IsMagic, Sizes <- Sizes \cup {FlashSize}, Capacity <- FlashSize,
       state <- ota_state, expected <- total_size, open <- secondary_fa,
       image <- Image, pending <- boot_pending
KeepsPromise == Slot!Spec

\* Every call to the OTA API returns, also without its 120 s timeout: the OTA
\* thread answers each message, whatever its operation found.
EveryCallReturns == \A c \in Clients : client[c].busy ~> ~client[c].busy
=============================================================================
