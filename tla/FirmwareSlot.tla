---------------------------- MODULE FirmwareSlot ----------------------------
(***************************************************************************)
(* What the OTA manager (src/OTA/ota_manager.c) promises its clients: an   *)
(* update is a sequence of units that only grows until it is thrown away,  *)
(* and the bootloader is asked to try it only when it starts with the      *)
(* magic and nothing of it is still to be written.  There is no flash, no  *)
(* write buffer, no queue and no thread here; OtaManager.tla, which has    *)
(* them, implements this specification, and OtaClients.tla builds on it.   *)
(***************************************************************************)
EXTENDS Integers, Sequences

CONSTANTS
  IsFirst(_), \* the unit starts a firmware image
  Sizes,      \* sizes of an update
  Capacity    \* units in the slot

VARIABLES
  state,    \* ota_status.state
  expected, \* ota_status.total_size
  open,     \* an update may be written
  image,    \* the update
  pending   \* the bootloader will try the slot
slotVars == <<state, expected, open, image, pending>>

Init ==
  /\ state = "IDLE" /\ expected = 0
  /\ open = FALSE
  /\ image = <<>>
  /\ pending = FALSE

\* ota_start_update throws away what was there, in any state.
Start(size) ==
  /\ state' = "RECEIVING"
  /\ expected' = size
  /\ open' = TRUE
  /\ image' = <<>>
  /\ pending' = FALSE

StartFails ==
  /\ state' = "ERROR" /\ expected' = 0
  /\ open' = FALSE
  /\ image' = <<>>
  /\ pending' \in {pending, FALSE}

\* ota_write_chunk, or the part of it up to a refused flash operation.
Accepts(n) ==
  /\ open /\ state = "RECEIVING"
  /\ Len(image) + n <= expected /\ Len(image) + n <= Capacity

Take(units) ==
  /\ Accepts(Len(units))
  /\ image' = image \o units
  /\ UNCHANGED <<state, expected, open, pending>>

\* ota_finalize_update.
Bootable == image # <<>> /\ IsFirst(image[1])
Finalizable == open /\ state = "RECEIVING" /\ Bootable

Complete ==
  /\ Finalizable
  /\ state' = "COMPLETE"
  /\ open' = FALSE
  /\ pending' = TRUE
  /\ UNCHANGED <<expected, image>>

\* An operation failed: nothing changes but the state shown.
Fail ==
  /\ state' = "ERROR"
  /\ UNCHANGED <<expected, open, image, pending>>

\* ota_abort_update, and the slot's part of a reset: MCUboot takes a pending
\* image over.
Discard ==
  /\ state' = "IDLE" /\ expected' = 0
  /\ open' = FALSE
  /\ image' = <<>>
Abort == Discard /\ UNCHANGED pending
PowerUp == Discard /\ pending' = FALSE

Next ==
  \/ \E size \in Sizes : Start(size)
  \/ StartFails
  \/ Take(SubSeq(image', Len(image) + 1, Len(image')))
  \/ Complete \/ Fail \/ Abort \/ PowerUp

Spec == Init /\ [][Next]_slotVars
=============================================================================
