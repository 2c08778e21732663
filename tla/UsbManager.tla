----------------------------- MODULE UsbManager -----------------------------
(***************************************************************************)
(* The USB manager (src/connectivity/usb/usb_manager.c) over Zephyr's USB  *)
(* device stack, whose status callback runs between any two steps of the   *)
(* callers: they call the stack first and write the state after it.        *)
(*                                                                         *)
(* History: overtaken says that the callback came inside a call, or after  *)
(* a disable, since the last time it came alone.                           *)
(***************************************************************************)
EXTENDS Integers

CONSTANT MaxEvents \* bound: status callbacks

VARIABLES
  initialized, \* usb_mgr.initialized
  state,       \* usb_mgr.state
  stack,       \* the stack is enabled
  cable,       \* what it last reported: "none", "up" or "suspended"
  call,        \* what the caller is in the middle of
  events, overtaken \* history

vars == <<initialized, state, stack, cable, call, events, overtaken>>

-----------------------------------------------------------------------------
(* The caller.                                                             *)

\* usb_manager_init(): usb_enable() may fail, and callbacks may come at once.
InitEnable ==
  /\ call = "idle" /\ ~initialized
  /\ \/ stack' = TRUE /\ call' = "init" /\ state' = "INITIALIZING"
     \/ state' = "ERROR" /\ UNCHANGED <<stack, call>>
  /\ UNCHANGED <<initialized, cable, events, overtaken>>
InitReady ==
  /\ call = "init" /\ call' = "idle" /\ initialized' = TRUE /\ state' = "READY"
  /\ overtaken' = (overtaken \/ cable # "none")
  /\ UNCHANGED <<stack, cable, events>>

\* usb_manager_deinit() and, without a look at initialized, usb_manager_disable().
StopStack(op) ==
  /\ call = "idle" /\ (op = "deinit" => initialized)
  /\ stack' = FALSE /\ call' = op
  /\ UNCHANGED <<initialized, state, cable, events, overtaken>>
StopOff ==
  /\ call \in {"deinit", "disable"} /\ call' = "idle" /\ state' = "OFF"
  /\ initialized' = (initialized /\ call # "deinit")
  /\ overtaken' = (overtaken \/ cable # "none")
  /\ UNCHANGED <<stack, cable, events>>

\* usb_manager_enable(), which the HID transport calls: the state is left alone.
Enable ==
  /\ call = "idle" /\ initialized /\ stack' = TRUE
  /\ overtaken' = (overtaken \/ state = "OFF")
  /\ UNCHANGED <<initialized, state, cable, call, events>>

-----------------------------------------------------------------------------
\* usb_status_cb(): connected or configured, suspended, resumed, disconnected.
CallbackState(now) ==
  CASE now = "up" -> "CONNECTED" [] now = "suspended" -> "SUSPENDED" [] OTHER -> "READY"
StatusCallback(now) ==
  /\ events < MaxEvents /\ events' = events + 1
  /\ IF now = "none" THEN cable # "none" ELSE stack
  /\ now = "suspended" => cable # "none"
  /\ cable' = now /\ state' = CallbackState(now)
  /\ overtaken' = (call # "idle" \/ ~stack)
  /\ UNCHANGED <<initialized, stack, call>>

-----------------------------------------------------------------------------
Init ==
  /\ initialized = FALSE /\ state = "OFF" /\ stack = FALSE
  /\ cable = "none" /\ call = "idle" /\ events = 0 /\ overtaken = FALSE

Next ==
  \/ InitEnable \/ InitReady \/ StopOff \/ Enable
  \/ \E op \in {"deinit", "disable"} : StopStack(op)
  \/ \E now \in {"none", "up", "suspended"} : StatusCallback(now)

Spec == Init /\ [][Next]_vars

-----------------------------------------------------------------------------
(* Properties.                                                             *)

\* The variables keep their types.
TypeOK ==
  /\ state \in {"OFF", "INITIALIZING", "READY", "CONNECTED", "SUSPENDED", "ERROR"}
  /\ cable \in {"none", "up", "suspended"} /\ call \in {"idle", "init", "deinit", "disable"}
  /\ events \in 0 .. MaxEvents

\* usb_manager_is_connected() and the suspended state say what the host does,
\* unless a callback was overtaken by a call that writes the state after it.
UsbSound ==
  call = "idle" /\ stack /\ ~overtaken =>
    /\ state = "CONNECTED" <=> cable = "up"
    /\ state = "SUSPENDED" <=> cable = "suspended"
=============================================================================
