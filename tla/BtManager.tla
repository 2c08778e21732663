----------------------------- MODULE BtManager ------------------------------
(***************************************************************************)
(* The Bluetooth manager (src/connectivity/bluetooth/bt_manager.c) over    *)
(* Zephyr's host, with CONFIG_BT_MAX_CONN=1.                               *)
(*                                                                         *)
(* The host calls connected_cb() and disconnected_cb() on its receive      *)
(* thread, which the callers of the API, of lower priority, cannot         *)
(* interrupt: a callback is one step.  The API takes no mutex: it tests    *)
(* the state, calls the host and writes the state, and callbacks and other *)
(* callers come between.                                                   *)
(*                                                                         *)
(* History: overtaken says that since the last callback a call ran beside  *)
(* another call or the callback.                                           *)
(***************************************************************************)
EXTENDS Integers

CONSTANTS
  Threads,       \* callers: shell, HID manager, main
  AutoAdvertise, \* config.auto_advertise
  MaxLinks       \* bound: connections

VARIABLES
  initialized, \* bt_mgr.initialized
  state,       \* bt_mgr.state
  conn,        \* bt_mgr.current_conn is set, and holds a reference
  stats,       \* bt_mgr.stats
  adv,         \* the host advertises
  link,        \* the host's connection: "none", "up" or "closing"
  refs,        \* references to the connection that the manager holds
  call,        \* what each thread is in the middle of
  overtaken    \* history

vars == <<initialized, state, conn, stats, adv, link, refs, call, overtaken>>

Others(t) == \E u \in Threads \ {t} : call[u] # "idle"
Busy == \E t \in Threads : call[t] # "idle"
Goto(t, op) == call' = [call EXCEPT ![t] = op]

\* bt_le_adv_start() refuses while it advertises or is connected, and may fail.
AdvStarts == ~adv /\ link = "none"

-----------------------------------------------------------------------------
(* The callers.                                                            *)

StartCheck(t) ==
  /\ call[t] = "idle" /\ initialized /\ state # "CONNECTED" /\ Goto(t, "start")
  /\ UNCHANGED <<initialized, state, conn, stats, adv, link, refs, overtaken>>
StartAdv(t) ==
  /\ call[t] = "start"
  /\ \/ AdvStarts /\ adv' = TRUE /\ Goto(t, "started")
     \/ UNCHANGED adv /\ Goto(t, "idle")
  /\ overtaken' = (overtaken \/ Others(t))
  /\ UNCHANGED <<initialized, state, conn, stats, link, refs>>

StartedStateBug == "READY"  \* mutation: advertising is not shown
StartedState == "ADVERTISING"
Started(t) ==
  /\ call[t] = "started" /\ state' = StartedState /\ Goto(t, "idle")
  /\ UNCHANGED <<initialized, conn, stats, adv, link, refs, overtaken>>

\* With final: the end of bt_manager_deinit(), whose disconnect comes first.
StopCheck(t) ==
  /\ call[t] = "idle" /\ state = "ADVERTISING" /\ Goto(t, "stop")
  /\ UNCHANGED <<initialized, state, conn, stats, adv, link, refs, overtaken>>
StopAdv(t) ==
  /\ call[t] \in {"stop", "deinit_stop"} /\ adv' = FALSE
  /\ overtaken' = (overtaken \/ Others(t))
  /\ Goto(t, IF call[t] = "stop" THEN "stopped" ELSE "deinit_stopped")
  /\ UNCHANGED <<initialized, state, conn, stats, link, refs>>
Stopped(t) ==
  /\ call[t] \in {"stopped", "deinit_stopped"} /\ state' = "READY"
  /\ Goto(t, IF call[t] = "stopped" THEN "idle" ELSE "off")
  /\ UNCHANGED <<initialized, conn, stats, adv, link, refs, overtaken>>

\* The callback reports the end of the connection.
Closing == link' = IF conn /\ link = "up" THEN "closing" ELSE link
Disconnect(t) ==
  /\ call[t] = "idle" /\ initialized /\ conn /\ Closing
  /\ UNCHANGED <<initialized, state, conn, stats, adv, refs, call, overtaken>>

Deinit(t) ==
  /\ call[t] = "idle" /\ initialized /\ Closing /\ Goto(t, "deinit")
  /\ UNCHANGED <<initialized, state, conn, stats, adv, refs, overtaken>>
DeinitStop(t) ==
  /\ call[t] = "deinit" /\ Goto(t, IF state = "ADVERTISING" THEN "deinit_stop" ELSE "off")
  /\ UNCHANGED <<initialized, state, conn, stats, adv, link, refs, overtaken>>
Off(t) ==
  /\ call[t] = "off" /\ initialized' = FALSE /\ state' = "OFF" /\ Goto(t, "idle")
  /\ UNCHANGED <<conn, stats, adv, link, refs, overtaken>>

\* The host stays enabled: bt_enable() refuses a second time.
Reinit(t) ==
  /\ call[t] = "idle" /\ ~initialized /\ state' = "ERROR"
  /\ stats' = [connections |-> 0, disconnections |-> 0]
  /\ UNCHANGED <<initialized, conn, adv, link, refs, call, overtaken>>

-----------------------------------------------------------------------------
(* The host's callbacks.                                                   *)

Connected ==
  /\ adv /\ link = "none" /\ stats.connections < MaxLinks
  /\ adv' = FALSE /\ link' = "up" /\ conn' = TRUE /\ refs' = refs + 1
  /\ state' = "CONNECTED" /\ overtaken' = Busy
  /\ stats' = [stats EXCEPT !.connections = @ + 1]
  /\ UNCHANGED <<initialized, call>>

ConnectFailed ==
  /\ adv /\ link = "none" /\ adv' = FALSE
  /\ state' = "READY" /\ overtaken' = Busy
  /\ UNCHANGED <<initialized, conn, stats, link, refs, call>>

Unref == IF conn THEN refs - 1 ELSE refs
\* bt_manager_start_advertising() is called at the end, and may fail.
Disconnected ==
  /\ link # "none" /\ link' = "none"
  /\ conn' = FALSE /\ refs' = Unref /\ overtaken' = Busy
  /\ stats' = [stats EXCEPT !.disconnections = @ + 1]
  /\ \/ state' = "READY" /\ UNCHANGED adv
     \/ AutoAdvertise /\ initialized /\ ~adv /\ adv' = TRUE /\ state' = "ADVERTISING"
  /\ UNCHANGED <<initialized, call>>

-----------------------------------------------------------------------------
\* bt_manager_init() has returned, before it starts to advertise.
Init ==
  /\ initialized = TRUE /\ state = "READY" /\ conn = FALSE
  /\ stats = [connections |-> 0, disconnections |-> 0]
  /\ adv = FALSE /\ link = "none" /\ refs = 0
  /\ call = [t \in Threads |-> "idle"] /\ overtaken = FALSE

Next ==
  \/ \E t \in Threads :
       \/ StartCheck(t) \/ StartAdv(t) \/ Started(t) \/ StopCheck(t) \/ StopAdv(t) \/ Stopped(t)
       \/ Disconnect(t) \/ Deinit(t) \/ DeinitStop(t) \/ Off(t) \/ Reinit(t)
  \/ Connected \/ ConnectFailed \/ Disconnected

Spec == Init /\ [][Next]_vars

-----------------------------------------------------------------------------
(* Properties.                                                             *)

\* The variables keep their types.
TypeOK ==
  /\ state \in {"READY", "ADVERTISING", "CONNECTED", "OFF", "ERROR"}
  /\ link \in {"none", "up", "closing"} /\ adv \in BOOLEAN /\ initialized \in BOOLEAN
  /\ call \in [Threads -> {"idle", "start", "started", "stop", "stopped", "deinit",
                           "deinit_stop", "deinit_stopped", "off"}]

\* The manager holds one reference to the connection the host has, and none
\* otherwise, through deinit too: a connection whose reference is kept could
\* never be used again.
HoldsTheLink ==
  /\ conn <=> link # "none"
  /\ refs = IF conn THEN 1 ELSE 0

\* CONNECTED is only shown of a connection that is held.
ConnectedIsHeld == state = "CONNECTED" => conn

\* Unless a call was overtaken, the state is what the host does.
StateIsLink ==
  initialized /\ ~Busy /\ ~overtaken =>
    (state = "CONNECTED" <=> link # "none") /\ (state = "ADVERTISING" <=> adv)

\* All three.
LinkSound == HoldsTheLink /\ ConnectedIsHeld /\ StateIsLink
=============================================================================
