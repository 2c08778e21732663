----------------------------- MODULE KernelTimer -----------------------------
(***************************************************************************)
(* Software timers (src/akira/kernel/timer.c) over Zephyr's k_timer.       *)
(*                                                                         *)
(* Only create and destroy take timer_mgr.mutex.  start, stop, pause and   *)
(* resume change the kernel timer first and the state after it, and        *)
(* timer_expiry_handler runs in the timer interrupt between any two of     *)
(* their steps; its callback may stop or reset its own timer.  A timer is  *)
(* used by the thread that created it: nothing in the code lets two        *)
(* threads share one.  Time and ids are left out: an armed timer may fire. *)
(*                                                                         *)
(* History: shots counts how often a timer fired since its last start;     *)
(* late marks one that fired before its start, pause or resume was done.   *)
(***************************************************************************)
EXTENDS Integers, FiniteSets

CONSTANTS
  Threads,    \* threads that use timers
  NoThread,
  MaxTimers,  \* AKIRA_MAX_TIMERS
  MaxShots    \* bound: expiries counted

VARIABLES
  timers,       \* timer_mgr.timers
  active_count, \* timer_mgr.active_count
  call          \* what each thread is in the middle of

vars == <<timers, active_count, call>>

Slots == 1 .. MaxTimers
Modes == {"ONESHOT", "PERIODIC"}
States == {"STOPPED", "RUNNING", "EXPIRED", "PAUSED"}

Free == [in_use |-> FALSE, owner |-> NoThread, mode |-> "ONESHOT", state |-> "STOPPED",
         armed |-> FALSE, shots |-> 0, late |-> FALSE]
InUse == {s \in Slots : timers[s].in_use}
Idle == [op |-> "idle", slot |-> 0]
Owns(t, s) == timers[s].in_use /\ timers[s].owner = t /\ call[t] = Idle

Continue(t, op, s) == call' = [call EXCEPT ![t] = [op |-> op, slot |-> s]]
Return(t) == call' = [call EXCEPT ![t] = Idle]
SetTimer(s, r) == timers' = [timers EXCEPT ![s] = r]

-----------------------------------------------------------------------------
(* Zephyr's k_timer: starting one that runs rearms it; stopping one that   *)
(* runs calls the stop handler in the caller.                              *)

Armed(r) == [r EXCEPT !.armed = TRUE]
Disarmed(r) ==
  IF r.armed THEN [r EXCEPT !.armed = FALSE, !.state = "STOPPED"] ELSE r

-----------------------------------------------------------------------------
(* Under the mutex.                                                        *)

Lowest(S) == CHOOSE s \in S : \A u \in S : s <= u

\* start_immediately goes on with akira_timer_start.
Create(t, mode, immediately) ==
  LET s == Lowest(Slots \ InUse) IN
  /\ call[t] = Idle /\ InUse # Slots
  /\ SetTimer(s, [Free EXCEPT !.in_use = TRUE, !.owner = t, !.mode = mode])
  /\ active_count' = active_count + 1
  /\ IF immediately THEN Continue(t, "start", s) ELSE UNCHANGED call

DestroyedBug(r) == [r EXCEPT !.in_use = FALSE]  \* mutation: the timer is not stopped
Destroyed(r) == [Disarmed(r) EXCEPT !.in_use = FALSE]
Destroy(t, s) ==
  /\ Owns(t, s)
  /\ SetTimer(s, Destroyed(timers[s]))
  /\ active_count' = active_count - 1 /\ UNCHANGED call

-----------------------------------------------------------------------------
(* Without the mutex: the kernel timer and then the state.                 *)

StartCall(t, s) ==
  /\ Owns(t, s) /\ Continue(t, "start", s) /\ UNCHANGED <<timers, active_count>>

Arm(t) ==
  LET s == call[t].slot IN
  /\ call[t].op = "start"
  /\ SetTimer(s, [Armed(timers[s]) EXCEPT !.shots = 0, !.late = FALSE])
  /\ Continue(t, "started", s) /\ UNCHANGED active_count

\* The state is written over whatever the interrupt has made of it.
Started(t) ==
  LET s == call[t].slot IN
  /\ call[t].op = "started"
  /\ SetTimer(s, [timers[s] EXCEPT !.state = "RUNNING", !.late = ~timers[s].armed])
  /\ Return(t) /\ UNCHANGED active_count

\* akira_timer_stop() and, with again, akira_timer_reset(); akira_timer_set_period()
\* resets a timer that is RUNNING.
Stop(t, s, again) ==
  /\ Owns(t, s) /\ SetTimer(s, Disarmed(timers[s]))
  /\ Continue(t, IF again THEN "stopped_reset" ELSE "stopped", s) /\ UNCHANGED active_count

SetPeriod(t, s) == timers[s].state = "RUNNING" /\ Stop(t, s, TRUE)

Stopped(t) ==
  LET s == call[t].slot IN
  /\ call[t].op \in {"stopped", "stopped_reset"}
  /\ SetTimer(s, [timers[s] EXCEPT !.state = "STOPPED"])
  /\ IF call[t].op = "stopped" THEN Return(t) ELSE Continue(t, "start", s)
  /\ UNCHANGED active_count

\* akira_timer_pause(): the test of RUNNING, the stop, the state.
PauseCheck(t, s) ==
  /\ Owns(t, s) /\ timers[s].state = "RUNNING"
  /\ Continue(t, "pause", s) /\ UNCHANGED <<timers, active_count>>
PauseStop(r) == Disarmed([r EXCEPT !.late = @ \/ ~r.armed])
Pause(t) ==
  LET s == call[t].slot IN
  /\ call[t].op = "pause" /\ SetTimer(s, PauseStop(timers[s]))
  /\ Continue(t, "paused", s) /\ UNCHANGED active_count
Paused(t) ==
  LET s == call[t].slot IN
  /\ call[t].op = "paused" /\ SetTimer(s, [timers[s] EXCEPT !.state = "PAUSED"])
  /\ Return(t) /\ UNCHANGED active_count

ResumeArm(t, s) ==
  /\ Owns(t, s) /\ timers[s].state = "PAUSED"
  /\ SetTimer(s, Armed(timers[s]))
  /\ Continue(t, "resumed", s) /\ UNCHANGED active_count
Resumed(t) ==
  LET s == call[t].slot IN
  /\ call[t].op = "resumed"
  /\ SetTimer(s, [timers[s] EXCEPT !.state = "RUNNING", !.late = @ \/ ~timers[s].armed])
  /\ Return(t) /\ UNCHANGED active_count

-----------------------------------------------------------------------------
(* The interrupt: timer_expiry_handler() and the callback it calls.        *)

Expired(r) ==
  [r EXCEPT !.shots = @ + 1, !.armed = r.mode # "ONESHOT",
            !.state = IF r.mode = "ONESHOT" THEN "EXPIRED" ELSE @]

\* A callback that stops its timer leaves it STOPPED, one that resets it RUNNING.
Callback(r) ==
  {r, [Disarmed(r) EXCEPT !.state = "STOPPED"],
   [Armed(r) EXCEPT !.state = "RUNNING", !.shots = 0, !.late = FALSE]}

Fire(s) ==
  /\ timers[s].in_use /\ timers[s].armed /\ timers[s].shots < MaxShots
  /\ \E r \in Callback(Expired(timers[s])) : SetTimer(s, r)
  /\ UNCHANGED <<active_count, call>>

-----------------------------------------------------------------------------
Init ==
  /\ timers = [s \in Slots |-> Free]
  /\ active_count = 0
  /\ call = [t \in Threads |-> Idle]

Next ==
  \/ \E t \in Threads, m \in Modes, b \in BOOLEAN : Create(t, m, b)
  \/ \E t \in Threads, s \in Slots :
       \/ Destroy(t, s) \/ StartCall(t, s) \/ SetPeriod(t, s)
       \/ Stop(t, s, FALSE) \/ Stop(t, s, TRUE) \/ PauseCheck(t, s) \/ ResumeArm(t, s)
  \/ \E t \in Threads : Arm(t) \/ Started(t) \/ Stopped(t) \/ Pause(t) \/ Paused(t) \/ Resumed(t)
  \/ \E s \in Slots : Fire(s)

Spec == Init /\ [][Next]_vars

-----------------------------------------------------------------------------
(* Properties.                                                             *)

Timer == [in_use : BOOLEAN, owner : Threads \cup {NoThread}, mode : Modes,
          state : States, armed : BOOLEAN, shots : 0 .. MaxShots, late : BOOLEAN]
Ops == {"idle", "start", "started", "stopped", "stopped_reset", "pause", "paused", "resumed"}

\* Timers and calls have their types, and the count is that of the slots in use.
TypeOK ==
  /\ timers \in [Slots -> Timer]
  /\ call \in [Threads -> [op : Ops, slot : Slots \cup {0}]]
  /\ active_count = Cardinality(InUse)

InCall(s) == \E t \in Threads : call[t].slot = s

\* A timer that its owner sees STOPPED, PAUSED, EXPIRED or destroyed does not
\* fire any more, whatever the interrupt and its callback did between the two
\* writes of the call: and a slot is given away disarmed.
QuietIsDisarmed ==
  \A s \in Slots : timers[s].armed => timers[s].in_use /\ (InCall(s) \/ timers[s].state = "RUNNING")

\* A one-shot timer fires once for every start, through pauses and resumes;
\* unless it expired inside one of these calls, whose last write hides it.
OneshotFiresOnce ==
  \A s \in InUse :
    timers[s].mode = "ONESHOT" /\ ~timers[s].late => timers[s].shots <= 1

\* Both together.
TimersSound == QuietIsDisarmed /\ OneshotFiresOnce

=============================================================================
