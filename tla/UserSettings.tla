---------------------------- MODULE UserSettings ----------------------------
(***************************************************************************)
(* The user settings (src/settings/settings.c): a copy in memory under a   *)
(* mutex, a dirty bit outside it, and the stored values, which a work      *)
(* queue loads and saves.  Callers set, reset and save from any thread; a  *)
(* load writes the memory without the mutex.  The passcode goes with the   *)
(* SSID and is left out.  A value is 0 (the default) or 1.                 *)
(*                                                                         *)
(* History: overtaken says that since boot a change fell between a save's  *)
(* unlock and its clearing of the bit, or that a load met a change that    *)
(* was not saved; crossed, that a listener was passed over, or told of two *)
(* changes of a setting by two threads at once.                            *)
(***************************************************************************)
EXTENDS Integers, Sequences, TLC

CONSTANTS
  Threads,  \* callers of the API; the work queue is the thread "workq"
  Settable, \* bound: the settings that callers set
  MaxBoots  \* bound: restarts

VARIABLES
  memory,   \* current_settings
  dirty,    \* settings_dirty
  stored,   \* the values in flash; Absent is a key that is not there
  lock,     \* settings_mutex: its holder, or "none"
  call,     \* what each thread is in the middle of
  queued,   \* the work items submitted and not begun, in order
  heard,    \* what a registered listener was last told
  boots, overtaken, crossed \* history

vars == <<memory, dirty, stored, lock, call, queued, heard, boots, overtaken, crossed>>

Order == <<"device_id", "wifi_ssid", "wifi_enabled">> \* the order of saving
Keys == {Order[i] : i \in DOMAIN Order}
Absent == 2
Default == [k \in Keys |-> 0]
Runners == Threads \union {"workq"}

Idle == [op |-> "idle"]
Saving(at, ok) == [op |-> "save", at |-> at, ok |-> ok]
Loading(at) == [op |-> "load", at |-> at]
Notifying(told, then) == [op |-> "notify", told |-> told, then |-> then]
IsIn(t, op) == call[t].op = op
Goes(t, c) == call' = [call EXCEPT ![t] = c]

\* What a boot makes of the stored value of k: the default if it is absent.
AtBoot(k) == IF stored[k] = Absent THEN 0 ELSE stored[k]

\* settings_save_one(): an empty string deletes the key.
Written(k, v) == IF k = "wifi_ssid" /\ v = 0 THEN Absent ELSE v

-----------------------------------------------------------------------------
(* Setting.                                                                *)

\* The memory gets new values and the bit is set, under the mutex; the
\* listeners are told of told after it is released.
Change(t, values, told, then) ==
  /\ memory' = values /\ dirty' = TRUE /\ Goes(t, Notifying(told, then))
  /\ overtaken' = (overtaken \/ \E u \in Runners : IsIn(u, "load") \/ IsIn(u, "clear"))
  /\ crossed' = (crossed \/ \E u \in Runners \ {t} : IsIn(u, "notify") \/ IsIn(u, "load"))

\* user_settings_set_device_id(), _set_wifi_credentials(), _set_wifi_enabled().
SettingSet(t, k, v) ==
  /\ IsIn(t, "idle") /\ lock = "none" /\ memory[k] # v
  /\ Change(t, [memory EXCEPT ![k] = v], k :> v, "idle")
  /\ UNCHANGED <<stored, lock, queued, heard, boots>>

\* user_settings_reset(): a synchronous save follows.
Reset(t) ==
  /\ IsIn(t, "idle") /\ lock = "none"
  /\ Change(t, Default, Default, "save")
  /\ UNCHANGED <<stored, lock, queued, heard, boots>>

\* notify_callbacks(), with the values it was given: the values are those of
\* the change, whatever the memory holds by now.  After 100 ms without
\* callback_mutex it gives up.
Notify(t) ==
  /\ IsIn(t, "notify")
  /\ \/ heard' = call[t].told @@ heard /\ UNCHANGED crossed
     \/ crossed' = TRUE /\ UNCHANGED heard
  /\ Goes(t, IF call[t].then = "save" THEN [op |-> "begin"] ELSE Idle)
  /\ UNCHANGED <<memory, dirty, stored, lock, queued, boots, overtaken>>

-----------------------------------------------------------------------------
(* Saving: save_work_handler(), on the work queue or in save_sync().       *)

\* user_settings_save_sync().
SaveSync(t) ==
  /\ IsIn(t, "idle") /\ Goes(t, [op |-> "begin"])
  /\ UNCHANGED <<memory, dirty, stored, lock, queued, heard, boots, overtaken, crossed>>

SaveBegin(t) ==
  /\ IsIn(t, "begin")
  /\ \/ ~dirty /\ Goes(t, Idle) /\ UNCHANGED lock
     \/ dirty /\ lock = "none" /\ lock' = t /\ Goes(t, Saving(1, TRUE))
  /\ UNCHANGED <<memory, dirty, stored, queued, heard, boots, overtaken, crossed>>

\* A failure skips the strings that follow, never wifi_enabled, the last.
AfterWrite(at, ok) == IF ok THEN at + 1 ELSE IF at < Len(Order) THEN Len(Order) ELSE at + 1

\* One settings_save_one(), which a load in progress holds up.
SaveWrite(t) ==
  /\ IsIn(t, "save") /\ ~ \E u \in Runners : IsIn(u, "load")
  /\ LET at == call[t].at
         k == Order[at]
     IN \E ok \in BOOLEAN :
          /\ stored' = IF ok THEN [stored EXCEPT ![k] = Written(k, memory[k])] ELSE stored
          /\ LET good == call[t].ok /\ ok
                 next == AfterWrite(at, ok)
             IN IF next > Len(Order)
                THEN lock' = "none" /\ Goes(t, [op |-> "clear", ok |-> good])
                ELSE UNCHANGED lock /\ Goes(t, Saving(next, good))
  /\ UNCHANGED <<memory, dirty, queued, heard, boots, overtaken, crossed>>

StillDirty(ok) == ~ok
SaveClear(t) ==
  /\ IsIn(t, "clear") /\ dirty' = StillDirty(call[t].ok) /\ Goes(t, Idle)
  /\ UNCHANGED <<memory, stored, lock, queued, heard, boots, overtaken, crossed>>

-----------------------------------------------------------------------------
(* The work queue.                                                         *)

\* user_settings_save() and user_settings_load(): an item that is queued
\* already is not queued twice.
Submit(item) ==
  /\ item = "save" => dirty
  /\ \A i \in DOMAIN queued : queued[i] # item
  /\ queued' = Append(queued, item)
  /\ UNCHANGED <<memory, dirty, stored, lock, call, heard, boots, overtaken, crossed>>

WorkBegin ==
  /\ IsIn("workq", "idle") /\ queued # <<>> /\ queued' = Tail(queued)
  /\ \/ Head(queued) = "save" /\ Goes("workq", [op |-> "begin"]) /\ UNCHANGED overtaken
     \/ Head(queued) = "load" /\ Goes("workq", Loading(1)) /\ overtaken' = (overtaken \/ dirty)
  /\ UNCHANGED <<memory, dirty, stored, lock, heard, boots, crossed>>

\* settings_set_handler(), once for each key that is stored, without the
\* mutex and without a word to the listeners.
LoadKey ==
  /\ IsIn("workq", "load") /\ call["workq"].at <= Len(Order)
  /\ LET at == call["workq"].at
         k == Order[at]
     IN /\ memory' = IF stored[k] = Absent THEN memory ELSE [memory EXCEPT ![k] = stored[k]]
        /\ Goes("workq", Loading(at + 1))
  /\ crossed' = (crossed \/ memory' # memory)
  /\ UNCHANGED <<dirty, stored, lock, queued, heard, boots, overtaken>>

\* settings_commit_handler().
LoadCommit ==
  /\ IsIn("workq", "load") /\ call["workq"].at > Len(Order)
  /\ dirty' = FALSE /\ Goes("workq", Idle)
  /\ UNCHANGED <<memory, stored, lock, queued, heard, boots, overtaken, crossed>>

-----------------------------------------------------------------------------
\* A restart, then user_settings_init().
Boot ==
  /\ boots < MaxBoots /\ boots' = boots + 1
  /\ memory' = Default /\ dirty' = FALSE /\ lock' = "none"
  /\ call' = [t \in Runners |-> Idle] /\ queued' = <<"load">>
  /\ heard' = Default /\ overtaken' = FALSE /\ crossed' = FALSE
  /\ UNCHANGED stored

Init ==
  /\ memory = Default /\ dirty = FALSE /\ stored = [k \in Keys |-> Absent]
  /\ lock = "none" /\ call = [t \in Runners |-> Idle] /\ queued = <<"load">>
  /\ heard = Default /\ boots = 0 /\ overtaken = FALSE /\ crossed = FALSE

Next ==
  \/ \E t \in Threads :
       \/ \E k \in Settable, v \in {0, 1} : SettingSet(t, k, v)
       \/ Reset(t) \/ Notify(t) \/ SaveSync(t)
  \/ \E t \in Runners : SaveBegin(t) \/ SaveWrite(t) \/ SaveClear(t)
  \/ \E item \in {"save", "load"} : Submit(item)
  \/ WorkBegin \/ LoadKey \/ LoadCommit \/ Boot

Spec == Init /\ [][Next]_vars

-----------------------------------------------------------------------------
(* Properties.                                                             *)

\* The variables keep their types.
TypeOK ==
  /\ memory \in [Keys -> {0, 1}] /\ heard \in [Keys -> {0, 1}]
  /\ stored \in [Keys -> {0, 1, Absent}] /\ lock \in Runners \union {"none"}
  /\ \A t \in Runners : call[t].op \in {"idle", "notify", "begin", "save", "clear", "load"}
  /\ Len(queued) <= 2

\* When the dirty bit says that there is nothing to save, a restart would
\* bring back the settings in memory, once the load of the last boot is
\* done and unless a change fell into a window.
CleanIsSaved ==
  ~dirty /\ ~overtaken /\ ~IsIn("workq", "load") /\ (\A i \in DOMAIN queued : queued[i] # "load")
    => \A k \in Keys : memory[k] = AtBoot(k)

\* A listener that was told of every change, one at a time, knows the
\* settings once the callers have returned.
ListenerInStep ==
  ~crossed /\ (\A t \in Runners : ~IsIn(t, "notify")) => heard = memory

=============================================================================
