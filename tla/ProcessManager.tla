--------------------------- MODULE ProcessManager ---------------------------
(***************************************************************************)
(* The process manager (src/akira/kernel/process.c): a table of slots, and *)
(* one Zephyr thread for each started process.                             *)
(*                                                                         *)
(* The API takes proc_mgr.mutex; a process's own thread writes its state   *)
(* without it, and akira_process_wait looks its slot up without it.  A     *)
(* call is therefore one step up to the point where the thread may run in  *)
(* the middle of it and be overwritten.  Processes are native: starting    *)
(* any other type is not implemented in the source, and nothing there sets *)
(* the state BLOCKED.                                                      *)
(*                                                                         *)
(* reaped, stacks and lost are history.  Operations whose name ends in     *)
(* Bug are mutations.                                                      *)
(***************************************************************************)
EXTENDS Integers, FiniteSets

CONSTANTS
  Callers,      \* threads that call the API
  NoCaller,     \* nobody holds the mutex
  MaxProcesses, \* AKIRA_MAX_PROCESSES
  ExitCodes,    \* codes given to akira_process_kill
  MaxPids,      \* bound: processes created
  MaxRefusals,  \* bound: refused stack allocations
  MaxLost       \* bound: stacks lost

ASSUME CallersAssumption == NoCaller \notin Callers
ASSUME SlotsAssumption == MaxProcesses \in Nat \ {0}
ASSUME CodesAssumption == ExitCodes \subseteq Int
ASSUME BoundsAssumption == MaxPids \in Nat /\ MaxRefusals \in Nat /\ MaxLost \in Nat

VARIABLES
  slots,         \* proc_mgr.slots, with the thread of each
  next_pid,
  process_count,
  lock,          \* who holds the mutex between two steps
  caller,        \* where each caller is, and the slot of its call
  reaped,        \* history: slots whose current process somebody waited for
  stacks,        \* history: stacks allocated and not freed
  lost,          \* history: those of them that no slot points to any more
  refusals

vars == <<slots, next_pid, process_count, lock, caller, reaped, stacks, lost,
          refusals>>

Slots == 1 .. MaxProcesses
NoSlot == 0

\* The thread of a slot: new before its first instruction, run in the native
\* entry, exit between its last write and k_sem_give.
Live == {"new", "run", "exit"}

Empty == [in_use |-> FALSE, pid |-> 0, state |-> "NONE", exit_code |-> 0,
          stack |-> FALSE, thread |-> "none", paused |-> FALSE, exit_sem |-> 0]
Idle == [pc |-> "idle", slot |-> NoSlot]

InUse == {s \in Slots : slots[s].in_use}
Free == Slots \ InUse
LowestFree == CHOOSE s \in Free : \A t \in Free : s <= t

\* The thread of s executes its next step.
Runs(s, at) == slots[s].thread = at /\ ~slots[s].paused

CanCall(c) == lock = NoCaller /\ caller[c].pc = "idle"
InCall(c, pc) == lock = c /\ caller[c].pc = pc

\* A call stops in front of the write that ends it, with the mutex.
Enter(c, pc, s) ==
  /\ lock' = c
  /\ caller' = [caller EXCEPT ![c] = [pc |-> pc, slot |-> s]]
Return(c) ==
  /\ lock' = NoCaller
  /\ caller' = [caller EXCEPT ![c] = Idle]

-----------------------------------------------------------------------------
\* akira_process_create.  k_sem_reset fails the waiters of the last process.
Create(c) ==
  /\ CanCall(c)
  /\ next_pid <= MaxPids /\ Free # {}
  /\ slots' = [slots EXCEPT ![LowestFree] =
       [@ EXCEPT !.in_use = TRUE, !.pid = next_pid, !.state = "CREATED",
                 !.exit_code = 0, !.exit_sem = 0]]
  /\ next_pid' = next_pid + 1
  /\ process_count' = process_count + 1
  /\ reaped' = reaped \ {LowestFree}
  /\ caller' = [d \in Callers |->
       IF caller[d].pc = "wait" /\ caller[d].slot = LowestFree THEN Idle ELSE caller[d]]
  /\ UNCHANGED <<lock, stacks, lost, refusals>>

Startable(s) == s \in InUse /\ slots[s].state \in {"CREATED", "READY"}

LostBy(s) == IF slots[s].stack THEN lost + 1 ELSE lost

\* akira_process_start: the test, the state and the thread.  READY passes the
\* test, so a second call creates the thread over itself and forgets its first
\* stack; that thread may run, and even end, around the write of READY.  What
\* k_thread_create does to a live thread is Zephyr's: it is replaced here.
Start(c, s) ==
  /\ CanCall(c) /\ Startable(s) /\ LostBy(s) <= MaxLost
  /\ Enter(c, "start", s)
  /\ UNCHANGED <<slots, next_pid, process_count, reaped, stacks, lost, refusals>>

StartReady(c) ==
  /\ InCall(c, "start")
  /\ slots' = [slots EXCEPT ![caller[c].slot].state = "READY"]
  /\ caller' = [caller EXCEPT ![c].pc = "ready"]
  /\ UNCHANGED <<next_pid, process_count, lock, reaped, stacks, lost, refusals>>

StartEnd(c) ==
  /\ InCall(c, "ready")
  /\ slots' = [slots EXCEPT ![caller[c].slot] =
       [@ EXCEPT !.stack = TRUE, !.thread = "new", !.paused = FALSE]]
  /\ stacks' = stacks + 1
  /\ lost' = LostBy(caller[c].slot)
  /\ Return(c)
  /\ UNCHANGED <<next_pid, process_count, reaped, refusals>>

\* k_thread_stack_alloc fails, and slot->stack is NULL.
StartRefused(c) ==
  /\ InCall(c, "ready") /\ refusals < MaxRefusals
  /\ slots' = [slots EXCEPT ![caller[c].slot].stack = FALSE]
  /\ lost' = LostBy(caller[c].slot)
  /\ refusals' = refusals + 1
  /\ Return(c)
  /\ UNCHANGED <<next_pid, process_count, reaped, stacks>>

-----------------------------------------------------------------------------
(* process_thread_entry, without the mutex. *)

ThreadStarts(s) ==
  /\ Runs(s, "new")
  /\ slots' = [slots EXCEPT ![s] = [@ EXCEPT !.state = "RUNNING", !.thread = "run"]]
  /\ UNCHANGED <<next_pid, process_count, lock, caller, reaped, stacks, lost, refusals>>

\* The entry returns; the stack stays allocated.
ThreadReturns(s) ==
  /\ Runs(s, "run")
  /\ slots' = [slots EXCEPT ![s] =
       [@ EXCEPT !.state = "TERMINATED", !.exit_code = 0, !.thread = "exit"]]
  /\ UNCHANGED <<next_pid, process_count, lock, caller, reaped, stacks, lost, refusals>>

ThreadExits(s) ==
  /\ Runs(s, "exit")
  /\ slots' = [slots EXCEPT ![s] = [@ EXCEPT !.thread = "none", !.exit_sem = 1]]
  /\ UNCHANGED <<next_pid, process_count, lock, caller, reaped, stacks, lost, refusals>>

\* k_thread_abort, k_thread_stack_free and k_sem_give at the end of stop and
\* kill.
AbortedBug(slot) == [slot EXCEPT !.stack = FALSE, !.thread = "none", !.paused = FALSE]
AbandonedBug(slot) == [slot EXCEPT !.stack = FALSE, !.exit_sem = 1]
Aborted(slot) ==
  [slot EXCEPT !.stack = FALSE, !.thread = "none", !.paused = FALSE, !.exit_sem = 1]

\* slot->stack is tested before it is freed, and forgotten after.
FreedBug(s) == 1
Freed(s) == IF slots[s].stack THEN 1 ELSE 0

AbortThread(s, state) ==
  /\ slots' = [slots EXCEPT ![s] = [Aborted(@) EXCEPT !.state = state]]
  /\ stacks' = stacks - Freed(s)

-----------------------------------------------------------------------------
\* akira_process_stop; a process that is not RUNNING is taken for stopped.  Its
\* thread may write the state once more before it is aborted.
Stop(c, s) ==
  /\ CanCall(c) /\ s \in InUse /\ slots[s].state = "RUNNING"
  /\ slots' = [slots EXCEPT ![s].state = "TERMINATED"]
  /\ Enter(c, "stop", s)
  /\ UNCHANGED <<next_pid, process_count, reaped, stacks, lost, refusals>>

StopEnd(c) ==
  /\ InCall(c, "stop")
  /\ AbortThread(caller[c].slot, slots[caller[c].slot].state)
  /\ Return(c)
  /\ UNCHANGED <<next_pid, process_count, reaped, lost, refusals>>

\* akira_process_kill, in any state; the thread may still write exit_code.
Kill(c, s, code) ==
  /\ CanCall(c) /\ s \in InUse
  /\ slots' = [slots EXCEPT ![s].exit_code = code]
  /\ Enter(c, "kill", s)
  /\ UNCHANGED <<next_pid, process_count, reaped, stacks, lost, refusals>>

KillEnd(c) ==
  /\ InCall(c, "kill")
  /\ AbortThread(caller[c].slot, "ZOMBIE")
  /\ Return(c)
  /\ UNCHANGED <<next_pid, process_count, reaped, lost, refusals>>

\* akira_process_suspend: the thread may have ended when it is suspended.
Suspend(c, s) ==
  /\ CanCall(c) /\ s \in InUse /\ slots[s].state = "RUNNING"
  /\ Enter(c, "suspend", s)
  /\ UNCHANGED <<slots, next_pid, process_count, reaped, stacks, lost, refusals>>

\* k_thread_suspend has no effect on a thread that has ended.
Suspended(slot) ==
  [slot EXCEPT !.state = "SUSPENDED", !.paused = slot.paused \/ slot.thread \in Live]

SuspendEnd(c) ==
  /\ InCall(c, "suspend")
  /\ slots' = [slots EXCEPT ![caller[c].slot] = Suspended(@)]
  /\ Return(c)
  /\ UNCHANGED <<next_pid, process_count, reaped, stacks, lost, refusals>>

\* akira_process_resume: the thread may have ended when it is called RUNNING.
Resume(c, s) ==
  /\ CanCall(c) /\ s \in InUse /\ slots[s].state = "SUSPENDED"
  /\ slots' = [slots EXCEPT ![s].paused = FALSE]
  /\ Enter(c, "resume", s)
  /\ UNCHANGED <<next_pid, process_count, reaped, stacks, lost, refusals>>

ResumeEnd(c) ==
  /\ InCall(c, "resume")
  /\ slots' = [slots EXCEPT ![caller[c].slot].state = "RUNNING"]
  /\ Return(c)
  /\ UNCHANGED <<next_pid, process_count, reaped, stacks, lost, refusals>>

\* akira_process_cleanup: every zombie at once, and only zombies.
ReclaimableBug == {s \in InUse : slots[s].state \in {"ZOMBIE", "TERMINATED"}}
Reclaimable == {s \in InUse : slots[s].state = "ZOMBIE"}

Cleanup(c) ==
  /\ CanCall(c)
  /\ slots' = [s \in Slots |-> IF s \in Reclaimable THEN [slots[s] EXCEPT !.in_use = FALSE]
                                                    ELSE slots[s]]
  /\ process_count' = process_count - Cardinality(Reclaimable)
  /\ UNCHANGED <<next_pid, lock, caller, reaped, stacks, lost, refusals>>

-----------------------------------------------------------------------------
(* akira_process_wait, without the mutex. *)

WaitFind(c, s) ==
  /\ caller[c].pc = "idle"
  /\ s \in InUse
  /\ caller' = [caller EXCEPT ![c] = [pc |-> "found", slot |-> s]]
  /\ UNCHANGED <<slots, next_pid, process_count, lock, reaped, stacks, lost, refusals>>

WaitBlock(c) ==
  /\ caller[c].pc = "found"
  /\ caller' = [caller EXCEPT ![c].pc = "wait"]
  /\ UNCHANGED <<slots, next_pid, process_count, lock, reaped, stacks, lost, refusals>>

WaitTake(c) ==
  LET s == caller[c].slot
  IN  /\ caller[c].pc = "wait"
      /\ slots[s].exit_sem = 1
      /\ slots' = [slots EXCEPT ![s].exit_sem = 0]
      /\ reaped' = reaped \cup {s}
      /\ caller' = [caller EXCEPT ![c] = Idle]
      /\ UNCHANGED <<next_pid, process_count, lock, stacks, lost, refusals>>

WaitTimeout(c) ==
  /\ caller[c].pc = "wait"
  /\ caller' = [caller EXCEPT ![c] = Idle]
  /\ UNCHANGED <<slots, next_pid, process_count, lock, reaped, stacks, lost, refusals>>

-----------------------------------------------------------------------------
Init ==
  /\ slots = [s \in Slots |-> Empty]
  /\ next_pid = 1 /\ process_count = 0
  /\ lock = NoCaller
  /\ caller = [c \in Callers |-> Idle]
  /\ reaped = {} /\ stacks = 0 /\ lost = 0 /\ refusals = 0

Thread(s) == ThreadStarts(s) \/ ThreadReturns(s) \/ ThreadExits(s)

Api(c) ==
  \/ Create(c) \/ Cleanup(c)
  \/ \E s \in Slots :
       \/ Start(c, s) \/ Stop(c, s) \/ Suspend(c, s) \/ Resume(c, s)
       \/ \E code \in ExitCodes : Kill(c, s, code)
       \/ WaitFind(c, s)

Finish(c) ==
  \/ StartReady(c) \/ StartEnd(c) \/ StartRefused(c)
  \/ StopEnd(c) \/ KillEnd(c) \/ SuspendEnd(c) \/ ResumeEnd(c)
  \/ WaitBlock(c) \/ WaitTake(c) \/ WaitTimeout(c)

Next == (\E s \in Slots : Thread(s)) \/ (\E c \in Callers : Api(c) \/ Finish(c))

Spec == Init /\ [][Next]_vars

-----------------------------------------------------------------------------
ProcessStates == {"NONE", "CREATED", "READY", "RUNNING", "SUSPENDED", "TERMINATED", "ZOMBIE"}

Slot == [in_use: BOOLEAN, pid: 0 .. MaxPids, state: ProcessStates,
         exit_code: ExitCodes \cup {0}, stack: BOOLEAN, thread: Live \cup {"none"},
         paused: BOOLEAN, exit_sem: {0, 1}]

Caller == [pc: {"idle", "start", "ready", "stop", "kill", "suspend", "resume", "found", "wait"},
           slot: Slots \cup {NoSlot}]

\* Every variable keeps its type.
TypeOK ==
  /\ slots \in [Slots -> Slot]
  /\ next_pid \in 1 .. MaxPids + 1
  /\ process_count \in 0 .. MaxProcesses
  /\ lock \in Callers \cup {NoCaller}
  /\ caller \in [Callers -> Caller]
  /\ reaped \subseteq Slots
  /\ stacks \in 0 .. MaxProcesses + MaxLost /\ lost \in 0 .. MaxLost
  /\ refusals \in 0 .. MaxRefusals

\* A slot that akira_process_create may take has no thread that still writes
\* to it and no stack that would be forgotten; process_count counts the rest.
FreeSlotIsQuiet ==
  /\ \A s \in Free : slots[s].thread = "none" /\ ~slots[s].stack
  /\ process_count = Cardinality(InUse)

\* Each stack is held by its slot until stop or kill has aborted the thread
\* that runs on it: freed once, and never under a live thread.  Starting a
\* process again before its thread has run loses stacks.
StacksAreHeld ==
  /\ stacks = Cardinality({s \in Slots : slots[s].stack}) + lost
  /\ lost = 0 => \A s \in Slots : slots[s].thread \in Live => slots[s].stack

\* Slots and stacks change hands only when nothing runs on them.
SlotsSound == FreeSlotIsQuiet /\ StacksAreHeld

\* A process that is over has signalled it, however its own end and the stop,
\* kill, suspend and resume of other threads overlap: the semaphore is given
\* unless somebody who waited took it.
ExitIsSignalled ==
  \A s \in InUse :
    slots[s].state \in {"TERMINATED", "ZOMBIE"} /\ slots[s].thread = "none" =>
      slots[s].exit_sem = 1 \/ s \in reaped

\* A process that was never started and one that was killed have no thread:
\* nobody runs in a slot that akira_process_cleanup gives away.  (READY,
\* RUNNING, SUSPENDED and TERMINATED may each be shown for a thread that runs
\* and for one that has ended.)
NoThreadBehind ==
  \A s \in Slots :
    slots[s].state \in {"CREATED", "ZOMBIE"} => slots[s].thread = "none"
=============================================================================
