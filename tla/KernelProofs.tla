---------------------------- MODULE KernelProofs ----------------------------
(* Theorems about ProcessManager, for every number of slots and callers,      *)
(* about services, timers, the heap, the message bus and shared memory, and   *)
(* about the components of MCKernel side by side.                             *)
EXTENDS MCKernel, Sequences, FiniteSetTheorems, SequenceTheorems,
        NaturalsInduction, WellFoundedInduction, TLAPS

USE CallersAssumption, SlotsAssumption, CodesAssumption, BoundsAssumption

-----------------------------------------------------------------------------
(* The invariant: what each slot, each call and each counter satisfies.     *)

\* A process that ran, as far as its state tells.
Started == {"RUNNING", "SUSPENDED", "TERMINATED", "ZOMBIE"}

\* One slot; r says that somebody waited for its process, l counts the stacks
\* lost.
SlotOK(q, r, l) ==
  /\ q \in Slot
  /\ ~q.in_use \/ q.state \in {"CREATED", "ZOMBIE"} => q.thread = "none" /\ ~q.stack
  /\ q.in_use /\ q.state \in Started /\ q.thread = "none" => q.exit_sem = 1 \/ r
  /\ l = 0 /\ q.thread \in Live => q.stack
SlotsOK ==
  /\ slots = [s \in Slots |-> slots[s]]
  /\ \A s \in Slots : SlotOK(slots[s], s \in reaped, lost)

\* The calls that keep the mutex between two steps, and what they rely on:
\* their slot stays in use, and its thread writes RUNNING and TERMINATED only.
Locked == {"start", "ready", "stop", "kill", "suspend", "resume"}
Expects(pc, s, q) ==
  /\ pc \in {"start", "ready"} => LostBy(s) <= MaxLost
  /\ pc = "ready" => q.state \in {"READY", "RUNNING", "TERMINATED"}
  /\ pc \in {"stop", "suspend", "resume"} =>
       q.state \in {"RUNNING", "SUSPENDED", "TERMINATED"}
CallOK(k) ==
  /\ k.pc # "idle" => k.slot \in Slots
  /\ k.pc \in Locked => slots[k.slot].in_use /\ Expects(k.pc, k.slot, slots[k.slot])
CallsOK ==
  /\ caller \in [Callers -> Caller]
  /\ \A c \in Callers : /\ CallOK(caller[c])
                        /\ caller[c].pc \in Locked <=> lock = c

Held == {s \in Slots : slots[s].stack}
CountsOK ==
  /\ process_count = Cardinality(InUse)
  /\ stacks = Cardinality(Held) + lost

ScalarsOK ==
  /\ next_pid \in 1 .. MaxPids + 1
  /\ lock \in Callers \cup {NoCaller}
  /\ reaped \subseteq Slots
  /\ lost \in 0 .. MaxLost
  /\ refusals \in 0 .. MaxRefusals

ProcInv == SlotsOK /\ CallsOK /\ CountsOK /\ ScalarsOK

-----------------------------------------------------------------------------
(* The slots as a finite set.                                               *)

LEMMA SlotsFinite == IsFiniteSet(Slots) /\ Cardinality(Slots) = MaxProcesses
BY FS_Interval DEF Slots

\* A set of slots counts at most MaxProcesses; adding and removing a slot
\* changes the count by one.
LEMMA SlotSets ==
  ASSUME NEW A \in SUBSET Slots
  PROVE  /\ IsFiniteSet(A) /\ Cardinality(A) \in 0 .. MaxProcesses
         /\ \A s \in Slots \ A : Cardinality(A \cup {s}) = Cardinality(A) + 1
         /\ \A s \in A : Cardinality(A \ {s}) = Cardinality(A) - 1
<1>1. IsFiniteSet(A) /\ Cardinality(A) \in Nat /\ Cardinality(A) <= MaxProcesses
  BY SlotsFinite, FS_Subset, FS_CardinalityType
<1>2. \A s \in Slots \ A : Cardinality(A \cup {s}) = Cardinality(A) + 1
  BY <1>1, FS_AddElement
<1>3. \A s \in A : Cardinality(A \ {s}) = Cardinality(A) - 1
  BY <1>1, FS_RemoveElement
<1> QED
  BY <1>1, <1>2, <1>3

\* The count after s was put into the set or taken out of it.
LEMMA CountAfter ==
  ASSUME NEW A \in SUBSET Slots, NEW s \in Slots, NEW in \in BOOLEAN
  PROVE  LET B == IF in THEN A \cup {s} ELSE A \ {s}
         IN  Cardinality(B) = Cardinality(A) + (IF in THEN 1 ELSE 0)
                                             - (IF s \in A THEN 1 ELSE 0)
<1>1. Cardinality(A) \in Nat
  BY SlotSets
<1>2. CASE in /\ s \in A
  <2>1. A \cup {s} = A
    BY <1>2
  <2> QED
    BY <1>1, <1>2, <2>1
<1>3. CASE in /\ s \notin A
  BY <1>1, <1>3, SlotSets
<1>4. CASE ~in /\ s \in A
  BY <1>1, <1>4, SlotSets
<1>5. CASE ~in /\ s \notin A
  <2>1. A \ {s} = A
    BY <1>5
  <2>2. Cardinality(A \ {s}) = Cardinality(A)
    BY <2>1, Zenon
  <2> QED
    BY <1>1, <1>5, <2>2
<1> QED
  BY <1>2, <1>3, <1>4, <1>5

LessThan == {p \in Nat \X Nat : p[1] < p[2]}

\* akira_process_create's search finds the lowest slot not in use.
LEMMA LowestFreeIsFree ==
  ASSUME Free # {}
  PROVE  LowestFree \in Free
<1>1. IsWellFoundedOn(LessThan, Nat)
  BY NatLessThanWellFounded DEF LessThan, OpToRel
<1>2. Free \subseteq Nat
  BY DEF Free, Slots
<1>3. PICK x \in Free : \A y \in Free : ~(<<y, x>> \in LessThan)
  BY <1>1, <1>2, WFMin
<1>4. ASSUME NEW y \in Free PROVE x <= y
  <2>1. x \in Nat /\ y \in Nat /\ <<y, x>> \in Nat \X Nat
    BY <1>2
  <2>2. ~(y < x)
    BY <1>3, <2>1 DEF LessThan
  <2> QED
    BY <2>1, <2>2
<1> QED
  BY <1>4 DEF LowestFree

-----------------------------------------------------------------------------
\* The invariant implies the properties.
LEMMA ProcInvImplies ==
  ASSUME ProcInv
  PROVE  TypeOK /\ SlotsSound /\ ExitIsSignalled /\ NoThreadBehind
<1>1. slots \in [Slots -> Slot]
  BY DEF ProcInv, SlotsOK, SlotOK
<1>2. InUse \in SUBSET Slots /\ Held \in SUBSET Slots
  BY DEF InUse, Held
<1>3. /\ Cardinality(InUse) \in 0 .. MaxProcesses
      /\ Cardinality(Held) \in 0 .. MaxProcesses
  BY <1>2, SlotSets
<1>4. process_count \in 0 .. MaxProcesses /\ stacks \in 0 .. MaxProcesses + MaxLost
  BY <1>3 DEF ProcInv, CountsOK, ScalarsOK
<1>5. TypeOK
  BY <1>1, <1>4 DEF ProcInv, CallsOK, ScalarsOK, TypeOK
<1>6. SlotsSound
  BY DEF ProcInv, SlotsOK, SlotOK, CountsOK, Held, SlotsSound, FreeSlotIsQuiet,
         StacksAreHeld, Free, InUse
<1>7. ExitIsSignalled
  BY DEF ProcInv, SlotsOK, SlotOK, ExitIsSignalled, InUse, Started
<1>8. NoThreadBehind
  BY DEF ProcInv, SlotsOK, SlotOK, NoThreadBehind
<1> QED
  BY <1>5, <1>6, <1>7, <1>8

\* A step that changes one slot, and the two counters by what it changes
\* there, preserves what slots and counters satisfy.
LEMMA OneSlot ==
  ASSUME ProcInv, NEW s \in Slots, NEW q,
         slots' = [slots EXCEPT ![s] = q],
         SlotOK(q, s \in reaped', lost'),
         \A t \in Slots \ {s} : t \in reaped' <=> t \in reaped,
         lost' \in Nat, lost' = 0 => lost = 0,
         process_count' = process_count + (IF q.in_use THEN 1 ELSE 0)
                                        - (IF slots[s].in_use THEN 1 ELSE 0),
         stacks' = stacks + (IF q.stack THEN 1 ELSE 0) + lost'
                          - (IF slots[s].stack THEN 1 ELSE 0) - lost
  PROVE  SlotsOK' /\ CountsOK'
<1>1. SlotsOK'
  BY DEF ProcInv, SlotsOK, SlotOK
<1>2. /\ slots'[s] = q /\ \A t \in Slots \ {s} : slots'[t] = slots[t]
      /\ q \in Slot /\ slots[s] \in Slot
  BY DEF ProcInv, SlotsOK, SlotOK
<1>3. /\ q.in_use \in BOOLEAN /\ slots[s].in_use \in BOOLEAN
      /\ q.stack \in BOOLEAN /\ slots[s].stack \in BOOLEAN
  BY <1>2 DEF Slot
<1>4. /\ InUse \in SUBSET Slots /\ Held \in SUBSET Slots
      /\ InUse' = IF q.in_use THEN InUse \cup {s} ELSE InUse \ {s}
      /\ Held' = IF q.stack THEN Held \cup {s} ELSE Held \ {s}
      /\ s \in InUse <=> slots[s].in_use
      /\ s \in Held <=> slots[s].stack
  BY <1>2, <1>3 DEF InUse, Held
<1>5. process_count' = Cardinality(InUse')
  <2>1. Cardinality(InUse') = Cardinality(InUse) + (IF q.in_use THEN 1 ELSE 0)
                                                 - (IF s \in InUse THEN 1 ELSE 0)
    BY <1>3, <1>4, CountAfter
  <2> QED
    BY <1>4, <2>1 DEF ProcInv, CountsOK
<1>6. stacks' = Cardinality(Held') + lost'
  <2>1. Cardinality(Held') = Cardinality(Held) + (IF q.stack THEN 1 ELSE 0)
                                               - (IF s \in Held THEN 1 ELSE 0)
    BY <1>3, <1>4, CountAfter
  <2>2. Cardinality(Held) \in Nat
    BY <1>4, SlotSets
  <2>3. stacks = Cardinality(Held) + lost /\ lost \in Nat /\ lost' \in Nat
    BY DEF ProcInv, CountsOK, ScalarsOK
  <2> QED
    BY <1>4, <2>1, <2>2, <2>3
<1> QED
  BY <1>1, <1>5, <1>6 DEF CountsOK

\* A caller that takes the mutex, or keeps it, is the only one in a call.
LEMMA CallsChange ==
  ASSUME ProcInv, NEW c \in Callers, lock \in {c, NoCaller},
         NEW k \in Caller, caller' = [caller EXCEPT ![c] = k],
         lock' = IF k.pc \in Locked THEN c ELSE NoCaller,
         CallOK(k)'
  PROVE  CallsOK'
<1>1. ASSUME NEW d \in Callers, d # c PROVE caller[d].pc \notin Locked
  BY <1>1 DEF ProcInv, CallsOK, ScalarsOK
<1>2. caller' \in [Callers -> Caller]
  BY DEF ProcInv, CallsOK
<1>3. ASSUME NEW d \in Callers
      PROVE  CallOK(caller[d])' /\ (caller'[d].pc \in Locked <=> lock' = d)
  <2>1. CASE d = c
    <3>1. caller'[d] = k
      BY <2>1 DEF ProcInv, CallsOK
    <3> QED
      BY <2>1, <3>1
  <2>2. CASE d # c
    <3>1. caller'[d] = caller[d] /\ caller[d].pc \notin Locked /\ lock' # d
      BY <1>1, <2>2 DEF ProcInv, CallsOK
    <3> QED
      BY <3>1 DEF ProcInv, CallsOK, CallOK, Locked
  <2> QED
    BY <2>1, <2>2
<1> QED
  BY <1>2, <1>3 DEF CallsOK

\* A call that waits for nothing: no other is in one, and none stays in it.
LEMMA CallReturns ==
  ASSUME ProcInv, NEW c \in Callers, lock \in {c, NoCaller}, Return(c)
  PROVE  CallsOK'
<1>1. Idle \in Caller /\ Idle.pc \notin Locked
  BY DEF Idle, Caller, Locked
<1>2. CallOK(Idle)'
  BY DEF CallOK, Idle, Locked
<1> QED
  BY <1>1, <1>2, CallsChange DEF Return

\* akira_process_create preserves the invariant: the slot it takes is quiet.
LEMMA CreateInv ==
  ASSUME ProcInv, NEW c \in Callers, Create(c)
  PROVE  ProcInv'
<1> DEFINE s == LowestFree
           q == [slots[s] EXCEPT !.in_use = TRUE, !.pid = next_pid, !.state = "CREATED",
                                 !.exit_code = 0, !.exit_sem = 0]
<1>1. s \in Free /\ s \in Slots /\ ~slots[s].in_use
  BY LowestFreeIsFree DEF Create, Free, InUse
<1>2. SlotOK(slots[s], s \in reaped, lost) /\ slots[s] \in Slot
  BY <1>1 DEF ProcInv, SlotsOK, SlotOK
<1>3. /\ q \in Slot /\ q.in_use /\ q.state = "CREATED" /\ q.thread = slots[s].thread
      /\ q.stack = slots[s].stack
  <2>1. next_pid \in 0 .. MaxPids /\ 0 \in {0, 1} /\ 0 \in ExitCodes \cup {0}
    BY DEF ProcInv, ScalarsOK, Create
  <2>2. "CREATED" \in ProcessStates /\ TRUE \in BOOLEAN
    BY DEF ProcessStates
  <2> QED
    BY <1>2, <2>1, <2>2 DEF Slot
<1>4. slots' = [slots EXCEPT ![s] = q] /\ UNCHANGED <<lost, lock, stacks, refusals>>
  BY DEF Create
<1>5. reaped' = reaped \ {s} /\ process_count' = process_count + 1
  BY DEF Create
<1> HIDE DEF s, q
<1>6. SlotOK(q, s \in reaped', lost')
  BY <1>1, <1>2, <1>3, <1>4 DEF SlotOK, Started
<1>7. process_count \in Nat /\ stacks \in Nat /\ lost \in Nat
  BY ProcInvImplies DEF TypeOK
<1>8. /\ process_count' = process_count + (IF q.in_use THEN 1 ELSE 0)
                                         - (IF slots[s].in_use THEN 1 ELSE 0)
      /\ stacks' = stacks + (IF q.stack THEN 1 ELSE 0) + lost'
                           - (IF slots[s].stack THEN 1 ELSE 0) - lost
  BY <1>1, <1>3, <1>4, <1>5, <1>7
<1>9. SlotsOK' /\ CountsOK'
  BY <1>1, <1>4, <1>5, <1>6, <1>7, <1>8, OneSlot
<1>10. CallsOK'
  <2>1. ASSUME NEW d \in Callers
        PROVE  /\ caller'[d] \in {caller[d], Idle}
               /\ caller[d].pc \notin Locked /\ lock' # d
    BY <1>4 DEF Create, CanCall, ProcInv, CallsOK
  <2>2. Idle \in Caller /\ Idle.pc \notin Locked /\ Idle.pc = "idle"
    BY DEF Idle, Caller, Locked
  <2>3. caller' \in [Callers -> Caller]
    BY <2>2 DEF Create, ProcInv, CallsOK
  <2> QED
    BY <2>1, <2>2, <2>3 DEF ProcInv, CallsOK, CallOK, Locked
<1>11. ScalarsOK'
  BY <1>4, <1>5 DEF Create, ProcInv, ScalarsOK
<1> QED
  BY <1>9, <1>10, <1>11 DEF ProcInv

\* A step that changes a slot in use, but not which slots are in use.
LEMMA UsedSlot ==
  ASSUME ProcInv, NEW s \in Slots, NEW q,
         slots' = [slots EXCEPT ![s] = q],
         q.in_use = slots[s].in_use,
         SlotOK(q, s \in reaped', lost'),
         \A t \in Slots \ {s} : t \in reaped' <=> t \in reaped,
         reaped' \subseteq Slots,
         lost' \in 0 .. MaxLost, lost' = 0 => lost = 0,
         stacks' = stacks + (IF q.stack THEN 1 ELSE 0) + lost'
                          - (IF slots[s].stack THEN 1 ELSE 0) - lost,
         UNCHANGED <<next_pid, process_count>>,
         refusals' \in 0 .. MaxRefusals, lock' \in Callers \cup {NoCaller}
  PROVE  SlotsOK' /\ CountsOK' /\ ScalarsOK'
<1>1. process_count \in Nat /\ slots[s].in_use \in BOOLEAN
  BY ProcInvImplies DEF TypeOK, Slot
<1>2. process_count' = process_count + (IF q.in_use THEN 1 ELSE 0)
                                     - (IF slots[s].in_use THEN 1 ELSE 0)
  BY <1>1
<1>3. lost' \in Nat
  OBVIOUS
<1>4. SlotsOK' /\ CountsOK'
  BY <1>2, <1>3, OneSlot
<1>5. ScalarsOK'
  BY DEF ProcInv, ScalarsOK
<1> QED
  BY <1>4, <1>5

\* The thread of a process, which takes no mutex, preserves the invariant.
LEMMA ThreadInv ==
  ASSUME ProcInv, NEW s \in Slots, Thread(s)
  PROVE  ProcInv'
<1>1. PICK q : /\ slots' = [slots EXCEPT ![s] = q]
               /\ \/ q = [slots[s] EXCEPT !.state = "RUNNING", !.thread = "run"]
                  \/ q = [slots[s] EXCEPT !.state = "TERMINATED", !.exit_code = 0,
                                          !.thread = "exit"]
                  \/ q = [slots[s] EXCEPT !.thread = "none", !.exit_sem = 1]
  BY DEF Thread, ThreadStarts, ThreadReturns, ThreadExits
<1>2. /\ slots[s].thread \in Live
      /\ UNCHANGED <<next_pid, process_count, lock, caller, reaped, stacks, lost, refusals>>
  BY DEF Thread, ThreadStarts, ThreadReturns, ThreadExits, Runs, Live
<1>3. SlotOK(slots[s], s \in reaped, lost) /\ slots[s] \in Slot /\ slots[s].in_use
  BY <1>2 DEF ProcInv, SlotsOK, SlotOK, Live, Slot
<1>4. /\ q \in Slot /\ q.in_use /\ q.stack = slots[s].stack
      /\ \/ q.state \in {"RUNNING", "TERMINATED"} /\ q.thread \in Live
         \/ q.state = slots[s].state /\ q.thread = "none" /\ q.exit_sem = 1
  <2>1. CASE q = [slots[s] EXCEPT !.state = "RUNNING", !.thread = "run"]
    BY <1>3, <2>1 DEF Slot, Live, ProcessStates
  <2>2. CASE q = [slots[s] EXCEPT !.state = "TERMINATED", !.exit_code = 0, !.thread = "exit"]
    BY <1>3, <2>2 DEF Slot, Live, ProcessStates
  <2>3. CASE q = [slots[s] EXCEPT !.thread = "none", !.exit_sem = 1]
    BY <1>3, <2>3 DEF Slot
  <2> QED
    BY <1>1, <2>1, <2>2, <2>3
<1>5. SlotOK(q, s \in reaped', lost')
  BY <1>2, <1>3, <1>4 DEF SlotOK, Live, Started
<1>6. stacks \in Nat /\ lost \in 0 .. MaxLost /\ refusals \in 0 .. MaxRefusals
      /\ reaped \subseteq Slots /\ lock \in Callers \cup {NoCaller}
  BY ProcInvImplies DEF TypeOK
<1>7. stacks' = stacks + (IF q.stack THEN 1 ELSE 0) + lost'
                       - (IF slots[s].stack THEN 1 ELSE 0) - lost
  BY <1>2, <1>4, <1>6
<1>8. SlotsOK' /\ CountsOK' /\ ScalarsOK'
  BY <1>1, <1>2, <1>3, <1>4, <1>5, <1>6, <1>7, UsedSlot
<1>9. CallsOK'
  <2>1. /\ slots'[s] = q /\ \A t \in Slots \ {s} : slots'[t] = slots[t]
        /\ \A t \in Slots : LostBy(t)' = LostBy(t)
    BY <1>1, <1>2, <1>4 DEF ProcInv, SlotsOK, LostBy
  <2>2. \A d \in Callers : CallOK(caller[d])'
    <3> TAKE d \in Callers
    <3>1. CallOK(caller[d]) /\ caller'[d] = caller[d]
      BY <1>2 DEF ProcInv, CallsOK
    <3>2. CASE caller[d].pc \notin Locked
      BY <1>2, <3>1, <3>2 DEF CallOK, Locked
    <3>3. CASE caller[d].pc \in Locked /\ caller[d].slot # s
      <4>1. caller[d].slot \in Slots /\ slots'[caller[d].slot] = slots[caller[d].slot]
        BY <2>1, <3>1, <3>3 DEF CallOK, Locked
      <4> QED
        BY <1>2, <2>1, <3>1, <4>1 DEF CallOK, Expects
    <3>4. CASE caller[d].pc \in Locked /\ caller[d].slot = s
      BY <1>2, <1>4, <2>1, <3>1, <3>4 DEF CallOK, Expects
    <3> QED
      BY <3>2, <3>3, <3>4
  <2> QED
    BY <1>2, <2>2 DEF ProcInv, CallsOK
<1> QED
  BY <1>8, <1>9 DEF ProcInv

\* A step of a call after which it has the mutex: its slot is in use, and is
\* as the rest of the call expects it.
Entered(c, s, pc, q) ==
  /\ s \in InUse /\ pc \in Locked
  /\ lock \in {c, NoCaller} /\ Enter(c, pc, s)
  /\ slots' = [slots EXCEPT ![s] = q]
  /\ q.in_use = slots[s].in_use /\ q.stack = slots[s].stack
  /\ SlotOK(q, s \in reaped, lost) /\ Expects(pc, s, q)
  /\ UNCHANGED <<next_pid, process_count, reaped, stacks, lost, refusals>>

LEMMA EnterInv ==
  ASSUME ProcInv, NEW c \in Callers, NEW s, NEW pc, NEW q, Entered(c, s, pc, q)
  PROVE  ProcInv'
<1> USE DEF Entered
<1>1. /\ s \in Slots /\ slots[s].in_use /\ q \in Slot /\ slots[s] \in Slot
      /\ q.in_use = slots[s].in_use
  BY DEF InUse, SlotOK, ProcInv, SlotsOK, Slot
<1>2. stacks \in Nat /\ lost \in 0 .. MaxLost /\ refusals \in 0 .. MaxRefusals
      /\ reaped \subseteq Slots
  BY ProcInvImplies DEF TypeOK
<1>3. stacks' = stacks + (IF q.stack THEN 1 ELSE 0) + lost'
                       - (IF slots[s].stack THEN 1 ELSE 0) - lost
  BY <1>1, <1>2
<1>4. lock' = c /\ caller' = [caller EXCEPT ![c] = [pc |-> pc, slot |-> s]]
  BY DEF Enter
<1>5. SlotsOK' /\ CountsOK' /\ ScalarsOK'
  BY <1>1, <1>2, <1>3, <1>4, UsedSlot
<1>6. CallsOK'
  <2> DEFINE k == [pc |-> pc, slot |-> s]
  <2>1. k \in Caller /\ k.pc = pc /\ k.slot = s
    BY <1>1 DEF Caller, Locked
  <2>2. slots'[s] = q /\ LostBy(s)' = LostBy(s)
    BY <1>1 DEF ProcInv, SlotsOK, LostBy
  <2> HIDE DEF k
  <2>3. CallOK(k)'
    BY <1>1, <2>1, <2>2 DEF CallOK, Expects
  <2> QED
    BY <1>4, <2>1, <2>3, CallsChange DEF k
<1> QED
  BY <1>5, <1>6 DEF ProcInv

\* The last write of a call, which gives the mutex back.
LEMMA LeaveInv ==
  ASSUME ProcInv, NEW c \in Callers, NEW s \in Slots, NEW q,
         lock = c, Return(c),
         slots' = [slots EXCEPT ![s] = q],
         q.in_use = slots[s].in_use,
         SlotOK(q, s \in reaped, lost'),
         lost' \in 0 .. MaxLost, lost' = 0 => lost = 0,
         stacks' = stacks + (IF q.stack THEN 1 ELSE 0) + lost'
                          - (IF slots[s].stack THEN 1 ELSE 0) - lost,
         refusals' \in 0 .. MaxRefusals,
         UNCHANGED <<next_pid, process_count, reaped>>
  PROVE  ProcInv'
<1>1. reaped \subseteq Slots /\ lock' \in Callers \cup {NoCaller}
  BY DEF ProcInv, ScalarsOK, Return
<1>2. SlotsOK' /\ CountsOK' /\ ScalarsOK'
  BY <1>1, UsedSlot
<1>3. CallsOK'
  BY CallReturns
<1> QED
  BY <1>2, <1>3 DEF ProcInv

\* What is known of the slot of a call that has the mutex.
LEMMA OfCall ==
  ASSUME ProcInv, NEW c \in Callers, lock = c
  PROVE  LET s == caller[c].slot IN
         /\ caller[c].pc \in Locked /\ CallOK(caller[c])
         /\ s \in InUse /\ s \in Slots
         /\ slots[s] \in Slot /\ slots[s].in_use
         /\ SlotOK(slots[s], s \in reaped, lost)
<1> DEFINE s == caller[c].slot
<1>1. caller[c].pc \in Locked /\ CallOK(caller[c])
  BY DEF ProcInv, CallsOK
<1>2. s \in Slots /\ slots[s].in_use
  BY <1>1 DEF CallOK, Locked
<1>3. SlotOK(slots[s], s \in reaped, lost)
  BY <1>2 DEF ProcInv, SlotsOK
<1> QED
  BY <1>1, <1>2, <1>3 DEF SlotOK, InUse

\* A slot that changes in one field, or in those an abort writes, is a slot.
LEMMA SlotUpdates ==
  ASSUME NEW q \in Slot
  PROVE  /\ \A x \in ProcessStates : [q EXCEPT !.state = x] \in Slot
         /\ \A x \in ExitCodes : [q EXCEPT !.exit_code = x] \in Slot
         /\ \A x \in BOOLEAN : /\ [q EXCEPT !.paused = x] \in Slot
                               /\ [q EXCEPT !.stack = x] \in Slot
         /\ \A x \in ProcessStates, y \in BOOLEAN :
              [q EXCEPT !.state = x, !.paused = y] \in Slot
         /\ \A x \in ProcessStates : [Aborted(q) EXCEPT !.state = x] \in Slot
         /\ [q EXCEPT !.stack = TRUE, !.thread = "new", !.paused = FALSE] \in Slot
<1>1. \A x \in ProcessStates : [q EXCEPT !.state = x] \in Slot
  BY DEF Slot
<1>2. \A x \in ExitCodes : [q EXCEPT !.exit_code = x] \in Slot
  BY DEF Slot
<1>3. \A x \in BOOLEAN : [q EXCEPT !.paused = x] \in Slot /\ [q EXCEPT !.stack = x] \in Slot
  BY DEF Slot
<1>4. \A x \in ProcessStates, y \in BOOLEAN : [q EXCEPT !.state = x, !.paused = y] \in Slot
  BY DEF Slot
<1>5. Aborted(q) \in Slot
  BY DEF Slot, Aborted
<1>6. \A x \in ProcessStates : [Aborted(q) EXCEPT !.state = x] \in Slot
  BY <1>5 DEF Slot
<1>7. [q EXCEPT !.stack = TRUE, !.thread = "new", !.paused = FALSE] \in Slot
  BY DEF Slot, Live
<1> QED
  BY <1>1, <1>2, <1>3, <1>4, <1>6, <1>7, Zenon

\* akira_process_start preserves the invariant: a stack it forgets is counted.
LEMMA StartInv ==
  ASSUME ProcInv, NEW c \in Callers
  PROVE  /\ \A s \in Slots : Start(c, s) => ProcInv'
         /\ StartReady(c) \/ StartEnd(c) \/ StartRefused(c) => ProcInv'
<1>1. ASSUME NEW s \in Slots, Start(c, s) PROVE ProcInv'
  <2>1. /\ s \in InUse /\ LostBy(s) <= MaxLost /\ lock = NoCaller /\ Enter(c, "start", s)
        /\ UNCHANGED <<slots, next_pid, process_count, reaped, stacks, lost, refusals>>
    BY <1>1 DEF Start, Startable, CanCall
  <2>2. SlotOK(slots[s], s \in reaped, lost) /\ slots[s].in_use
    BY <2>1 DEF ProcInv, SlotsOK, InUse
  <2>3. slots' = [slots EXCEPT ![s] = slots[s]]
    BY <2>1 DEF ProcInv, SlotsOK
  <2>4. "start" \in Locked /\ Expects("start", s, slots[s])
    BY <2>1 DEF Locked, Expects
  <2> QED
    BY <2>1, <2>2, <2>3, <2>4, EnterInv DEF Entered
<1>2. ASSUME StartReady(c) PROVE ProcInv'
  <2> DEFINE s == caller[c].slot
  <2> DEFINE q == [slots[s] EXCEPT !.state = "READY"]
  <2>1. /\ lock = c /\ lock' = c /\ caller[c].pc = "start"
        /\ caller' = [caller EXCEPT ![c].pc = "ready"]
        /\ slots' = [slots EXCEPT ![s] = q]
        /\ UNCHANGED <<next_pid, process_count, reaped, stacks, lost, refusals>>
    BY <1>2 DEF StartReady, InCall
  <2>2. /\ CallOK(caller[c]) /\ s \in InUse /\ slots[s] \in Slot /\ slots[s].in_use
        /\ SlotOK(slots[s], s \in reaped, lost)
    BY <2>1, OfCall
  <2>3. caller' = [caller EXCEPT ![c] = [pc |-> "ready", slot |-> s]]
    <3>1. caller[c] \in Caller
      BY DEF ProcInv, CallsOK
    <3>2. [caller[c] EXCEPT !.pc = "ready"] = [pc |-> "ready", slot |-> s]
      BY <3>1 DEF Caller
    <3> QED
      BY <2>1, <3>2
  <2>4. Enter(c, "ready", s)
    BY <2>1, <2>3, Zenon DEF Enter
  <2>5. q \in Slot
    BY <2>2, SlotUpdates, Zenon DEF ProcessStates
  <2>6. /\ q.in_use = slots[s].in_use /\ q.stack = slots[s].stack /\ q.state = "READY"
        /\ q.thread = slots[s].thread
    BY <2>2 DEF Slot
  <2> HIDE DEF q
  <2>7. SlotOK(q, s \in reaped, lost)
    BY <2>2, <2>5, <2>6 DEF SlotOK, Started
  <2>8. "ready" \in Locked /\ Expects("ready", s, q)
    BY <2>1, <2>2, <2>6 DEF CallOK, Locked, Expects
  <2> HIDE DEF s
  <2> QED
    BY <2>1, <2>2, <2>4, <2>6, <2>7, <2>8, EnterInv DEF Entered
<1>3. ASSUME StartEnd(c) \/ StartRefused(c) PROVE ProcInv'
  <2> DEFINE s == caller[c].slot
  <2>1. /\ lock = c /\ caller[c].pc = "ready" /\ lost' = LostBy(s) /\ Return(c)
        /\ UNCHANGED <<next_pid, process_count, reaped>>
    BY <1>3 DEF StartEnd, StartRefused, InCall
  <2>2. /\ CallOK(caller[c]) /\ s \in Slots /\ slots[s] \in Slot /\ slots[s].in_use
        /\ SlotOK(slots[s], s \in reaped, lost)
    BY <2>1, OfCall
  <2>3. LostBy(s) <= MaxLost /\ slots[s].state \in {"READY", "RUNNING", "TERMINATED"}
    BY <2>1, <2>2 DEF CallOK, Locked, Expects
  <2>4. /\ lost \in Nat /\ stacks \in Nat /\ MaxLost \in Nat /\ slots[s].stack \in BOOLEAN
        /\ refusals \in 0 .. MaxRefusals /\ MaxRefusals \in Nat
    BY <2>2, ProcInvImplies DEF TypeOK, Slot
  <2>5. lost' \in 0 .. MaxLost /\ (lost' = 0 => lost = 0 /\ ~slots[s].stack)
    BY <2>1, <2>3, <2>4 DEF LostBy
  <2>6. CASE StartEnd(c)
    <3> DEFINE q == [slots[s] EXCEPT !.stack = TRUE, !.thread = "new", !.paused = FALSE]
    <3>1. slots' = [slots EXCEPT ![s] = q] /\ stacks' = stacks + 1 /\ UNCHANGED refusals
      BY <2>6 DEF StartEnd
    <3>2. q \in Slot
      BY <2>2, SlotUpdates, Zenon
    <3>3. /\ q.in_use = slots[s].in_use /\ q.stack = TRUE /\ q.thread = "new"
          /\ q.state = slots[s].state /\ q.in_use
      BY <2>2 DEF Slot
    <3> HIDE DEF q, s
    <3>4. SlotOK(q, s \in reaped, lost')
      BY <2>3, <3>2, <3>3 DEF SlotOK
    <3>5. stacks' = stacks + (IF q.stack THEN 1 ELSE 0) + lost'
                           - (IF slots[s].stack THEN 1 ELSE 0) - lost
      BY <2>1, <2>4, <3>1, <3>3 DEF LostBy
    <3>6. refusals' \in 0 .. MaxRefusals
      BY <2>4, <3>1
    <3> QED
      BY <2>1, <2>2, <2>5, <3>1, <3>3, <3>4, <3>5, <3>6, LeaveInv
  <2>7. CASE StartRefused(c)
    <3> DEFINE q == [slots[s] EXCEPT !.stack = FALSE]
    <3>1. /\ slots' = [slots EXCEPT ![s] = q] /\ UNCHANGED stacks
          /\ refusals < MaxRefusals /\ refusals' = refusals + 1
      BY <2>7 DEF StartRefused
    <3>2. q \in Slot
      BY <2>2, SlotUpdates, Zenon
    <3>3. /\ q.in_use = slots[s].in_use /\ q.stack = FALSE /\ q.thread = slots[s].thread
          /\ q.state = slots[s].state /\ q.in_use /\ q.exit_sem = slots[s].exit_sem
      BY <2>2 DEF Slot
    <3> HIDE DEF q, s
    <3>4. SlotOK(q, s \in reaped, lost')
      BY <2>2, <2>3, <2>5, <3>2, <3>3 DEF SlotOK
    <3>5. stacks' = stacks + (IF q.stack THEN 1 ELSE 0) + lost'
                           - (IF slots[s].stack THEN 1 ELSE 0) - lost
      BY <2>1, <2>4, <3>1, <3>3 DEF LostBy
    <3>6. refusals' \in 0 .. MaxRefusals
      BY <2>4, <3>1
    <3> QED
      BY <2>1, <2>2, <2>5, <3>1, <3>3, <3>4, <3>5, <3>6, LeaveInv
  <2> QED
    BY <1>3, <2>6, <2>7
<1> QED
  BY <1>1, <1>2, <1>3

\* The first half of stop, kill, suspend and resume preserves the invariant.
LEMMA HalvesInv ==
  ASSUME ProcInv, NEW c \in Callers, NEW s \in InUse
  PROVE  /\ Stop(c, s) \/ Suspend(c, s) \/ Resume(c, s) => ProcInv'
         /\ \A code \in ExitCodes : Kill(c, s, code) => ProcInv'
<1>1. /\ s \in Slots /\ SlotOK(slots[s], s \in reaped, lost) /\ slots[s] \in Slot
      /\ slots[s].in_use
  BY DEF InUse, ProcInv, SlotsOK, SlotOK
<1>2. {"stop", "kill", "suspend", "resume"} \subseteq Locked
  BY DEF Locked
<1>3. ASSUME Stop(c, s) PROVE ProcInv'
  <2> DEFINE q == [slots[s] EXCEPT !.state = "TERMINATED"]
  <2>1. /\ lock = NoCaller /\ Enter(c, "stop", s) /\ slots' = [slots EXCEPT ![s] = q]
        /\ slots[s].state = "RUNNING"
        /\ UNCHANGED <<next_pid, process_count, reaped, stacks, lost, refusals>>
    BY <1>3 DEF Stop, CanCall
  <2>2. q \in Slot
    BY <1>1, SlotUpdates, Zenon DEF ProcessStates
  <2>3. /\ q.in_use = slots[s].in_use /\ q.stack = slots[s].stack /\ q.state = "TERMINATED"
        /\ q.thread = slots[s].thread /\ q.exit_sem = slots[s].exit_sem
    BY <1>1 DEF Slot
  <2> HIDE DEF q
  <2>4. SlotOK(q, s \in reaped, lost) /\ Expects("stop", s, q)
    BY <1>1, <2>1, <2>2, <2>3 DEF SlotOK, Started, Expects
  <2> QED
    BY <1>2, <2>1, <2>3, <2>4, EnterInv DEF Entered
<1>4. ASSUME Suspend(c, s) PROVE ProcInv'
  <2>1. /\ lock = NoCaller /\ Enter(c, "suspend", s) /\ slots[s].state = "RUNNING"
        /\ UNCHANGED <<slots, next_pid, process_count, reaped, stacks, lost, refusals>>
    BY <1>4 DEF Suspend, CanCall
  <2>2. slots' = [slots EXCEPT ![s] = slots[s]] /\ Expects("suspend", s, slots[s])
    BY <2>1 DEF ProcInv, SlotsOK, Expects
  <2> QED
    BY <1>1, <1>2, <2>1, <2>2, EnterInv DEF Entered
<1>5. ASSUME Resume(c, s) PROVE ProcInv'
  <2> DEFINE q == [slots[s] EXCEPT !.paused = FALSE]
  <2>1. /\ lock = NoCaller /\ Enter(c, "resume", s) /\ slots' = [slots EXCEPT ![s] = q]
        /\ slots[s].state = "SUSPENDED"
        /\ UNCHANGED <<next_pid, process_count, reaped, stacks, lost, refusals>>
    BY <1>5 DEF Resume, CanCall
  <2>2. q \in Slot
    BY <1>1, SlotUpdates, Zenon
  <2>3. /\ q.in_use = slots[s].in_use /\ q.stack = slots[s].stack
        /\ q.state = slots[s].state
        /\ q.thread = slots[s].thread /\ q.exit_sem = slots[s].exit_sem
    BY <1>1 DEF Slot
  <2> HIDE DEF q
  <2>4. SlotOK(q, s \in reaped, lost) /\ Expects("resume", s, q)
    BY <1>1, <2>1, <2>2, <2>3 DEF SlotOK, Expects
  <2> QED
    BY <1>2, <2>1, <2>3, <2>4, EnterInv DEF Entered
<1>6. ASSUME NEW code \in ExitCodes, Kill(c, s, code) PROVE ProcInv'
  <2> DEFINE q == [slots[s] EXCEPT !.exit_code = code]
  <2>1. /\ lock = NoCaller /\ Enter(c, "kill", s) /\ slots' = [slots EXCEPT ![s] = q]
        /\ UNCHANGED <<next_pid, process_count, reaped, stacks, lost, refusals>>
    BY <1>6 DEF Kill, CanCall
  <2>2. q \in Slot
    BY <1>1, <1>6, SlotUpdates, Zenon
  <2>3. /\ q.in_use = slots[s].in_use /\ q.stack = slots[s].stack
        /\ q.state = slots[s].state
        /\ q.thread = slots[s].thread /\ q.exit_sem = slots[s].exit_sem
    BY <1>1 DEF Slot
  <2> HIDE DEF q
  <2>4. SlotOK(q, s \in reaped, lost) /\ Expects("kill", s, q)
    BY <1>1, <2>2, <2>3 DEF SlotOK, Expects
  <2> QED
    BY <1>2, <2>1, <2>3, <2>4, EnterInv DEF Entered
<1> QED
  BY <1>3, <1>4, <1>5, <1>6

\* The last write of stop and kill preserves the invariant: the thread is
\* gone, its stack is freed, and its end is signalled.
LEMMA AbortInv ==
  ASSUME ProcInv, NEW c \in Callers, StopEnd(c) \/ KillEnd(c)
  PROVE  ProcInv'
<1> DEFINE s == caller[c].slot
<1>1. PICK st \in {slots[s].state, "ZOMBIE"} :
        /\ slots' = [slots EXCEPT ![s] = [Aborted(slots[s]) EXCEPT !.state = st]]
        /\ stacks' = stacks - Freed(s)
        /\ st = "ZOMBIE" \/ caller[c].pc = "stop"
  BY DEF StopEnd, KillEnd, AbortThread, InCall
<1>2. /\ lock = c /\ Return(c) /\ UNCHANGED <<next_pid, process_count, reaped, lost, refusals>>
  BY DEF StopEnd, KillEnd, InCall
<1>3. /\ s \in Slots /\ slots[s] \in Slot /\ SlotOK(slots[s], s \in reaped, lost)
  BY <1>2, OfCall
<1> DEFINE q == [Aborted(slots[s]) EXCEPT !.state = st]
<1>4. st \in ProcessStates /\ q \in Slot
  <2>1. st \in ProcessStates
    BY <1>1, <1>3 DEF Slot, ProcessStates
  <2> QED
    BY <1>3, <2>1, SlotUpdates, Zenon
<1>5. /\ q.in_use = slots[s].in_use /\ q.stack = FALSE /\ q.thread = "none"
      /\ q.exit_sem = 1
  BY <1>3 DEF Slot, Aborted
<1>6. slots' = [slots EXCEPT ![s] = q]
  BY <1>1
<1>7. /\ stacks \in Nat /\ lost \in 0 .. MaxLost /\ refusals \in 0 .. MaxRefusals
      /\ slots[s].stack \in BOOLEAN
  BY <1>3, ProcInvImplies DEF TypeOK, Slot
<1> HIDE DEF q, s
<1>8. SlotOK(q, s \in reaped, lost')
  BY <1>4, <1>5 DEF SlotOK, Live
<1>9. stacks' = stacks + (IF q.stack THEN 1 ELSE 0) + lost'
                       - (IF slots[s].stack THEN 1 ELSE 0) - lost
  BY <1>1, <1>2, <1>5, <1>7 DEF Freed
<1> QED
  BY <1>2, <1>3, <1>5, <1>6, <1>7, <1>8, <1>9, LeaveInv

\* The last write of suspend and resume preserves the invariant: the process
\* may have ended, but then its end was signalled.
LEMMA PauseInv ==
  ASSUME ProcInv, NEW c \in Callers, SuspendEnd(c) \/ ResumeEnd(c)
  PROVE  ProcInv'
<1> DEFINE s == caller[c].slot
<1>1. PICK st \in {"SUSPENDED", "RUNNING"}, paused \in BOOLEAN :
        slots' = [slots EXCEPT ![s] = [slots[s] EXCEPT !.state = st, !.paused = paused]]
  <2>1. CASE SuspendEnd(c)
    <3> DEFINE p == slots[s].paused \/ slots[s].thread \in Live
    <3>1. slots' = [slots EXCEPT ![s] = [slots[s] EXCEPT !.state = "SUSPENDED", !.paused = p]]
      BY <2>1 DEF SuspendEnd, Suspended
    <3>2. p \in BOOLEAN
      OBVIOUS
    <3> QED
      BY <3>1, <3>2, Zenon
  <2>2. CASE ResumeEnd(c)
    <3>1. slots[s] \in Slot
      BY <2>2, OfCall DEF ResumeEnd, InCall
    <3>2. [slots[s] EXCEPT !.state = "RUNNING"]
            = [slots[s] EXCEPT !.state = "RUNNING", !.paused = slots[s].paused]
      BY <3>1 DEF Slot
    <3>3. slots' = [slots EXCEPT ![s] = [slots[s] EXCEPT !.state = "RUNNING"]]
      BY <2>2 DEF ResumeEnd
    <3>4. slots[s].paused \in BOOLEAN
      BY <3>1 DEF Slot
    <3> QED
      BY <3>2, <3>3, <3>4, Zenon
  <2> QED
    BY <2>1, <2>2, Zenon
<1>2. /\ lock = c /\ Return(c) /\ caller[c].pc \in {"suspend", "resume"}
      /\ UNCHANGED <<next_pid, process_count, reaped, stacks, lost, refusals>>
  BY DEF SuspendEnd, ResumeEnd, InCall
<1>3. /\ s \in Slots /\ slots[s] \in Slot /\ SlotOK(slots[s], s \in reaped, lost)
      /\ CallOK(caller[c]) /\ slots[s].in_use
  BY <1>2, OfCall
<1>4. slots[s].state \in {"RUNNING", "SUSPENDED", "TERMINATED"}
  BY <1>2, <1>3 DEF CallOK, Expects, Locked
<1> DEFINE q == [slots[s] EXCEPT !.state = st, !.paused = paused]
<1>5. q \in Slot
  BY <1>1, <1>3, SlotUpdates, Zenon DEF ProcessStates
<1>6. /\ q.in_use = slots[s].in_use /\ q.stack = slots[s].stack /\ q.state = st
      /\ q.thread = slots[s].thread /\ q.exit_sem = slots[s].exit_sem
  BY <1>1, <1>3 DEF Slot
<1>7. slots' = [slots EXCEPT ![s] = q]
  BY <1>1
<1>8. /\ stacks \in Nat /\ lost \in 0 .. MaxLost /\ refusals \in 0 .. MaxRefusals
      /\ slots[s].stack \in BOOLEAN
  BY <1>3, ProcInvImplies DEF TypeOK, Slot
<1> HIDE DEF q, s
<1>9. SlotOK(q, s \in reaped, lost')
  BY <1>1, <1>2, <1>3, <1>4, <1>5, <1>6 DEF SlotOK, Started
<1>10. stacks' = stacks + (IF q.stack THEN 1 ELSE 0) + lost'
                        - (IF slots[s].stack THEN 1 ELSE 0) - lost
  BY <1>2, <1>6, <1>8
<1>11. lost' \in 0 .. MaxLost /\ refusals' \in 0 .. MaxRefusals /\ (lost' = 0 => lost = 0)
  BY <1>2, <1>8
<1> QED
  BY <1>2, <1>3, <1>6, <1>7, <1>9, <1>10, <1>11, LeaveInv

\* akira_process_cleanup preserves the invariant: a zombie has no thread and
\* no stack, and no call that has the mutex is interrupted.
LEMMA CleanupInv ==
  ASSUME ProcInv, NEW c \in Callers, Cleanup(c)
  PROVE  ProcInv'
<1>1. /\ lock = NoCaller
      /\ slots' = [s \in Slots |-> IF s \in Reclaimable
                                     THEN [slots[s] EXCEPT !.in_use = FALSE] ELSE slots[s]]
      /\ process_count' = process_count - Cardinality(Reclaimable)
      /\ UNCHANGED <<next_pid, lock, caller, reaped, stacks, lost, refusals>>
  BY DEF Cleanup, CanCall
<1>2. ASSUME NEW s \in Slots
      PROVE  /\ SlotOK(slots'[s], s \in reaped', lost')
             /\ slots'[s].stack = slots[s].stack
             /\ slots'[s].in_use = (slots[s].in_use /\ s \notin Reclaimable)
  <2>1. SlotOK(slots[s], s \in reaped, lost) /\ slots[s] \in Slot
    BY DEF ProcInv, SlotsOK, SlotOK
  <2>2. CASE s \in Reclaimable
    <3> DEFINE q == [slots[s] EXCEPT !.in_use = FALSE]
    <3>1. slots'[s] = q /\ slots[s].state = "ZOMBIE"
      BY <1>1, <2>2 DEF Reclaimable
    <3>2. q \in Slot
      BY <2>1 DEF Slot
    <3>3. /\ q.in_use = FALSE /\ q.stack = slots[s].stack /\ q.thread = slots[s].thread
      BY <2>1 DEF Slot
    <3> HIDE DEF q
    <3>4. SlotOK(q, s \in reaped, lost)
      BY <2>1, <3>1, <3>2, <3>3 DEF SlotOK
    <3> QED
      BY <1>1, <2>2, <3>1, <3>3, <3>4
  <2>3. CASE s \notin Reclaimable
    <3>1. slots'[s] = slots[s] /\ slots[s].in_use \in BOOLEAN
      BY <1>1, <2>1, <2>3 DEF Slot
    <3> QED
      BY <1>1, <2>1, <2>3, <3>1
  <2> QED
    BY <2>2, <2>3
<1>3. SlotsOK'
  BY <1>1, <1>2 DEF SlotsOK
<1>4. Held' = Held /\ InUse' = InUse \ Reclaimable
  BY <1>2 DEF Held, InUse
<1>5. CountsOK'
  <2>1. InUse \in SUBSET Slots /\ Reclaimable \subseteq InUse /\ Reclaimable \in SUBSET Slots
    BY DEF InUse, Reclaimable
  <2>2. /\ IsFiniteSet(InUse) /\ Cardinality(InUse) \in Nat
        /\ IsFiniteSet(Reclaimable) /\ Cardinality(Reclaimable) \in Nat
    BY <2>1, SlotSets
  <2>3. InUse \cap Reclaimable = Reclaimable
    BY <2>1
  <2>4. Cardinality(InUse \ Reclaimable)
          = Cardinality(InUse) - Cardinality(InUse \cap Reclaimable)
    BY <2>2, FS_Difference
  <2> QED
    BY <1>1, <1>4, <2>2, <2>3, <2>4 DEF ProcInv, CountsOK
<1>6. CallsOK'
  <2>1. \A d \in Callers : caller[d].pc \notin Locked
    BY <1>1 DEF ProcInv, CallsOK
  <2> QED
    BY <1>1, <2>1 DEF ProcInv, CallsOK, CallOK
<1>7. ScalarsOK'
  BY <1>1 DEF ProcInv, ScalarsOK
<1> QED
  BY <1>3, <1>5, <1>6, <1>7 DEF ProcInv

\* akira_process_wait, which takes no mutex, preserves the invariant: what it
\* takes from the semaphore is remembered in reaped.
LEMMA WaitInv ==
  ASSUME ProcInv, NEW c \in Callers,
         \/ \E s \in Slots : WaitFind(c, s)
         \/ WaitBlock(c) \/ WaitTake(c) \/ WaitTimeout(c)
  PROVE  ProcInv'
<1>1. PICK k \in Caller :
        /\ caller' = [caller EXCEPT ![c] = k]
        /\ k.pc \in {"found", "wait", "idle"} /\ (k.pc # "idle" => k.slot \in Slots)
  <2>1. Idle \in Caller /\ Idle.pc = "idle"
    BY DEF Idle, Caller
  <2>2. ASSUME NEW s \in Slots, WaitFind(c, s)
        PROVE  /\ [pc |-> "found", slot |-> s] \in Caller
               /\ caller' = [caller EXCEPT ![c] = [pc |-> "found", slot |-> s]]
    BY <2>2 DEF WaitFind, Caller
  <2>3. ASSUME WaitBlock(c)
        PROVE  \E k \in Caller : /\ caller' = [caller EXCEPT ![c] = k]
                                 /\ k.pc = "wait" /\ k.slot \in Slots
    <3> DEFINE k == [caller[c] EXCEPT !.pc = "wait"]
    <3>1. caller[c] \in Caller /\ caller[c].slot \in Slots
      BY <2>3 DEF WaitBlock, ProcInv, CallsOK, CallOK
    <3>2. k \in Caller /\ k.pc = "wait" /\ k.slot \in Slots
      BY <3>1 DEF Caller
    <3>3. caller' = [caller EXCEPT ![c] = k]
      BY <2>3 DEF WaitBlock
    <3> QED
      BY <3>2, <3>3
  <2>4. WaitTake(c) \/ WaitTimeout(c) => caller' = [caller EXCEPT ![c] = Idle]
    BY DEF WaitTake, WaitTimeout
  <2>5. \A s \in Slots : [pc |-> "found", slot |-> s].pc = "found"
                         /\ [pc |-> "found", slot |-> s].slot = s
    OBVIOUS
  <2> QED
    BY <2>1, <2>2, <2>3, <2>4, <2>5
<1>2. caller[c].pc \in {"idle", "found", "wait"}
  BY DEF WaitFind, WaitBlock, WaitTake, WaitTimeout
<1>3. /\ UNCHANGED <<next_pid, process_count, lock, stacks, lost, refusals>>
      /\ \/ UNCHANGED <<slots, reaped>>
         \/ /\ slots' = [slots EXCEPT ![caller[c].slot].exit_sem = 0]
            /\ reaped' = reaped \cup {caller[c].slot} /\ caller[c].slot \in Slots
  BY DEF WaitFind, WaitBlock, WaitTake, WaitTimeout, ProcInv, CallsOK, CallOK
<1>4. ASSUME NEW s \in Slots
      PROVE  /\ SlotOK(slots'[s], s \in reaped', lost')
             /\ slots'[s].stack = slots[s].stack /\ slots'[s].in_use = slots[s].in_use
             /\ slots'[s].state = slots[s].state
  <2>1. SlotOK(slots[s], s \in reaped, lost) /\ slots[s] \in Slot
    BY DEF ProcInv, SlotsOK, SlotOK
  <2>2. CASE slots'[s] = slots[s] /\ reaped \subseteq reaped'
    BY <1>3, <2>1, <2>2 DEF SlotOK
  <2>3. CASE slots'[s] = [slots[s] EXCEPT !.exit_sem = 0] /\ s \in reaped'
    <3> DEFINE q == [slots[s] EXCEPT !.exit_sem = 0]
    <3>1. q \in Slot
      BY <2>1 DEF Slot
    <3>2. /\ q.in_use = slots[s].in_use /\ q.stack = slots[s].stack
          /\ q.thread = slots[s].thread /\ q.state = slots[s].state
      BY <2>1 DEF Slot
    <3> HIDE DEF q
    <3>3. SlotOK(q, s \in reaped', lost)
      BY <2>1, <2>3, <3>1, <3>2 DEF SlotOK
    <3> QED
      BY <1>3, <2>3, <3>2, <3>3 DEF q
  <2> QED
    BY <1>3, <2>2, <2>3 DEF ProcInv, SlotsOK
<1>5. slots' = [s \in Slots |-> slots'[s]] /\ reaped' \subseteq Slots
  BY <1>3 DEF ProcInv, SlotsOK, ScalarsOK
<1>6. SlotsOK'
  BY <1>4, <1>5 DEF SlotsOK
<1>7. CountsOK'
  <2>1. Held' = Held /\ InUse' = InUse
    BY <1>4 DEF Held, InUse
  <2> QED
    BY <1>3, <2>1 DEF ProcInv, CountsOK
<1>8. ScalarsOK'
  BY <1>3, <1>5 DEF ProcInv, ScalarsOK
<1>9. CallsOK'
  <2>1. \A s \in Slots : LostBy(s)' = LostBy(s)
    BY <1>3, <1>4 DEF LostBy
  <2>2. ASSUME NEW d \in Callers
        PROVE  CallOK(caller[d])' /\ (caller'[d].pc \in Locked <=> lock' = d)
    <3>1. caller[d] \in Caller /\ CallOK(caller[d]) /\ (caller[d].pc \in Locked <=> lock = d)
      BY DEF ProcInv, CallsOK
    <3>2. CASE d = c
      BY <1>1, <1>2, <1>3, <3>1, <3>2 DEF CallOK, Locked, ProcInv, CallsOK
    <3>3. CASE d # c
      <4>1. caller'[d] = caller[d]
        BY <1>1, <3>3 DEF ProcInv, CallsOK
      <4>2. CASE caller[d].pc \in Locked
        <5>1. caller[d].slot \in Slots /\ Expects(caller[d].pc, caller[d].slot, slots[caller[d].slot])
          BY <3>1, <4>2 DEF CallOK, Locked
        <5>2. slots'[caller[d].slot].state = slots[caller[d].slot].state
          BY <1>4, <5>1
        <5>3. Expects(caller[d].pc, caller[d].slot, slots[caller[d].slot])'
          BY <2>1, <4>1, <5>1, <5>2 DEF Expects
        <5> QED
          BY <1>3, <1>4, <3>1, <4>1, <5>1, <5>3 DEF CallOK
      <4>3. CASE caller[d].pc \notin Locked
        BY <1>3, <3>1, <4>1, <4>3 DEF CallOK
      <4> QED
        BY <4>2, <4>3
    <3> QED
      BY <3>2, <3>3
  <2>3. caller' \in [Callers -> Caller]
    BY <1>1 DEF ProcInv, CallsOK
  <2> QED
    BY <2>2, <2>3 DEF CallsOK
<1> QED
  BY <1>6, <1>7, <1>8, <1>9 DEF ProcInv

-----------------------------------------------------------------------------
\* The initial state satisfies the invariant.
LEMMA InitInv == Init => ProcInv
<1> SUFFICES ASSUME Init PROVE ProcInv
  OBVIOUS
<1>1. Empty \in Slot
  BY DEF Empty, Slot, ProcessStates
<1>2. SlotsOK
  BY <1>1 DEF Init, SlotsOK, SlotOK, Empty, Live
<1>3. CallsOK
  BY DEF Init, CallsOK, CallOK, Caller, Idle, Locked
<1>4. InUse = {} /\ Held = {}
  BY DEF Init, InUse, Held, Empty
<1>5. CountsOK /\ ScalarsOK
  BY <1>4, FS_EmptySet DEF Init, CountsOK, ScalarsOK
<1> QED
  BY <1>2, <1>3, <1>5 DEF ProcInv

\* Every step preserves the invariant.
LEMMA NextInv == ProcInv /\ [Next]_vars => ProcInv'
<1> SUFFICES ASSUME ProcInv, [Next]_vars PROVE ProcInv'
  OBVIOUS
<1>1. ASSUME NEW s \in Slots, Thread(s) PROVE ProcInv'
  BY <1>1, ThreadInv
<1>2. ASSUME NEW c \in Callers, Api(c) PROVE ProcInv'
  <2>1. ASSUME NEW s \in Slots, Stop(c, s) \/ Suspend(c, s) \/ Resume(c, s) PROVE ProcInv'
    <3>1. s \in InUse
      BY <2>1 DEF Stop, Suspend, Resume
    <3> QED
      BY <2>1, <3>1, HalvesInv
  <2>2. ASSUME NEW s \in Slots, NEW code \in ExitCodes, Kill(c, s, code) PROVE ProcInv'
    <3>1. s \in InUse
      BY <2>2 DEF Kill
    <3> QED
      BY <2>2, <3>1, HalvesInv
  <2> QED
    BY <1>2, <2>1, <2>2, CreateInv, CleanupInv, StartInv, WaitInv DEF Api
<1>3. ASSUME NEW c \in Callers, Finish(c) PROVE ProcInv'
  BY <1>3, StartInv, AbortInv, PauseInv, WaitInv DEF Finish
<1>4. CASE UNCHANGED vars
  <2>1. UNCHANGED <<InUse, Held>>
    BY <1>4 DEF vars, InUse, Held
  <2>2. \A s : UNCHANGED LostBy(s)
    BY <1>4 DEF vars, LostBy
  <2> QED
    BY <1>4, <2>1, <2>2 DEF vars, ProcInv, SlotsOK, CallsOK, CallOK, Expects, CountsOK, ScalarsOK
<1> QED
  BY <1>1, <1>2, <1>3, <1>4 DEF Next

\* The process manager is correct for every number of slots, callers and
\* processes, however the API, the processes' own threads and
\* akira_process_wait, which take no mutex, overlap.
THEOREM ProcessesSound ==
  Spec => [](TypeOK /\ SlotsSound /\ ExitIsSignalled /\ NoThreadBehind)
<1>1. Spec => []ProcInv
  BY InitInv, NextInv, PTL DEF Spec
<1> QED
  BY <1>1, ProcInvImplies, PTL

\* Slots and stacks change hands only when no thread runs on them: what
\* akira_process_create takes and what stop and kill free is quiet.
THEOREM SlotsChangeHandsQuietly == Spec => []SlotsSound
BY ProcessesSound, PTL

\* A process that is over has given its semaphore, unless somebody who called
\* akira_process_wait took it.
THEOREM EndsAreSignalled == Spec => []ExitIsSignalled
BY ProcessesSound, PTL

\* No thread runs in a slot shown as CREATED or ZOMBIE, which is why
\* akira_process_cleanup may give zombies away.
THEOREM ZombiesHaveNoThread == Spec => []NoThreadBehind
BY ProcessesSound, PTL

-----------------------------------------------------------------------------
(* KernelService: what a walk that nobody disturbed has behind it is settled. *)

\* A walk with a service in hand took it from a cell of the table.
CellsInHand ==
  \A t \in Callers : Service!Walking(t) /\ thread[t].name # NoService => thread[t].i \in Service!Cells

\* What a walk that nobody disturbed has behind it, and that this is settled:
\* stopped, or not to be started.
Passed(w, s) ==
  IF w.op = "startall" THEN Priority[s] < w.prio \/ (Priority[s] = w.prio /\ handle[s] < w.i)
  ELSE Priority[s] > w.prio \/ (Priority[s] = w.prio /\ handle[s] > w.i)
Settled(w, s) ==
  IF w.op = "startall" THEN state[s] = "READY" => ~Service!DependenciesRun(s) ELSE state[s] # "RUNNING"
Holds(w) ==
  w.name # NoService =>
    /\ w.i < count /\ services[w.i] = w.name /\ Priority[w.name] = w.prio
    /\ state[w.name] = IF w.op = "startall" THEN "READY" ELSE "RUNNING"
WalkRight(w) ==
  /\ \A s \in Service!Registered : Passed(w, s) => Settled(w, s)
  /\ Holds(w)
  /\ w.op = "stopall" => w.i < count
WalksRight ==
  Service!Layered => \A t \in Callers : Service!Walking(t) /\ quiet[t] => WalkRight(thread[t])

\* The invariant.
ServiceInv ==
  Service!TypeOK /\ CellsInHand /\ Service!HandlesFindServices /\ Service!DependenciesHold /\ WalksRight

\* A walk, as a thread's record.
Walker ==
  [op : {"startall", "stopall"}, after : {"none", "started", "down"}, prio : 0 .. LastPriority,
   i : -1 .. MaxServices, name : Services \cup {NoService}]

\* What a walk is.
LEMMA Walkers ==
  ASSUME Service!TypeOK, NEW t \in Callers, Service!Walking(t)
  PROVE  thread[t] \in Walker
BY DEF Service!TypeOK, Service!Doing, Service!Walking, Service!Idle, Walker

\* Handles of registered services are their cells.
LEMMA HandleCells ==
  ASSUME Service!TypeOK, Service!HandlesFindServices
  PROVE  /\ \A s \in Service!Registered : s \in Services /\ handle[s] \in 0 .. count - 1 /\ services[handle[s]] = s
         /\ Service!Registered \subseteq Services
         /\ Service!Running \subseteq Service!Registered
         /\ \A i \in 0 .. count - 1 : i \in Service!Cells
<1>1. \A i \in 0 .. count - 1 : i \in Service!Cells
  BY ServicesAssumption DEF Service!TypeOK, Service!Cells
<1>2. \A s \in Service!Registered : s \in Services /\ handle[s] \in 0 .. count - 1 /\ services[handle[s]] = s
  BY DEF Service!HandlesFindServices, Service!Registered
<1>3. Service!Running \subseteq Service!Registered
  BY DEF Service!HandlesFindServices, Service!Running
<1> QED
  BY <1>1, <1>2, <1>3

\* A call of akira_service_start under the mutex.
LEMMA StartKeeps ==
  ASSUME ServiceInv, NEW s \in Services, Service!StartService(s), UNCHANGED Service!tableVars
  PROVE  /\ state' \in [Services -> Service!States] /\ dropped' \subseteq Services
         /\ Service!HandlesFindServices' /\ Service!DependenciesHold'
<1> USE DEF ServiceInv
<1>0. Service!tableVars' = Service!tableVars /\ Service!Registered' = Service!Registered
  BY DEF Service!tableVars, Service!Registered
<1>1. CASE ~Service!Startable(s)
  BY <1>0, <1>1 DEF Service!StartService, Service!TypeOK, Service!HandlesFindServices,
     Service!DependenciesHold, Service!Running, Service!tableVars
<1>2. CASE Service!Startable(s)
  <2>1. PICK st \in {"RUNNING", "ERROR"} :
          /\ state' = [state EXCEPT ![s] = st]
          /\ IF st = "RUNNING" THEN dropped' = dropped \ {s} ELSE dropped' = dropped
    BY <1>2 DEF Service!StartService
  <2>2. s \in Service!Registered /\ state[s] \in {"READY", "STOPPED"} /\ Service!DependenciesRun(s)
    BY <1>2 DEF Service!Startable
  <2>3. state' \in [Services -> Service!States] /\ dropped' \subseteq Services
    BY <2>1 DEF Service!TypeOK, Service!States
  <2>4. Service!HandlesFindServices'
    BY <1>0, <2>1, <2>2 DEF Service!HandlesFindServices, Service!tableVars,
       Service!TypeOK
  <2>5. Service!Running' = IF st = "RUNNING" THEN Service!Running \cup {s} ELSE Service!Running
    BY <2>1, <2>2 DEF Service!Running, Service!TypeOK
  <2>6. Service!DependenciesHold'
    BY <2>1, <2>2, <2>5 DEF Service!DependenciesHold, Service!DependenciesRun
  <2> QED
    BY <2>3, <2>4, <2>6
<1> QED
  BY <1>1, <1>2

\* A call of akira_service_stop under the mutex.
LEMMA StopKeeps ==
  ASSUME ServiceInv, NEW s \in Services, Service!StopService(s), UNCHANGED <<Service!tableVars, dropped>>
  PROVE  /\ state' \in [Services -> Service!States]
         /\ Service!HandlesFindServices' /\ Service!DependenciesHold'
<1> USE DEF ServiceInv
<1>0. UNCHANGED <<services, count, handle, dropped>> /\ Service!Registered' = Service!Registered
  BY DEF Service!tableVars, Service!Registered
<1>1. CASE ~Service!Stoppable(s)
  BY <1>0, <1>1 DEF Service!StopService, Service!TypeOK, Service!HandlesFindServices,
     Service!DependenciesHold, Service!Running
<1>2. CASE Service!Stoppable(s)
  <2>1. state' = [state EXCEPT ![s] = "STOPPED"]
    BY <1>2 DEF Service!StopService
  <2>2. s \in Service!Registered /\ state[s] = "RUNNING" /\ Service!Dependents(s) = {}
    BY <1>2 DEF Service!Stoppable, Service!Running
  <2>3. state' \in [Services -> Service!States]
    BY <2>1 DEF Service!TypeOK, Service!States
  <2>4. Service!HandlesFindServices'
    BY <1>0, <2>1, <2>2 DEF Service!HandlesFindServices, Service!TypeOK
  <2>5. Service!Running' = Service!Running \ {s}
    BY <2>1, <2>2 DEF Service!Running, Service!TypeOK
  <2>6. \A u \in Service!Running : u \in Service!Registered
    BY HandleCells
  <2>7. Service!DependenciesHold'
    BY <1>0, <2>2, <2>5, <2>6 DEF Service!DependenciesHold, Service!Dependents
  <2> QED
    BY <2>3, <2>4, <2>7
<1> QED
  BY <1>1, <1>2

\* A step of t that disturbs the walks of others and does not walk itself.
LEMMA Disturbs ==
  ASSUME ServiceInv, NEW t \in Callers, Service!Disturb(t), ~Service!Walking(t)'
  PROVE  WalksRight' /\ quiet' \in [Callers -> BOOLEAN]
<1>1. quiet' \in [Callers -> BOOLEAN] /\ \A u \in Callers : quiet'[u] => u = t
  BY DEF Service!Disturb, ServiceInv, Service!TypeOK
<1> QED
  BY <1>1 DEF WalksRight

\* The other walks have a cell for what they have in hand.
LEMMA OthersInHand ==
  ASSUME ServiceInv, NEW t \in Callers, thread' = [thread EXCEPT ![t] = thread'[t]],
         Service!Walking(t)' /\ thread'[t].name # NoService => thread'[t].i \in Service!Cells
  PROVE  CellsInHand'
BY DEF CellsInHand, ServiceInv, Service!TypeOK, Service!Walking

\* The walks of others go on beside a thread that is idle.
LEMMA IdleThreads ==
  ASSUME ServiceInv, NEW t \in Callers, UNCHANGED thread, thread[t] = Service!Idle
  PROVE  /\ thread' \in [Callers -> Service!Doing] /\ CellsInHand' /\ ~Service!Walking(t)'
BY DEF ServiceInv, Service!TypeOK, CellsInHand, Service!Walking, Service!Idle

\* A service that is registered takes the first free cell.
LEMMA RegisterKeeps ==
  ASSUME ServiceInv, NEW t \in Callers, NEW s \in Services, Service!Register(t, s)
  PROVE  ServiceInv'
<1> USE DEF ServiceInv
<1>1. /\ s \notin Service!Registered /\ count \in 0 .. MaxServices - 1
      /\ services' = [services EXCEPT ![count] = s] /\ count' = count + 1
      /\ handle' = [handle EXCEPT ![s] = count]
      /\ thread[t] = Service!Idle /\ UNCHANGED <<serviceInitialized, serviceRunning, thread, dropped>>
  BY ServicesAssumption DEF Service!Register, Service!systemVars, Service!TypeOK
<1>2. PICK st \in {"READY", "ERROR"} : state' = [state EXCEPT ![s] = st]
  BY DEF Service!Register
<1>3. services \in [Service!Cells -> Services \cup {NoService}] /\ state \in [Services -> Service!States]
      /\ handle \in [Services -> -1 .. MaxServices - 1] /\ state[s] = "UNREGISTERED"
  BY <1>1 DEF Service!TypeOK, Service!HandlesFindServices
<1>4. WalksRight' /\ quiet' \in [Callers -> BOOLEAN] /\ thread' \in [Callers -> Service!Doing] /\ CellsInHand'
  BY <1>1, Disturbs, IdleThreads DEF Service!Register
<1>5. Service!TypeOK'
  <2>1. count \in Service!Cells
    BY <1>1 DEF Service!Cells
  <2>2. services' \in [Service!Cells -> Services \cup {NoService}]
    BY <1>1, <1>3
  <2>3. state' \in [Services -> Service!States]
    BY <1>2, <1>3 DEF Service!States
  <2>4. handle' \in [Services -> -1 .. MaxServices - 1] /\ count' \in 0 .. MaxServices
    BY <1>1, <1>3, ServicesAssumption
  <2> QED
    BY <1>1, <1>4, <2>2, <2>3, <2>4 DEF Service!TypeOK
<1>6. \A i \in 0 .. count - 1 : i \in Service!Cells /\ i # count /\ services[i] \in Service!Registered
  BY <1>1, ServicesAssumption DEF Service!Cells, Service!Registered
<1>7. count \in Service!Cells
  BY <1>1 DEF Service!Cells
<1>8. \A i \in 0 .. count' - 1 : services'[i] \in Services /\ handle'[services'[i]] = i
  <2>1. ASSUME NEW i \in 0 .. count - 1 PROVE services'[i] \in Services /\ handle'[services'[i]] = i
    <3>1. services'[i] = services[i] /\ services[i] # s /\ services[i] \in Services /\ handle[services[i]] = i
      BY <1>1, <1>3, <1>6 DEF Service!HandlesFindServices
    <3> QED
      BY <1>1, <1>3, <3>1
  <2>2. services'[count] = s /\ handle'[s] = count
    BY <1>1, <1>3, <1>7
  <2> QED
    BY <1>1, <2>1, <2>2
<1>9. Service!Registered' = Service!Registered \cup {s}
  <2>1. \A i \in 0 .. count - 1 : services'[i] = services[i]
    BY <1>1, <1>3, <1>6
  <2>2. services'[count] = s
    BY <1>1, <1>3, <1>7
  <2>3. \A i : i \in 0 .. count' - 1 <=> i \in 0 .. count - 1 \/ i = count
    BY <1>1
  <2> QED
    BY <2>1, <2>2, <2>3 DEF Service!Registered
<1>10. Service!HandlesFindServices'
  BY <1>1, <1>2, <1>3, <1>8, <1>9 DEF Service!HandlesFindServices
<1>11. Service!Running' = Service!Running
  BY <1>2, <1>3 DEF Service!Running
<1>12. Service!DependenciesHold'
  BY <1>1, <1>11 DEF Service!DependenciesHold
<1> QED
  BY <1>4, <1>5, <1>10, <1>12

\* The cells after one that is unregistered move down, and their handles too.
LEMMA UnregisterKeeps ==
  ASSUME ServiceInv, NEW t \in Callers, NEW i \in Service!Cells, Service!Unregister(t, i)
  PROVE  ServiceInv'
<1> DEFINE s == services[i]
<1> USE DEF ServiceInv
<1>1. /\ i \in 0 .. count - 1 /\ count \in 0 .. MaxServices
      /\ services' = Service!Shifted(i) /\ count' = count - 1 /\ handle' = Service!Renumbered(i)
      /\ state' = [state EXCEPT ![s] = "UNREGISTERED"]
      /\ dropped' = IF s \in Service!Running THEN dropped \cup {s} ELSE dropped
      /\ thread[t] = Service!Idle /\ UNCHANGED <<serviceInitialized, serviceRunning, thread>>
  BY ServicesAssumption DEF Service!Unregister, Service!systemVars, Service!TypeOK,
     Service!Cells
<1>2. services \in [Service!Cells -> Services \cup {NoService}] /\ state \in [Services -> Service!States]
      /\ handle \in [Services -> -1 .. MaxServices - 1] /\ s \in Services /\ handle[s] = i
  BY <1>1 DEF Service!TypeOK, Service!HandlesFindServices
<1>3. WalksRight' /\ quiet' \in [Callers -> BOOLEAN] /\ thread' \in [Callers -> Service!Doing] /\ CellsInHand'
  BY <1>1, Disturbs, IdleThreads DEF Service!Unregister
<1>4. \A j \in 0 .. count - 1 : j \in Service!Cells /\ services[j] \in Services /\ handle[services[j]] = j
  BY <1>1, ServicesAssumption DEF Service!Cells, Service!HandlesFindServices
<1>5. \A j \in Service!Cells : j < count - 1 => j + 1 \in Service!Cells /\ j + 1 \in 0 .. count - 1
  BY <1>1, ServicesAssumption DEF Service!Cells
<1>6. \A j \in Service!Cells : services'[j] = IF i <= j /\ j < count - 1 THEN services[j + 1] ELSE services[j]
  BY <1>1 DEF Service!Shifted
<1>7. \A u \in Services : handle'[u] = IF u = s THEN Service!InvalidHandle
                      ELSE IF \E j \in i + 1 .. count - 1 : services[j] = u THEN handle[u] - 1
                      ELSE handle[u]
  BY <1>1 DEF Service!Renumbered
<1>8. Service!TypeOK'
  <2>1. services' \in [Service!Cells -> Services \cup {NoService}]
    BY <1>1, <1>2, <1>5, <1>6 DEF Service!Shifted
  <2>2. \A u \in Services : handle'[u] \in -1 .. MaxServices - 1
    <3> SUFFICES ASSUME NEW u \in Services PROVE handle'[u] \in -1 .. MaxServices - 1
      OBVIOUS
    <3>1. handle[u] \in -1 .. MaxServices - 1 /\ -1 \in -1 .. MaxServices - 1
      BY <1>2, ServicesAssumption
    <3>2. CASE \E j \in i + 1 .. count - 1 : services[j] = u
      <4>1. handle[u] \in i + 1 .. count - 1
        BY <1>1, <1>4, <3>2
      <4>2. handle[u] - 1 \in -1 .. MaxServices - 1
        <5>1. PICK h \in Int : h = handle[u]
          BY <3>1
        <5>2. h \in i + 1 .. count - 1 /\ i \in Nat /\ count \in Nat /\ count <= MaxServices
          BY <1>1, <4>1, <5>1
        <5> QED
          BY <5>1, <5>2, ServicesAssumption
      <4>3. -1 \in -1 .. MaxServices - 1
        BY ServicesAssumption
      <4>4. handle'[u] = Service!InvalidHandle \/ handle'[u] = handle[u] - 1
        BY <1>7, <3>2
      <4> QED
        BY <4>2, <4>3, <4>4 DEF Service!InvalidHandle
    <3> QED
      BY <1>7, <3>1, <3>2 DEF Service!InvalidHandle
  <2>3. handle' \in [Services -> -1 .. MaxServices - 1]
    BY <1>1, <2>2 DEF Service!Renumbered
  <2>4. state' \in [Services -> Service!States]
    BY <1>1, <1>2 DEF Service!States
  <2>5. count' \in 0 .. MaxServices /\ dropped' \subseteq Services
    BY <1>1, <1>2, ServicesAssumption DEF Service!TypeOK
  <2> QED
    BY <1>1, <1>3, <2>1, <2>3, <2>4, <2>5 DEF Service!TypeOK
<1>9. ASSUME NEW j \in 0 .. count' - 1
      PROVE  /\ services'[j] \in Services \ {s} /\ handle'[services'[j]] = j
             /\ services'[j] \in Service!Registered
  <2>1. j \in 0 .. count - 1 /\ j < count - 1 /\ j \in Service!Cells
    BY <1>1, <1>4, <1>9
  <2>2. CASE j < i
    <3>1. services'[j] = services[j] /\ services[j] \in Services /\ handle[services[j]] = j
      BY <1>1, <1>4, <1>6, <2>1, <2>2
    <3>2. services[j] # s /\ services[j] \in Service!Registered
      BY <1>1, <1>2, <2>1, <2>2, <3>1 DEF Service!Registered
    <3>3. ~\E k \in i + 1 .. count - 1 : services[k] = services[j]
      BY <1>1, <1>4, <2>1, <2>2, <3>1
    <3> QED
      BY <1>7, <3>1, <3>2, <3>3
  <2>3. CASE i <= j
    <3>1. j + 1 \in i + 1 .. count - 1 /\ j + 1 \in 0 .. count - 1
      BY <1>1, <2>1, <2>3
    <3>2. services'[j] = services[j + 1]
      BY <1>6, <2>1, <2>3
    <3>3. services[j + 1] \in Services /\ handle[services[j + 1]] = j + 1
      BY <1>4, <3>1
    <3>4. services[j + 1] # s /\ services[j + 1] \in Service!Registered
      BY <1>1, <1>2, <2>1, <2>3, <3>1, <3>3 DEF Service!Registered
    <3>5. handle'[services[j + 1]] = (j + 1) - 1
      BY <1>7, <3>1, <3>3, <3>4
    <3>6. (j + 1) - 1 = j
      BY <2>1
    <3> QED
      BY <3>2, <3>3, <3>4, <3>5, <3>6
  <2> QED
    BY <1>1, <2>1, <2>2, <2>3
<1>10. ASSUME NEW u \in Service!Registered, u # s PROVE u \in Service!Registered'
  <2>1. PICK j \in 0 .. count - 1 : services[j] = u
    BY <1>10 DEF Service!Registered
  <2>2. CASE j < i
    <3>1. services'[j] = u /\ j \in 0 .. count' - 1
      BY <1>1, <1>4, <1>6, <2>1, <2>2
    <3> QED
      BY <3>1 DEF Service!Registered
  <2>3. CASE j > i
    <3>1. j - 1 \in Service!Cells /\ j - 1 \in 0 .. count' - 1 /\ i <= j - 1 /\ j - 1 < count - 1 /\ (j - 1) + 1 = j
      BY <1>1, <1>4, <2>1, <2>3, ServicesAssumption DEF Service!Cells
    <3>2. services'[j - 1] = services[j]
      BY <1>6, <3>1
    <3> QED
      BY <2>1, <3>1, <3>2 DEF Service!Registered
  <2> QED
    BY <1>1, <1>10, <2>1, <2>2, <2>3
<1>11. Service!HandlesFindServices'
  <2>1. ASSUME NEW u \in Services, u \notin Service!Registered', u # s
        PROVE  handle'[u] = Service!InvalidHandle /\ state'[u] = "UNREGISTERED"
    <3>1. u \notin Service!Registered
      BY <1>10, <2>1
    <3>2. handle[u] = Service!InvalidHandle /\ state[u] = "UNREGISTERED"
      BY <2>1, <3>1 DEF Service!HandlesFindServices
    <3>3. ~\E k \in i + 1 .. count - 1 : services[k] = u
      BY <1>1, <3>1 DEF Service!Registered
    <3> QED
      BY <1>1, <1>2, <1>7, <2>1, <3>2, <3>3
  <2>2. handle'[s] = Service!InvalidHandle /\ state'[s] = "UNREGISTERED"
    BY <1>1, <1>2, <1>7
  <2> QED
    BY <1>9, <2>1, <2>2 DEF Service!HandlesFindServices
<1>12. Service!Running' = Service!Running \ {s}
  BY <1>1, <1>2 DEF Service!Running
<1>13. Service!DependenciesHold'
  BY <1>1, <1>12 DEF Service!DependenciesHold
<1> QED
  BY <1>3, <1>8, <1>11, <1>13

\* A call that starts or stops a service outside any walk.
LEMMA CallKeeps ==
  ASSUME ServiceInv, NEW t \in Callers, NEW s \in Services,
         \/ Service!StartService(s)
         \/ Service!StopService(s) /\ UNCHANGED dropped,
         Service!Disturb(t), UNCHANGED <<Service!tableVars, Service!systemVars>>, ~Service!Walking(t)',
         thread' \in [Callers -> Service!Doing], thread' = [thread EXCEPT ![t] = thread'[t]]
  PROVE  ServiceInv'
<1>1. WalksRight' /\ quiet' \in [Callers -> BOOLEAN]
  BY Disturbs
<1>2. CellsInHand'
  BY OthersInHand
<1>3. /\ state' \in [Services -> Service!States] /\ dropped' \subseteq Services
      /\ Service!HandlesFindServices' /\ Service!DependenciesHold'
  <2>1. CASE Service!StartService(s)
    BY <2>1, StartKeeps
  <2>2. CASE Service!StopService(s) /\ UNCHANGED dropped
    BY <2>2, StopKeeps DEF ServiceInv, Service!TypeOK
  <2> QED
    BY <2>1, <2>2
<1>4. Service!TypeOK'
  BY <1>1, <1>3 DEF ServiceInv, Service!TypeOK, Service!tableVars, Service!systemVars
<1> QED
  BY <1>1, <1>2, <1>3, <1>4 DEF ServiceInv

\* The calls of the API, and both halves of a restart.
LEMMA ApiKeeps ==
  ASSUME ServiceInv, NEW t \in Callers, NEW s \in Services,
         Service!Start(t, s) \/ Service!Stop(t, s) \/ Service!RestartStop(t, s) \/ Service!RestartStart(t)
  PROVE  ServiceInv'
<1>0. thread \in [Callers -> Service!Doing]
  BY DEF ServiceInv, Service!TypeOK
<1>1. CASE Service!Start(t, s) \/ Service!Stop(t, s)
  <2>1. thread' = [thread EXCEPT ![t] = thread'[t]] /\ thread' \in [Callers -> Service!Doing] /\ ~Service!Walking(t)'
    BY <1>0, <1>1 DEF Service!Start, Service!Stop, Service!Walking, Service!Idle
  <2>2. Service!Disturb(t) /\ UNCHANGED <<Service!tableVars, Service!systemVars>>
    BY <1>1 DEF Service!Start, Service!Stop
  <2> QED
    BY <1>1, <2>1, <2>2, CallKeeps DEF Service!Start, Service!Stop
<1>2. CASE Service!RestartStop(t, s)
  <2>1. Service!StopOk(s) \in BOOLEAN
    BY DEF Service!StopOk
  <2>2. Service!Restarting(s, Service!StopOk(s)) \in Service!Doing /\ Service!Restarting(s, Service!StopOk(s)).op = "restart"
    BY <2>1 DEF Service!Restarting, Service!Doing
  <2>3. thread' = [thread EXCEPT ![t] = Service!Restarting(s, Service!StopOk(s))]
    BY <1>2 DEF Service!RestartStop
  <2>4. thread' = [thread EXCEPT ![t] = thread'[t]] /\ thread' \in [Callers -> Service!Doing] /\ ~Service!Walking(t)'
    BY <1>0, <2>2, <2>3 DEF Service!Walking
  <2> QED
    BY <1>2, <2>4, CallKeeps DEF Service!RestartStop
<1>3. CASE Service!RestartStart(t)
  <2> DEFINE r == thread[t].name
  <2>1. thread' = [thread EXCEPT ![t] = Service!Idle]
    BY <1>3 DEF Service!RestartStart
  <2>2. thread' = [thread EXCEPT ![t] = thread'[t]] /\ thread' \in [Callers -> Service!Doing] /\ ~Service!Walking(t)'
    BY <1>0, <2>1 DEF Service!Walking, Service!Idle, Service!Doing
  <2>3. r \in Services
    BY <1>0, <1>3 DEF Service!RestartStart, Service!Doing, Service!Idle
  <2>4. Service!Disturb(t) /\ UNCHANGED <<Service!tableVars, Service!systemVars>>
    BY <1>3 DEF Service!RestartStart
  <2>5. Service!StartService(r) \/ UNCHANGED <<state, dropped>>
    BY <1>3 DEF Service!RestartStart
  <2>6. CASE Service!StartService(r)
    BY <2>2, <2>3, <2>4, <2>6, CallKeeps
  <2>7. CASE UNCHANGED <<state, dropped>>
    <3>1. WalksRight' /\ quiet' \in [Callers -> BOOLEAN] /\ CellsInHand'
      BY <2>2, <2>4, Disturbs, OthersInHand
    <3>2. Service!TypeOK'
      BY <2>2, <2>4, <2>7, <3>1 DEF ServiceInv, Service!TypeOK, Service!tableVars,
         Service!systemVars
    <3>3. Service!HandlesFindServices' /\ Service!DependenciesHold'
      BY <2>4, <2>7 DEF ServiceInv, Service!HandlesFindServices,
         Service!DependenciesHold, Service!Registered, Service!Running, Service!tableVars
    <3> QED
      BY <3>1, <3>2, <3>3 DEF ServiceInv
  <2> QED
    BY <2>5, <2>6, <2>7
<1> QED
  BY <1>1, <1>2, <1>3

\* Where a walk begins nothing is behind it.
LEMMA BeginKeeps ==
  ASSUME ServiceInv, NEW t \in Callers, NEW after \in {"none", "started", "down"},
         Service!StartAll(t, after) \/ Service!StopAll(t, after)
  PROVE  ServiceInv'
<1> USE DEF ServiceInv
<1>0. PICK w : w = thread'[t]
  OBVIOUS
<1>1. /\ UNCHANGED <<services, count, handle, state, dropped, serviceInitialized>>
      /\ quiet' = [u \in Callers |-> u = t]
      /\ serviceRunning' \in BOOLEAN
  BY DEF Service!StartAll, Service!StopAll, Service!Quiet, Service!tableVars,
     Service!systemVars, Service!TypeOK
<1>2. /\ thread' = [thread EXCEPT ![t] = w] /\ w = thread'[t]
      /\ \/ w = Service!Walk("startall", after, 0, 0)
         \/ w = Service!Walk("stopall", after, LastPriority, count - 1)
  BY <1>0 DEF Service!StartAll, Service!StopAll, Service!FirstStopPriority,
     Service!TypeOK
<1>3. w \in Walker /\ w.name = NoService
  BY <1>2, ServicesAssumption DEF Service!Walk, Walker, Service!TypeOK
<1>4. Service!TypeOK'
  BY <1>1, <1>2, <1>3 DEF Service!TypeOK, Service!Doing, Walker
<1>5. CellsInHand'
  BY <1>2, <1>3, OthersInHand
<1>6. Service!HandlesFindServices' /\ Service!DependenciesHold' /\ Service!Registered' = Service!Registered
  BY <1>1 DEF Service!HandlesFindServices, Service!DependenciesHold, Service!Registered,
     Service!Running
<1>7. WalkRight(thread[t])'
  <2>1. ASSUME NEW s \in Service!Registered, Passed(w, s)' PROVE FALSE
    <3>1. Priority[s] \in 0 .. LastPriority /\ handle[s] \in 0 .. count - 1
      BY HandleCells, ServicesAssumption
    <3>2. CASE w = Service!Walk("startall", after, 0, 0)
      BY <1>1, <2>1, <3>1, <3>2, ServicesAssumption DEF Passed, Service!Walk
    <3>3. CASE w = Service!Walk("stopall", after, LastPriority, count - 1)
      <4>1. w.op = "stopall" /\ w.prio = LastPriority /\ w.i = count - 1
        BY <3>3 DEF Service!Walk
      <4>2. Priority[s] > LastPriority \/ handle[s] > count - 1
        BY <1>1, <2>1, <4>1 DEF Passed
      <4> QED
        BY <3>1, <4>2, ServicesAssumption DEF Service!TypeOK
    <3> QED
      BY <1>2, <3>2, <3>3
  <2>2. w.op = "stopall" => w.i < count'
    BY <1>1, <1>2 DEF Service!Walk, Service!TypeOK
  <2> QED
    BY <1>2, <1>3, <1>6, <2>1, <2>2 DEF WalkRight, Holds
<1>8. WalksRight'
  BY <1>1, <1>7 DEF WalksRight
<1> QED
  BY <1>4, <1>5, <1>6, <1>8

\* Where a walk ends, and akira_init, move no service.
LEMMA EndKeeps ==
  ASSUME ServiceInv, (\E t \in Callers : Service!WalkEnds(t)) \/ Service!SystemInit
  PROVE  ServiceInv'
<1> USE DEF ServiceInv
<1>1. UNCHANGED <<services, count, handle, state, dropped>>
  BY DEF Service!WalkEnds, Service!SystemInit, Service!tableVars
<1>2. Service!HandlesFindServices' /\ Service!DependenciesHold' /\ Service!Registered' = Service!Registered
  BY <1>1 DEF Service!HandlesFindServices, Service!DependenciesHold, Service!Registered,
     Service!Running
<1>3. \A w : WalkRight(w)' <=> WalkRight(w)
  BY <1>1, <1>2 DEF WalkRight, Holds, Passed, Settled, Service!DependenciesRun,
     Service!Running
<1>4. CASE Service!SystemInit
  <2>1. UNCHANGED <<thread, quiet, serviceRunning>> /\ serviceInitialized' = TRUE
    BY <1>4 DEF Service!SystemInit
  <2>2. Service!TypeOK' /\ CellsInHand'
    BY <1>1, <2>1 DEF Service!TypeOK, CellsInHand, Service!Walking
  <2>3. WalksRight'
    BY <1>3, <2>1 DEF WalksRight, Service!Walking
  <2> QED
    BY <1>2, <2>2, <2>3
<1>5. ASSUME NEW t \in Callers, Service!WalkEnds(t) PROVE ServiceInv'
  <2>1. /\ thread' = [thread EXCEPT ![t] = Service!Idle] /\ quiet' = [quiet EXCEPT ![t] = FALSE]
        /\ serviceRunning' \in BOOLEAN /\ serviceInitialized' \in BOOLEAN
    BY <1>5 DEF Service!WalkEnds, Service!TypeOK
  <2>2. Service!TypeOK'
    BY <1>1, <2>1 DEF Service!TypeOK, Service!Doing
  <2>3. CellsInHand'
    BY <2>1 DEF Service!TypeOK, CellsInHand, Service!Walking, Service!Idle
  <2>4. WalksRight'
    BY <1>3, <2>1 DEF WalksRight, Service!Walking, Service!TypeOK, Service!Idle
  <2> QED
    BY <1>2, <2>2, <2>3, <2>4
<1> QED
  BY <1>4, <1>5

\* A walk moves to another priority.
LEMMA MovedWalk ==
  ASSUME NEW w \in Walker, NEW p \in Int, NEW j \in Int, w.name = NoService
  PROVE  [w EXCEPT !.prio = p, !.i = j]
           = [op |-> w.op, after |-> w.after, prio |-> p, i |-> j, name |-> NoService]
<1>1. PICK r : r = [w EXCEPT !.prio = p]
  OBVIOUS
<1>2. r = [op |-> w.op, after |-> w.after, prio |-> p, i |-> w.i, name |-> NoService]
  BY <1>1 DEF Walker
<1>3. [r EXCEPT !.i = j] = [w EXCEPT !.prio = p, !.i = j]
  BY <1>1
<1>4. [r EXCEPT !.i = j]
        = [op |-> w.op, after |-> w.after, prio |-> p, i |-> j, name |-> NoService]
  BY <1>2
<1> QED
  BY <1>3, <1>4

\* A walk looks at the next cell: what it leaves behind is settled.
LEMMA LookKeeps ==
  ASSUME ServiceInv, NEW t \in Callers, Service!Look(t)
  PROVE  ServiceInv'
<1> USE DEF ServiceInv
<1>0. PICK w : w = thread[t]
  OBVIOUS
<1>0a. PICK v : v = thread'[t]
  OBVIOUS
<1>1. /\ w \in Walker /\ w.name = NoService /\ ~Service!Done(w)
      /\ thread' = [thread EXCEPT ![t] = v]
      /\ UNCHANGED <<services, count, handle, state, serviceInitialized, serviceRunning, dropped, quiet>>
  BY <1>0, <1>0a, Walkers DEF Service!Look, Service!tableVars, Service!systemVars,
     Service!TypeOK
<1>2. \/ ~Service!InRange(w) /\ v = Service!NextPriority(w)
      \/ Service!InRange(w) /\ Service!Wanted(w) /\ v = [w EXCEPT !.name = services[w.i]]
      \/ Service!InRange(w) /\ ~Service!Wanted(w) /\ v = Service!NextCell(w)
  BY <1>0, <1>0a DEF Service!Look, Service!TypeOK
<1>3. Service!HandlesFindServices' /\ Service!DependenciesHold' /\ Service!Registered' = Service!Registered
  BY <1>1 DEF Service!HandlesFindServices, Service!DependenciesHold, Service!Registered,
     Service!Running
<1>4. \A x : /\ WalkRight(x)' <=> WalkRight(x)
  BY <1>1, <1>3 DEF WalkRight, Holds, Passed, Settled, Service!DependenciesRun,
     Service!Running
<1>5. /\ w.op \in {"startall", "stopall"} /\ w.after \in {"none", "started", "down"}
      /\ w.prio \in 0 .. LastPriority /\ w.i \in -1 .. MaxServices
      /\ w = [op |-> w.op, after |-> w.after, prio |-> w.prio, i |-> w.i, name |-> NoService]
      /\ count \in 0 .. MaxServices
  BY <1>1 DEF Walker, Service!TypeOK
<1>6. /\ v \in Walker /\ v.op = w.op
      /\ v.name # NoService => v.i \in Service!Cells
      /\ Service!Layered /\ WalkRight(w) => WalkRight(v)
  <2>1. CASE ~Service!InRange(w) /\ v = Service!NextPriority(w)
    <3>1. CASE w.op = "startall"
      <4>1. w.prio # LastPriority /\ w.i >= count
        BY <1>1, <1>5, <2>1, <3>1 DEF Service!Done, Service!InRange
      <4>2. v = [op |-> "startall", after |-> w.after, prio |-> w.prio + 1, i |-> 0, name |-> NoService]
        <5>1. PICK p \in Int, j \in Int : p = w.prio + 1 /\ j = 0
          BY <1>5
        <5>2. v = [w EXCEPT !.prio = p, !.i = j]
          BY <2>1, <3>1, <5>1 DEF Service!NextPriority
        <5>3. [w EXCEPT !.prio = p, !.i = j]
                = [op |-> w.op, after |-> w.after, prio |-> p, i |-> j, name |-> NoService]
          BY <1>1, MovedWalk, Zenon
        <5> QED
          BY <3>1, <5>1, <5>2, <5>3
      <4>3. w.prio + 1 \in 0 .. LastPriority /\ 0 \in -1 .. MaxServices
        BY <1>5, <4>1, ServicesAssumption
      <4>4. ASSUME NEW s \in Service!Registered, Passed(v, s) PROVE Passed(w, s)
        <5>1. Priority[s] \in 0 .. LastPriority /\ handle[s] \in 0 .. count - 1
          BY HandleCells, ServicesAssumption
        <5>2. Priority[s] < w.prio + 1
          BY <4>2, <4>4, <5>1 DEF Passed
        <5> QED
          BY <1>5, <3>1, <4>1, <5>1, <5>2, ServicesAssumption DEF Passed
      <4> QED
        BY <1>5, <3>1, <4>2, <4>3, <4>4 DEF Walker, WalkRight, Settled, Holds
    <3>2. CASE w.op = "stopall"
      <4>1. w.prio # 0 /\ w.i < 0
        BY <1>1, <1>5, <2>1, <3>2 DEF Service!Done, Service!InRange
      <4>2. v = [op |-> "stopall", after |-> w.after, prio |-> w.prio - 1, i |-> count - 1, name |-> NoService]
        <5>1. PICK p \in Int, j \in Int : p = w.prio - 1 /\ j = count - 1
          BY <1>5
        <5>2. v = [w EXCEPT !.prio = p, !.i = j]
          BY <1>5, <2>1, <3>2, <5>1 DEF Service!NextPriority
        <5>3. [w EXCEPT !.prio = p, !.i = j]
                = [op |-> w.op, after |-> w.after, prio |-> p, i |-> j, name |-> NoService]
          BY <1>1, MovedWalk, Zenon
        <5> QED
          BY <3>2, <5>1, <5>2, <5>3
      <4>3. w.prio - 1 \in 0 .. LastPriority /\ count - 1 \in -1 .. MaxServices /\ count - 1 < count
        BY <1>5, <4>1, ServicesAssumption
      <4>4. ASSUME NEW s \in Service!Registered, Passed(v, s) PROVE Passed(w, s)
        <5>1. Priority[s] \in 0 .. LastPriority /\ handle[s] \in 0 .. count - 1
          BY HandleCells, ServicesAssumption
        <5>2. Priority[s] > w.prio - 1
          BY <1>5, <4>2, <4>4, <5>1 DEF Passed
        <5> QED
          BY <1>5, <3>2, <4>1, <5>1, <5>2, ServicesAssumption DEF Passed
      <4> QED
        BY <1>5, <3>2, <4>2, <4>3, <4>4 DEF Walker, WalkRight, Settled, Holds
    <3> QED
      BY <1>5, <3>1, <3>2
  <2>2. CASE Service!InRange(w) /\ Service!Wanted(w) /\ v = [w EXCEPT !.name = services[w.i]]
    <3>1. w.i \in Service!Cells /\ services[w.i] \in Services /\ Priority[services[w.i]] = w.prio
          /\ state[services[w.i]] = IF w.op = "startall" THEN "READY" ELSE "RUNNING"
      BY <2>2 DEF Service!Wanted, Service!TypeOK
    <3>2. v = [op |-> w.op, after |-> w.after, prio |-> w.prio, i |-> w.i, name |-> services[w.i]]
      BY <1>5, <2>2
    <3>3. v \in Walker
      BY <1>5, <3>1, <3>2 DEF Walker
    <3>4. ASSUME WalkRight(w) PROVE WalkRight(v)
      <4>1. v.i < count
        BY <1>5, <2>2, <3>2, <3>4 DEF Service!InRange, WalkRight
      <4>2. \A s : Passed(v, s) = Passed(w, s) /\ Settled(v, s) = Settled(w, s)
        BY <3>2 DEF Passed, Settled
      <4> QED
        BY <3>1, <3>2, <3>4, <4>1, <4>2 DEF WalkRight, Holds
    <3> QED
      BY <3>1, <3>2, <3>3, <3>4
  <2>3. CASE Service!InRange(w) /\ ~Service!Wanted(w) /\ v = Service!NextCell(w)
    <3>1. ASSUME WalkRight(w), NEW s \in Service!Registered, handle[s] = w.i, Priority[s] = w.prio
          PROVE  Settled(w, s)
      <4>1. handle[s] \in 0 .. count - 1 /\ services[w.i] = s /\ w.i \in Service!Cells /\ s \in Services
        BY <3>1, HandleCells
      <4>2. services[w.i] # NoService
        BY <4>1, ServicesAssumption
      <4> QED
        BY <2>3, <3>1, <4>1, <4>2 DEF Service!Wanted, Settled
    <3>2. CASE w.op = "startall"
      <4>1. v = [op |-> "startall", after |-> w.after, prio |-> w.prio, i |-> w.i + 1, name |-> NoService]
        BY <1>5, <2>3, <3>2 DEF Service!NextCell
      <4>2. w.i + 1 \in -1 .. MaxServices
        BY <1>5, <2>3, <3>2, ServicesAssumption DEF Service!InRange
      <4>3. ASSUME NEW s \in Service!Registered, Passed(v, s), ~Passed(w, s)
            PROVE  handle[s] = w.i /\ Priority[s] = w.prio
        <5>1. Priority[s] \in 0 .. LastPriority /\ handle[s] \in 0 .. count - 1
          BY HandleCells, ServicesAssumption
        <5> QED
          BY <1>5, <3>2, <4>1, <4>3, <5>1 DEF Passed
      <4> QED
        BY <1>5, <3>1, <3>2, <4>1, <4>2, <4>3 DEF Walker, WalkRight, Settled, Holds
    <3>3. CASE w.op = "stopall"
      <4>1. v = [op |-> "stopall", after |-> w.after, prio |-> w.prio, i |-> w.i - 1, name |-> NoService]
        BY <1>5, <2>3, <3>3 DEF Service!NextCell
      <4>2. w.i - 1 \in -1 .. MaxServices /\ (w.i < count => w.i - 1 < count)
        BY <1>5, <2>3, <3>3, ServicesAssumption DEF Service!InRange
      <4>3. ASSUME NEW s \in Service!Registered, Passed(v, s), ~Passed(w, s)
            PROVE  handle[s] = w.i /\ Priority[s] = w.prio
        <5>1. Priority[s] \in 0 .. LastPriority /\ handle[s] \in 0 .. count - 1
          BY HandleCells, ServicesAssumption
        <5> QED
          BY <1>5, <3>3, <4>1, <4>3, <5>1 DEF Passed
      <4> QED
        BY <1>5, <3>1, <3>3, <4>1, <4>2, <4>3 DEF Walker, WalkRight, Settled, Holds
    <3> QED
      BY <1>5, <3>2, <3>3
  <2> QED
    BY <1>2, <2>1, <2>2, <2>3
<1>7. Service!TypeOK'
  BY <1>1, <1>6 DEF Service!TypeOK, Service!Doing, Walker
<1>8. CellsInHand'
  BY <1>1, <1>6 DEF CellsInHand, Service!TypeOK, Service!Walking
<1>9. WalksRight'
  <2>1. ASSUME Service!Layered, NEW u \in Callers, Service!Walking(u)', quiet'[u] PROVE WalkRight(thread'[u])
    <3>1. CASE u # t
      BY <1>1, <2>1, <3>1 DEF WalksRight, Service!Walking, Service!TypeOK
    <3>2. CASE u = t
      <4>1. Service!Walking(t) /\ quiet[t]
        BY <1>0, <1>1, <1>5, <2>1, <3>2 DEF Service!Walking
      <4> QED
        BY <1>0, <1>0a, <1>6, <2>1, <3>2, <4>1 DEF WalksRight
    <3> QED
      BY <3>1, <3>2
  <2> QED
    BY <1>4, <2>1 DEF WalksRight
<1> QED
  BY <1>3, <1>7, <1>8, <1>9

\* A walk calls akira_service_start or _stop with the service in hand: in the
\* order of the priorities what the call depends on, or what depends on it, is
\* behind the walk.
LEMMA WalkCallKeeps ==
  ASSUME ServiceInv, NEW t \in Callers, Service!CallFromWalk(t)
  PROVE  ServiceInv'
<1> USE DEF ServiceInv
<1>0. PICK w : w = thread[t]
  OBVIOUS
<1>0a. PICK v : v = Service!NextCell(w)
  OBVIOUS
<1>1. /\ w \in Walker /\ w.name # NoService /\ w.name \in Services /\ w.i \in Service!Cells
      /\ thread' = [thread EXCEPT ![t] = v]
      /\ Service!Disturb(t) /\ UNCHANGED <<services, count, handle, serviceInitialized, serviceRunning>>
      /\ Service!Walking(t)
  BY <1>0, <1>0a, Walkers DEF Service!CallFromWalk, Service!tableVars,
     Service!systemVars, Service!TypeOK, CellsInHand, Walker
<1>2. UNCHANGED <<Service!tableVars, Service!systemVars>>
  BY DEF Service!CallFromWalk
<1>3. /\ w.op \in {"startall", "stopall"} /\ w.after \in {"none", "started", "down"}
      /\ w.prio \in 0 .. LastPriority /\ w.i \in 0 .. MaxServices - 1
      /\ count \in 0 .. MaxServices
  BY <1>1 DEF Walker, Service!TypeOK, Service!Cells
<1>4. v = [op |-> w.op, after |-> w.after, prio |-> w.prio,
           i |-> IF w.op = "startall" THEN w.i + 1 ELSE w.i - 1, name |-> NoService]
  <2>1. PICK j : j = IF w.op = "startall" THEN w.i + 1 ELSE w.i - 1
    OBVIOUS
  <2>2. v = [w EXCEPT !.name = NoService, !.i = j]
    BY <1>0a, <2>1 DEF Service!NextCell
  <2> QED
    BY <1>1, <2>1, <2>2 DEF Walker
<1>5. /\ IF w.op = "startall" THEN Service!StartService(w.name) ELSE Service!StopService(w.name) /\ UNCHANGED dropped
  BY <1>0, <1>1 DEF Service!CallFromWalk
<1>6. /\ state' \in [Services -> Service!States] /\ dropped' \subseteq Services
      /\ Service!HandlesFindServices' /\ Service!DependenciesHold'
  <2>1. CASE w.op = "startall"
    BY <1>1, <1>2, <1>5, <2>1, StartKeeps
  <2>2. CASE w.op # "startall"
    BY <1>1, <1>2, <1>5, <2>2, StopKeeps DEF Service!TypeOK
  <2> QED
    BY <2>1, <2>2
<1>7. v \in Walker /\ v.name = NoService /\ v.op = w.op
  BY <1>3, <1>4, ServicesAssumption DEF Walker
<1>8. quiet' \in [Callers -> BOOLEAN] /\ \A u \in Callers : quiet'[u] => u = t /\ quiet[t]
  BY <1>1 DEF Service!Disturb, Service!TypeOK
<1>9. Service!TypeOK'
  BY <1>1, <1>6, <1>7, <1>8 DEF Service!TypeOK, Service!Doing, Walker
<1>10. CellsInHand'
  BY <1>1, <1>7 DEF CellsInHand, Service!TypeOK, Service!Walking
<1>11. Service!Registered' = Service!Registered
  BY <1>1 DEF Service!Registered
<1>12. ASSUME Service!Layered, quiet[t] PROVE WalkRight(v)'
  <2>1. WalkRight(w)
    BY <1>0, <1>1, <1>12 DEF WalksRight
  <2> DEFINE n == w.name
  <2>2. /\ w.i < count /\ services[w.i] = n /\ Priority[n] = w.prio
        /\ state[n] = IF w.op = "startall" THEN "READY" ELSE "RUNNING"
        /\ w.op = "stopall" => w.i < count
        /\ \A s \in Service!Registered : Passed(w, s) => Settled(w, s)
    BY <1>1, <2>1 DEF WalkRight, Holds
  <2>3. handle[n] = w.i /\ n \in Service!Registered /\ n \in Services
    BY <1>1, <1>3, <2>2 DEF Service!HandlesFindServices, Service!Registered
  <2>4. ASSUME NEW s \in Service!Registered, s # n, Passed(v, s)' PROVE Passed(w, s)
    <3>1. Priority[s] \in 0 .. LastPriority /\ handle[s] \in 0 .. count - 1 /\ services[handle[s]] = s
      BY HandleCells, ServicesAssumption
    <3>2. handle[s] # w.i
      BY <2>2, <2>4, <3>1
    <3>3. CASE w.op = "startall"
      <4>1. v.i = w.i + 1 /\ v.prio = w.prio /\ v.op = "startall"
        BY <1>4, <3>3
      <4> QED
        BY <1>1, <1>3, <2>4, <3>1, <3>2, <3>3, <4>1 DEF Passed
    <3>4. CASE w.op = "stopall"
      <4>1. v.i = w.i - 1 /\ v.prio = w.prio /\ v.op = "stopall"
        BY <1>4, <3>4
      <4> QED
        BY <1>1, <1>3, <2>4, <3>1, <3>2, <3>4, <4>1 DEF Passed
    <3> QED
      BY <1>3, <3>3, <3>4
  <2>5. CASE w.op = "startall"
    <3>1. Service!StartService(n)
      BY <1>5, <2>5
    <3>2. \/ ~Service!Startable(n) /\ UNCHANGED <<state, dropped>>
          \/ Service!Startable(n) /\ \E st \in {"RUNNING", "ERROR"} : state' = [state EXCEPT ![n] = st]
      BY <3>1 DEF Service!StartService
    <3>3. Settled(v, n)'
      <4>1. CASE ~Service!Startable(n) /\ UNCHANGED <<state, dropped>>
        <5>1. ~Service!DependenciesRun(n)
          BY <2>2, <2>3, <2>5, <4>1 DEF Service!Startable
        <5> QED
          BY <1>7, <1>11, <2>5, <4>1, <5>1 DEF Settled, Service!DependenciesRun,
             Service!Running
      <4>2. CASE \E st \in {"RUNNING", "ERROR"} : state' = [state EXCEPT ![n] = st]
        BY <1>7, <2>3, <2>5, <4>2 DEF Settled, Service!TypeOK
      <4> QED
        BY <3>2, <4>1, <4>2
    <3>4. ASSUME NEW s \in Service!Registered, s # n, Passed(w, s) PROVE Settled(v, s)'
      <4>1. Settled(w, s) /\ s \in Services
        BY <2>2, <3>4, HandleCells
      <4>2. Priority[s] <= w.prio
        <5>1. Priority[s] \in 0 .. LastPriority
          BY <4>1, ServicesAssumption
        <5> QED
          BY <1>3, <2>5, <3>4, <5>1 DEF Passed
      <4>3. n \notin Depends[s]
        <5>1. Priority[s] \in 0 .. LastPriority
          BY <4>1, ServicesAssumption
        <5> QED
          BY <1>3, <1>12, <2>2, <4>1, <4>2, <5>1 DEF Service!Layered
      <4>4. \A d \in Depends[s] : d \in Service!Running' => d \in Service!Running
        BY <2>3, <3>2, <4>3 DEF Service!Running, Service!TypeOK
      <4>5. state'[s] = state[s]
        BY <2>3, <3>2, <3>4, <4>1 DEF Service!TypeOK
      <4>6. Service!DependenciesRun(s)' => Service!DependenciesRun(s)
        BY <1>11, <4>4 DEF Service!DependenciesRun
      <4> QED
        BY <1>7, <2>5, <4>1, <4>5, <4>6 DEF Settled
    <3>5. Holds(v)' /\ (v.op = "stopall" => v.i < count')
      BY <1>7, <2>5 DEF Holds
    <3> QED
      BY <1>11, <2>4, <3>3, <3>4, <3>5 DEF WalkRight
  <2>6. CASE w.op = "stopall"
    <3>1. Service!StopService(n) /\ n \in Service!Running
      BY <1>5, <2>2, <2>3, <2>6 DEF Service!Running
    <3>2. Service!Dependents(n) = {}
      <4> SUFFICES ASSUME NEW u \in Service!Registered, u \in Service!Running, n \in Depends[u] PROVE FALSE
        BY DEF Service!Dependents
      <4>1. u \in Services /\ Priority[u] \in 0 .. LastPriority /\ Priority[n] < Priority[u]
        BY <1>12, HandleCells, ServicesAssumption DEF Service!Layered
      <4>2. Passed(w, u)
        BY <1>3, <2>2, <2>6, <4>1 DEF Passed
      <4>3. state[u] # "RUNNING"
        BY <2>2, <2>6, <4>2 DEF Settled
      <4> QED
        BY <4>3 DEF Service!Running
    <3>3. state' = [state EXCEPT ![n] = "STOPPED"]
      BY <2>3, <3>1, <3>2 DEF Service!StopService, Service!Stoppable
    <3>4. ASSUME NEW s \in Service!Registered, s # n => Passed(w, s) PROVE Settled(v, s)'
      <4>1. s # n => state[s] # "RUNNING"
        BY <2>2, <2>6, <3>4 DEF Settled
      <4>2. state'[s] # "RUNNING"
        BY <2>3, <3>3, <4>1, HandleCells DEF Service!TypeOK
      <4> QED
        BY <1>7, <2>6, <4>2 DEF Settled
    <3>5. Holds(v)' /\ v.i < count'
      BY <1>1, <1>3, <1>4, <1>7, <2>2, <2>6 DEF Holds
    <3> QED
      BY <1>11, <2>4, <3>4, <3>5 DEF WalkRight
  <2> QED
    BY <1>3, <2>5, <2>6
<1>13. WalksRight'
  BY <1>1, <1>8, <1>12 DEF WalksRight, Service!TypeOK
<1> QED
  BY <1>6, <1>9, <1>10, <1>13

\* Before anything is registered.
LEMMA ServicesInit == Service!Init => ServiceInv
<1> SUFFICES ASSUME Service!Init PROVE ServiceInv
  OBVIOUS
<1>1. Service!Registered = {} /\ Service!Running = {}
  BY DEF Service!Init, Service!Registered, Service!Running
<1>2. Service!TypeOK
  <2>1. -1 \in -1 .. MaxServices - 1 /\ 0 \in 0 .. MaxServices
    BY ServicesAssumption
  <2>2. handle \in [Services -> -1 .. MaxServices - 1] /\ count \in 0 .. MaxServices
    BY <2>1 DEF Service!Init, Service!InvalidHandle
  <2>3. thread \in [Callers -> Service!Doing] /\ state \in [Services -> Service!States]
    BY DEF Service!Init, Service!States, Service!Doing
  <2> QED
    BY <2>2, <2>3 DEF Service!Init, Service!TypeOK
<1>3. CellsInHand /\ WalksRight
  BY DEF Service!Init, CellsInHand, WalksRight, Service!Walking, Service!Idle
<1>4. Service!HandlesFindServices /\ Service!DependenciesHold
  BY <1>1 DEF Service!Init, Service!HandlesFindServices, Service!DependenciesHold
<1> QED
  BY <1>2, <1>3, <1>4 DEF ServiceInv

\* Every step preserves the invariant.
LEMMA ServicesNext == ServiceInv /\ [Service!Next]_(Service!vars) => ServiceInv'
<1> SUFFICES ASSUME ServiceInv, [Service!Next]_(Service!vars) PROVE ServiceInv'
  OBVIOUS
<1>1. ASSUME NEW t \in Callers, NEW s \in Services,
             Service!Register(t, s) \/ Service!Start(t, s) \/ Service!Stop(t, s) \/ Service!RestartStop(t, s)
      PROVE  ServiceInv'
  BY <1>1, RegisterKeeps, ApiKeeps
<1>2. ASSUME NEW t \in Callers, NEW i \in Service!Cells, Service!Unregister(t, i) PROVE ServiceInv'
  BY <1>2, UnregisterKeeps
<1>3. ASSUME NEW t \in Callers,
             \/ Service!StartAll(t, "none") \/ Service!StartAll(t, "started")
             \/ Service!StopAll(t, "none") \/ Service!StopAll(t, "down")
      PROVE  ServiceInv'
  BY <1>3, BeginKeeps
<1>4. ASSUME NEW t \in Callers, Service!RestartStart(t) PROVE ServiceInv'
  <2>1. thread[t].name \in Services
    BY <1>4 DEF Service!RestartStart, ServiceInv, Service!TypeOK, Service!Doing,
       Service!Idle
  <2> QED
    BY <1>4, <2>1, ApiKeeps
<1>5. ASSUME NEW t \in Callers, Service!Look(t) \/ Service!CallFromWalk(t) \/ Service!WalkEnds(t) PROVE ServiceInv'
  BY <1>5, LookKeeps, WalkCallKeeps, EndKeeps
<1>6. CASE Service!SystemInit
  BY <1>6, EndKeeps
<1>7. CASE UNCHANGED Service!vars
  <2>1. Service!Registered' = Service!Registered /\ Service!Running' = Service!Running
    BY <1>7 DEF Service!vars, Service!Registered, Service!Running
  <2>2. Service!TypeOK' /\ CellsInHand'
    BY <1>7 DEF Service!vars, ServiceInv, Service!TypeOK, CellsInHand, Service!Walking
  <2>3. Service!HandlesFindServices' /\ Service!DependenciesHold'
    BY <1>7, <2>1 DEF Service!vars, ServiceInv, Service!HandlesFindServices,
       Service!DependenciesHold
  <2>4. WalksRight'
    BY <1>7, <2>1 DEF Service!vars, ServiceInv, WalksRight, WalkRight, Holds, Passed, Settled,
       Service!DependenciesRun, Service!Walking
  <2> QED
    BY <2>2, <2>3, <2>4 DEF ServiceInv
<1> QED
  BY <1>1, <1>2, <1>3, <1>4, <1>5, <1>6, <1>7 DEF Service!Next

\* A walk that is over has everything behind it.
LEMMA ServicesImplied == ServiceInv => Service!ServicesSound
<1> SUFFICES ASSUME ServiceInv PROVE Service!WalksComplete
  BY DEF ServiceInv, Service!ServicesSound
<1> USE DEF ServiceInv
<1> SUFFICES ASSUME NEW t \in Callers, Service!Layered, Service!Walking(t), quiet[t],
                    thread[t].name = NoService, Service!Done(thread[t])
             PROVE  IF thread[t].op = "stopall" THEN Service!Running = {}
                    ELSE \A s \in Service!Registered : state[s] = "READY" => ~Service!DependenciesRun(s)
  BY DEF Service!WalksComplete
<1>1. PICK w \in Walker : w = thread[t]
  BY Walkers
<1>2. \A s \in Service!Registered : Passed(w, s) => Settled(w, s)
  BY <1>1 DEF WalksRight, WalkRight
<1>3. w.op \in {"startall", "stopall"} /\ w.i \in -1 .. MaxServices /\ w.prio \in 0 .. LastPriority
      /\ count \in 0 .. MaxServices
  BY <1>1 DEF Walker, Service!TypeOK
<1>4. ASSUME NEW s \in Service!Registered PROVE Settled(w, s)
  <2>1. Priority[s] \in 0 .. LastPriority /\ handle[s] \in 0 .. count - 1
    BY HandleCells, ServicesAssumption
  <2>2. CASE w.op = "startall"
    BY <1>1, <1>2, <1>3, <2>1, <2>2, ServicesAssumption DEF Service!Done,
       Service!InRange, Passed
  <2>3. CASE w.op = "stopall"
    BY <1>1, <1>2, <1>3, <2>1, <2>3, ServicesAssumption DEF Service!Done,
       Service!InRange, Passed
  <2> QED
    BY <1>3, <2>2, <2>3
<1>5. Service!Running \subseteq Service!Registered
  BY HandleCells
<1> QED
  BY <1>1, <1>3, <1>4, <1>5 DEF Settled, Service!Running

\* For any number of services, threads and cells, whatever calls and walks
\* overlap: handles find their services, a service runs only while those it
\* depends on do, and an undisturbed walk leaves none out (service.c, init.c).
THEOREM ServicesCorrect == Service!Spec => [](Service!TypeOK /\ Service!ServicesSound)
<1>1. ServiceInv => Service!TypeOK
  BY DEF ServiceInv
<1> QED
  BY <1>1, ServicesInit, ServicesNext, ServicesImplied, PTL DEF Service!Spec

-----------------------------------------------------------------------------
(* The heap: every block in one place, counted while it is somebody's.       *)

\* Where a block of the heap can be; "new" and "booked" are the blocks a call holds,
\* before and after the leak count knows of them.
Place(kind, x) == <<kind, x>>
Nowhere == Place("nowhere", 0)
Loose == Place("loose", 0)
NewOf(t) == Place("new", t)
BookedOf(t) == Place("booked", t)
InRegion(r) == Place("region", r)
InPool(p) == Place("pool", p)
Books(q) == q[1] \in {"loose", "booked", "region"}

\* What a call holds.
Second(c) == IF Len(c.blocks) = 2 THEN {c.blocks[2]} ELSE {}
NewIn(c) == IF c.op \in {"malloc", "kfree", "header"} THEN {c.blocks[1]}
            ELSE IF c.op = "counted" THEN {c.blocks[2]} ELSE {}
BookedIn(c) == IF c.op \in {"malloc", "kfree"} THEN Second(c)
               ELSE IF c.op = "free" THEN {c.blocks[1]} \cup Second(c)
               ELSE IF c.op \in {"base", "counted"} THEN {c.blocks[1]} ELSE {}
Pair(r) == {r[1], r[2]}
Under(p) == IF p.live /\ p.owns THEN {p.buffer} ELSE {}

\* The heap as the sets of blocks in each place.
Heap(A, L, R, C, P) ==
  [all |-> A, loose |-> L, regions |-> R,
   new |-> [t \in Callers |-> NewIn(C[t])],
   booked |-> [t \in Callers |-> BookedIn(C[t])],
   pool |-> [p \in Memory!PoolIds |-> Under(P[p])]]

Valid(h, q) ==
  \/ q = Loose
  \/ \E t \in Callers : q = NewOf(t) \/ q = BookedOf(t)
  \/ \E r \in h.regions : q = InRegion(r)
  \/ \E p \in Memory!PoolIds : q = InPool(p)
At(h, w, q) == {b \in h.all : w[b] = q}
Booked(h, w) == {b \in h.all : Books(w[b])}

\* Every block of the heap is in one place.
Placed(h, w) ==
  /\ h.loose = At(h, w, Loose)
  /\ \A t \in Callers : h.new[t] = At(h, w, NewOf(t)) /\ h.booked[t] = At(h, w, BookedOf(t))
  /\ \A r \in h.regions : Pair(r) = At(h, w, InRegion(r))
  /\ \A p \in Memory!PoolIds : h.pool[p] = At(h, w, InPool(p))
  /\ \A b \in h.all : Valid(h, w[b])
Fits(h, n) ==
  IsFiniteSet(h.all) /\ \E w : Placed(h, w) /\ Cardinality(Booked(h, w)) = n

\* The blocks M go from the place o to the place q, and nothing else changes.
After(g, w, M, q) == [b \in g.all |-> IF b \in M THEN q ELSE w[b]]
Sub(S, place, M, o, q) == IF place = q THEN S \cup M ELSE IF place = o THEN S \ M ELSE S
Moved(h, g, M, o, q) ==
  /\ g.all = IF q = Nowhere THEN h.all \ M ELSE h.all \cup M
  /\ g.loose = Sub(h.loose, Loose, M, o, q)
  /\ \A t \in Callers : /\ g.new[t] = Sub(h.new[t], NewOf(t), M, o, q)
                        /\ g.booked[t] = Sub(h.booked[t], BookedOf(t), M, o, q)
  /\ \A p \in Memory!PoolIds : g.pool[p] = Sub(h.pool[p], InPool(p), M, o, q)
GainsRegion(h, g, M, q) ==
  \E r : q = InRegion(r) /\ r \notin h.regions /\ M = Pair(r) /\ g.regions = h.regions \cup {r}
LosesRegion(h, g, o) == \E r : o = InRegion(r) /\ g.regions = h.regions \ {r}
From(h, M, o) ==
  \/ o = Nowhere /\ M \cap h.all = {}
  \/ o = Loose /\ M \subseteq h.loose
  \/ \E t \in Callers : o = NewOf(t) /\ M \subseteq h.new[t]
  \/ \E t \in Callers : o = BookedOf(t) /\ M \subseteq h.booked[t]
  \/ \E r \in h.regions : o = InRegion(r) /\ M = Pair(r)
  \/ \E p \in Memory!PoolIds : o = InPool(p) /\ M \subseteq h.pool[p]

LEMMA PlacesDiffer ==
  /\ \A k, l, x, y : Place(k, x) = Place(l, y) <=> k = l /\ x = y
  /\ \A k, x : Place(k, x)[1] = k /\ Place(k, x)[2] = x
BY DEF Place

\* What moves is where it is said to be.
LEMMA Origin ==
  ASSUME NEW h, NEW w, Placed(h, w), NEW M, NEW o, From(h, M, o), o # Nowhere
  PROVE  \A b \in M : b \in h.all /\ w[b] = o
BY DEF Placed, From, At

\* A move keeps every block in one place.
LEMMA BlocksMove ==
  ASSUME NEW h, NEW g, NEW w, NEW M, NEW o, NEW q, Placed(h, w), From(h, M, o),
         Moved(h, g, M, o, q), q # o, q = Nowhere \/ Valid(g, q),
         \/ GainsRegion(h, g, M, q) /\ o[1] # "region"
         \/ LosesRegion(h, g, o) /\ q[1] # "region"
         \/ g.regions = h.regions /\ q[1] # "region" /\ o[1] # "region"
  PROVE  /\ Placed(g, After(g, w, M, q))
         /\ Booked(g, After(g, w, M, q)) =
              IF Books(q) THEN Booked(h, w) \cup M ELSE Booked(h, w) \ M
         /\ o # Nowhere => \A b \in M : b \in Booked(h, w) <=> Books(o)
         /\ o = Nowhere => M \cap Booked(h, w) = {}
<1> DEFINE v == [b \in g.all |-> IF b \in M THEN q ELSE w[b]]
<1>1. o # Nowhere => \A b \in M : b \in h.all /\ w[b] = o
  BY Origin
<1>2. o = Nowhere => M \cap h.all = {}
  BY PlacesDiffer DEF From, Nowhere, Loose, NewOf, BookedOf, InRegion, InPool
<1>3. g.all = IF q = Nowhere THEN h.all \ M ELSE h.all \cup M
  BY DEF Moved
<1>4. ASSUME NEW place, place # Nowhere
      PROVE  At(g, v, place) = Sub(At(h, w, place), place, M, o, q)
  BY <1>1, <1>2, <1>3, <1>4 DEF At, Sub
<1> HIDE DEF v
<1>5. g.loose = At(g, v, Loose)
  <2>1. Loose # Nowhere
    BY PlacesDiffer DEF Loose, Nowhere
  <2>2. At(g, v, Loose) = Sub(At(h, w, Loose), Loose, M, o, q)
    BY <1>4, <2>1
  <2> QED
    BY <2>2 DEF Moved, Placed
<1>6. ASSUME NEW t \in Callers
      PROVE  g.new[t] = At(g, v, NewOf(t)) /\ g.booked[t] = At(g, v, BookedOf(t))
  <2>1. NewOf(t) # Nowhere /\ BookedOf(t) # Nowhere
    BY PlacesDiffer DEF NewOf, BookedOf, Nowhere
  <2>2. /\ At(g, v, NewOf(t)) = Sub(At(h, w, NewOf(t)), NewOf(t), M, o, q)
        /\ At(g, v, BookedOf(t)) = Sub(At(h, w, BookedOf(t)), BookedOf(t), M, o, q)
    BY <1>4, <2>1
  <2> QED
    BY <2>2 DEF Moved, Placed
<1>7. ASSUME NEW r \in g.regions PROVE Pair(r) = At(g, v, InRegion(r))
  <2>1. InRegion(r) # Nowhere
    BY PlacesDiffer DEF InRegion, Nowhere
  <2>2. At(g, v, InRegion(r)) = Sub(At(h, w, InRegion(r)), InRegion(r), M, o, q)
    BY <1>4, <2>1
  <2>3. CASE InRegion(r) = q
    <3>1. q[1] = "region" /\ GainsRegion(h, g, M, q)
      BY <2>3, PlacesDiffer DEF InRegion
    <3>2. r \notin h.regions /\ M = Pair(r)
      BY <2>3, <3>1, PlacesDiffer DEF GainsRegion, InRegion
    <3>3. At(h, w, InRegion(r)) = {}
      BY <3>2, PlacesDiffer DEF At, Placed, Valid, Loose, NewOf, BookedOf, InRegion, InPool
    <3> QED
      BY <2>2, <2>3, <3>2, <3>3 DEF Sub
  <2>4. CASE InRegion(r) = o
    <3>1. o[1] = "region" /\ LosesRegion(h, g, o)
      BY <2>4, PlacesDiffer DEF InRegion
    <3> QED
      BY <2>4, <3>1, PlacesDiffer DEF LosesRegion, InRegion
  <2>5. CASE InRegion(r) # q /\ InRegion(r) # o
    <3>1. r \in h.regions
      BY <2>5 DEF GainsRegion, LosesRegion
    <3>2. At(g, v, InRegion(r)) = At(h, w, InRegion(r))
      BY <2>2, <2>5 DEF Sub
    <3> QED
      BY <3>1, <3>2 DEF Placed
  <2> QED
    BY <2>3, <2>4, <2>5
<1>8. ASSUME NEW p \in Memory!PoolIds PROVE g.pool[p] = At(g, v, InPool(p))
  <2>1. InPool(p) # Nowhere
    BY PlacesDiffer DEF InPool, Nowhere
  <2>2. At(g, v, InPool(p)) = Sub(At(h, w, InPool(p)), InPool(p), M, o, q)
    BY <1>4, <2>1
  <2> QED
    BY <2>2 DEF Moved, Placed
<1>9. ASSUME NEW b \in g.all PROVE Valid(g, v[b])
  <2>1. CASE b \in M
    BY <1>3, <2>1 DEF v
  <2>2. CASE b \notin M
    <3>1. b \in h.all /\ v[b] = w[b]
      BY <1>3, <2>2 DEF v
    <3>2. Valid(h, w[b])
      BY <3>1 DEF Placed
    <3>3. ASSUME NEW r \in h.regions, w[b] = InRegion(r) PROVE r \in g.regions
      <4>1. CASE o = InRegion(r)
        <5>1. M = Pair(r)
          BY <4>1, PlacesDiffer DEF From, Nowhere, Loose, NewOf, BookedOf, InRegion, InPool
        <5>2. b \in Pair(r)
          BY <3>1, <3>3 DEF Placed, At
        <5> QED
          BY <2>2, <5>1, <5>2
      <4>2. CASE o # InRegion(r)
        BY <4>2 DEF GainsRegion, LosesRegion
      <4> QED
        BY <4>1, <4>2
    <3> QED
      BY <3>1, <3>2, <3>3 DEF Valid
  <2> QED
    BY <2>1, <2>2
<1>10. Placed(g, v)
  BY <1>5, <1>6, <1>7, <1>8, <1>9 DEF Placed
<1>11. ~Books(Nowhere)
  BY PlacesDiffer DEF Books, Nowhere
<1>12. Booked(g, v) = IF Books(q) THEN Booked(h, w) \cup M ELSE Booked(h, w) \ M
  BY <1>1, <1>2, <1>3, <1>11 DEF Booked, v
<1>13. /\ o # Nowhere => \A b \in M : b \in Booked(h, w) <=> Books(o)
       /\ o = Nowhere => M \cap Booked(h, w) = {}
  BY <1>1, <1>2 DEF Booked
<1> QED
  BY <1>10, <1>12, <1>13 DEF v, After

\* The number of booked blocks after a move of one block, and of a pair.
LEMMA OneMoves ==
  ASSUME NEW h, NEW g, NEW n, NEW x, NEW o, NEW q, Fits(h, n), From(h, {x}, o),
         Moved(h, g, {x}, o, q), q # o, q = Nowhere \/ Valid(g, q),
         g.regions = h.regions, q[1] # "region", o[1] # "region"
  PROVE  /\ n \in Nat
         /\ Books(o) /\ Books(q) => Fits(g, n)
         /\ ~Books(o) /\ ~Books(q) => Fits(g, n)
         /\ ~Books(o) /\ Books(q) => Fits(g, n + 1)
         /\ Books(o) /\ ~Books(q) => n # 0 /\ Fits(g, n - 1)
<1>1. PICK w : Placed(h, w) /\ Cardinality(Booked(h, w)) = n
  BY DEF Fits
<1> DEFINE v == After(g, w, {x}, q)
<1>2. /\ Placed(g, v)
      /\ Booked(g, v) = IF Books(q) THEN Booked(h, w) \cup {x} ELSE Booked(h, w) \ {x}
      /\ o # Nowhere => (x \in Booked(h, w) <=> Books(o))
      /\ o = Nowhere => x \notin Booked(h, w)
  BY <1>1, BlocksMove
<1> HIDE DEF v
<1>3. ~Books(Nowhere)
  BY PlacesDiffer DEF Books, Nowhere
<1>4. x \in Booked(h, w) <=> Books(o)
  BY <1>2, <1>3
<1>5. IsFiniteSet(g.all)
  BY FS_AddElement, FS_RemoveElement DEF Fits, Moved
<1>6. IsFiniteSet(Booked(h, w)) /\ n \in Nat
  <2>1. Booked(h, w) \subseteq h.all
    BY DEF Booked
  <2> QED
    BY <1>1, <2>1, FS_Subset, FS_CardinalityType DEF Fits
<1>7. /\ Cardinality(Booked(h, w) \cup {x}) = IF x \in Booked(h, w) THEN n ELSE n + 1
      /\ Cardinality(Booked(h, w) \ {x}) = IF x \in Booked(h, w) THEN n - 1 ELSE n
      /\ x \in Booked(h, w) => n # 0
  BY <1>1, <1>6, FS_AddElement, FS_RemoveElement, FS_EmptySet
<1> QED
  BY <1>2, <1>4, <1>5, <1>6, <1>7 DEF Fits

LEMMA PairMoves ==
  ASSUME NEW h, NEW g, NEW n, NEW M, NEW o, NEW q, Fits(h, n), From(h, M, o),
         Moved(h, g, M, o, q), q # o, Valid(g, q), M \subseteq h.all,
         Books(o), Books(q),
         \/ GainsRegion(h, g, M, q) /\ o[1] # "region"
         \/ LosesRegion(h, g, o) /\ q[1] # "region"
  PROVE  Fits(g, n)
<1>1. PICK w : Placed(h, w) /\ Cardinality(Booked(h, w)) = n
  BY DEF Fits
<1> DEFINE v == After(g, w, M, q)
<1>2. /\ Placed(g, v) /\ Booked(g, v) = Booked(h, w) \cup M
      /\ o # Nowhere => \A b \in M : b \in Booked(h, w) <=> Books(o)
  BY <1>1, BlocksMove
<1> HIDE DEF v
<1>3. o # Nowhere /\ q # Nowhere
  BY PlacesDiffer DEF Books, Nowhere
<1>4. Booked(g, v) = Booked(h, w)
  BY <1>2, <1>3
<1>5. g.all = h.all
  BY <1>3 DEF Moved
<1> QED
  BY <1>1, <1>2, <1>4, <1>5 DEF Fits


\* What a call in progress looks like.
CallShape(c) ==
  \/ c = [op |-> "idle", blocks |-> <<>>]
  \/ \E op \in {"malloc", "free", "kfree", "header", "base", "psram"} : \E a :
       c = [op |-> op, blocks |-> <<a>>]
  \/ \E op \in {"malloc", "free", "kfree", "counted"} : \E a, b :
       a # b /\ c = [op |-> op, blocks |-> <<a, b>>]
CallsShaped ==
  /\ memoryCall = [t \in Callers |-> memoryCall[t]]
  /\ \A t \in Callers : CallShape(memoryCall[t])
RegionsShaped == \A r \in memoryRegions : \E a, b : a # b /\ r = <<a, b>>

PoolRecords == [live : BOOLEAN, kind : {"FIXED", "VARIABLE"}, owns : BOOLEAN,
                buffer : {0} \cup Blocks \cup PsramBlocks, used : Int, out : Int]
PoolsShaped ==
  /\ pools \in [Memory!PoolIds -> PoolRecords]
  /\ \A p \in Memory!PoolIds :
       pools[p].live /\ pools[p].kind = "FIXED" => pools[p].used = pools[p].out

\* PSRAM: a call's buffer is its own.
PsramOf(c) == IF c.op = "psram" THEN {c.blocks[1]} ELSE {}
PsramIn(C) == UNION {PsramOf(C[t]) : t \in Callers}
Lent(P) == {P[p].buffer : p \in {q \in Memory!PoolIds : P[q].live /\ ~P[q].owns}}
PsramKept ==
  /\ psram \subseteq PsramBlocks
  /\ psram = PsramIn(memoryCall) \cup memoryLost \cup Lent(pools)
  /\ \A t \in Callers : PsramOf(memoryCall[t]) \cap (memoryLost \cup Lent(pools)) = {}
  /\ \A t, u \in Callers : t # u => PsramOf(memoryCall[t]) \cap PsramOf(memoryCall[u]) = {}

\* The leak count against the n blocks that are booked.
Ledger(n) ==
  /\ balance \in Int /\ balance <= n
  /\ ~early => balance = n
  /\ ~memoryInitialized => balance = 0
TheHeap == Heap(allocated, loose, memoryRegions, memoryCall, pools)
HeapKept == \E n \in Nat : Fits(TheHeap, n) /\ Ledger(n)
MemoryInv == CallsShaped /\ RegionsShaped /\ PoolsShaped /\ PsramKept /\ HeapKept

LEMMA BooksFacts ==
  /\ ~Books(Nowhere) /\ Books(Loose)
  /\ Nowhere # Loose /\ Nowhere[1] # "region" /\ Loose[1] # "region"
  /\ \A t : /\ ~Books(NewOf(t)) /\ Books(BookedOf(t))
            /\ NewOf(t) # Nowhere /\ BookedOf(t) # Nowhere
            /\ NewOf(t) # Loose /\ BookedOf(t) # Loose
            /\ NewOf(t)[1] # "region" /\ BookedOf(t)[1] # "region"
  /\ \A t, u : /\ NewOf(t) # BookedOf(u)
               /\ (NewOf(t) = NewOf(u) => t = u) /\ (BookedOf(t) = BookedOf(u) => t = u)
  /\ \A r : Books(InRegion(r)) /\ InRegion(r)[1] = "region"
  /\ \A r, q : q[1] # "region" => InRegion(r) # q
  /\ \A p : /\ ~Books(InPool(p)) /\ InPool(p)[1] # "region" /\ InPool(p) # Nowhere
            /\ InPool(p) # Loose
            /\ \A t : InPool(p) # NewOf(t) /\ InPool(p) # BookedOf(t)
            /\ \A r : InPool(p) = InPool(r) => p = r
BY PlacesDiffer DEF Books, Nowhere, Loose, NewOf, BookedOf, InRegion, InPool

\* What calls of each shape hold.
LEMMA Held1 ==
  ASSUME NEW op, NEW a, NEW c, c = [op |-> op, blocks |-> <<a>>]
  PROVE  /\ c.op = op /\ c.blocks = <<a>> /\ c.blocks[1] = a
         /\ NewIn(c) = IF op \in {"malloc", "kfree", "header"} THEN {a}
                       ELSE IF op = "counted" THEN {c.blocks[2]} ELSE {}
         /\ BookedIn(c) = IF op \in {"free", "base", "counted"} THEN {a} ELSE {}
         /\ PsramOf(c) = IF op = "psram" THEN {a} ELSE {}
<1>1. c.op = op /\ c.blocks = <<a>> /\ Len(c.blocks) = 1 /\ c.blocks[1] = a
  OBVIOUS
<1>2. Second(c) = {}
  BY <1>1 DEF Second
<1> QED
  BY <1>1, <1>2 DEF NewIn, BookedIn, PsramOf

LEMMA Held2 ==
  ASSUME NEW op, NEW a, NEW b, NEW c, c = [op |-> op, blocks |-> <<a, b>>]
  PROVE  /\ c.op = op /\ c.blocks = <<a, b>> /\ c.blocks[1] = a /\ c.blocks[2] = b
         /\ NewIn(c) = IF op \in {"malloc", "kfree", "header"} THEN {a}
                       ELSE IF op = "counted" THEN {b} ELSE {}
         /\ BookedIn(c) = IF op \in {"malloc", "kfree"} THEN {b}
                          ELSE IF op = "free" THEN {a, b}
                          ELSE IF op \in {"base", "counted"} THEN {a} ELSE {}
         /\ PsramOf(c) = IF op = "psram" THEN {a} ELSE {}
<1>1. c.op = op /\ c.blocks = <<a, b>> /\ Len(c.blocks) = 2 /\ c.blocks[1] = a /\ c.blocks[2] = b
  OBVIOUS
<1>2. Second(c) = {b}
  BY <1>1 DEF Second
<1> QED
  BY <1>1, <1>2 DEF NewIn, BookedIn, PsramOf

LEMMA HeldIdle ==
  ASSUME NEW c, c = [op |-> "idle", blocks |-> <<>>]
  PROVE  c.op = "idle" /\ NewIn(c) = {} /\ BookedIn(c) = {} /\ PsramOf(c) = {}
<1>1. c.op = "idle" /\ Len(c.blocks) # 2
  OBVIOUS
<1> QED
  BY <1>1 DEF NewIn, BookedIn, PsramOf, Second

\* A call is what its op says.
LEMMA ShapeByOp ==
  ASSUME NEW c, CallShape(c)
  PROVE  /\ c.op = "idle" => c = [op |-> "idle", blocks |-> <<>>]
         /\ c.op \in {"header", "base", "psram"} =>
              \E a : c = [op |-> c.op, blocks |-> <<a>>]
         /\ c.op = "counted" =>
              \E a, b : a # b /\ c = [op |-> "counted", blocks |-> <<a, b>>]
         /\ c.op \in {"malloc", "free", "kfree"} =>
              \/ \E a : c = [op |-> c.op, blocks |-> <<a>>]
              \/ \E a, b : a # b /\ c = [op |-> c.op, blocks |-> <<a, b>>]
BY DEF CallShape

\* A step of one call that moves at most one block.
LEMMA CallMoves ==
  ASSUME NEW A, NEW B, NEW L, NEW K, NEW R, NEW C, NEW D, NEW P,
         NEW t \in Callers, NEW x, NEW o, NEW q,
         \A u \in Callers \ {t} : D[u] = C[u],
         o \in {Nowhere, Loose, NewOf(t), BookedOf(t)},
         q \in {Nowhere, Loose, NewOf(t), BookedOf(t)},
         B = IF q = Nowhere THEN A \ {x} ELSE A \cup {x},
         K = Sub(L, Loose, {x}, o, q),
         NewIn(D[t]) = Sub(NewIn(C[t]), NewOf(t), {x}, o, q),
         BookedIn(D[t]) = Sub(BookedIn(C[t]), BookedOf(t), {x}, o, q)
  PROVE  Moved(Heap(A, L, R, C, P), Heap(B, K, R, D, P), {x}, o, q)
<1> DEFINE h == Heap(A, L, R, C, P)
<1> DEFINE g == Heap(B, K, R, D, P)
<1>1. /\ h.all = A /\ h.loose = L /\ g.all = B /\ g.loose = K /\ g.pool = h.pool
      /\ \A u \in Callers : /\ h.new[u] = NewIn(C[u]) /\ h.booked[u] = BookedIn(C[u])
                            /\ g.new[u] = NewIn(D[u]) /\ g.booked[u] = BookedIn(D[u])
  BY DEF Heap
<1> HIDE DEF h, g
<1>3. ASSUME NEW u \in Callers
      PROVE  /\ g.new[u] = Sub(h.new[u], NewOf(u), {x}, o, q)
             /\ g.booked[u] = Sub(h.booked[u], BookedOf(u), {x}, o, q)
  <2>1. CASE u = t
    BY <1>1, <2>1
  <2>2. CASE u # t
    <3>1. NewOf(u) \notin {o, q} /\ BookedOf(u) \notin {o, q}
      BY <2>2, BooksFacts
    <3> QED
      BY <1>1, <2>2, <3>1 DEF Sub
  <2> QED
    BY <2>1, <2>2
<1>4. ASSUME NEW p \in Memory!PoolIds
      PROVE  g.pool[p] = Sub(h.pool[p], InPool(p), {x}, o, q)
  <2>1. InPool(p) \notin {o, q}
    BY BooksFacts
  <2> QED
    BY <1>1, <2>1 DEF Sub
<1>5. Moved(h, g, {x}, o, q)
  BY <1>1, <1>3, <1>4 DEF Moved
<1> QED
  BY <1>5 DEF h, g

\* A step of one call that leaves the blocks where they are.
LEMMA CallRests ==
  ASSUME NEW A, NEW L, NEW R, NEW C, NEW D, NEW P,
         \A u \in Callers : NewIn(D[u]) = NewIn(C[u]) /\ BookedIn(D[u]) = BookedIn(C[u])
  PROVE  Heap(A, L, R, D, P) = Heap(A, L, R, C, P)
<1>1. /\ [u \in Callers |-> NewIn(D[u])] = [u \in Callers |-> NewIn(C[u])]
      /\ [u \in Callers |-> BookedIn(D[u])] = [u \in Callers |-> BookedIn(C[u])]
  OBVIOUS
<1> QED
  BY <1>1 DEF Heap

\* A step of the call of t moves the block x from the place o to the place q.
CallMove(A, B, L, K, C, D, t, x, o, q) ==
  /\ o # q /\ \A u \in Callers \ {t} : D[u] = C[u]
  /\ \/ o = Nowhere /\ x \notin A
     \/ o = Loose /\ x \in L
     \/ o = NewOf(t) /\ x \in NewIn(C[t])
     \/ o = BookedOf(t) /\ x \in BookedIn(C[t])
  /\ q \in {Nowhere, Loose, NewOf(t), BookedOf(t)}
  /\ B = IF q = Nowhere THEN A \ {x} ELSE A \cup {x}
  /\ K = Sub(L, Loose, {x}, o, q)
  /\ NewIn(D[t]) = Sub(NewIn(C[t]), NewOf(t), {x}, o, q)
  /\ BookedIn(D[t]) = Sub(BookedIn(C[t]), BookedOf(t), {x}, o, q)

LEMMA OneCallFits ==
  ASSUME NEW A, NEW B, NEW L, NEW K, NEW R, NEW C, NEW D, NEW P, NEW t \in Callers,
         NEW x, NEW o, NEW q, NEW n,
         CallMove(A, B, L, K, C, D, t, x, o, q),
         Fits(Heap(A, L, R, C, P), n)
  PROVE  /\ n \in Nat
         /\ Books(o) /\ Books(q) => Fits(Heap(B, K, R, D, P), n)
         /\ ~Books(o) /\ ~Books(q) => Fits(Heap(B, K, R, D, P), n)
         /\ ~Books(o) /\ Books(q) => Fits(Heap(B, K, R, D, P), n + 1)
         /\ Books(o) /\ ~Books(q) =>
              n # 0 /\ Fits(Heap(B, K, R, D, P), n - 1)
<1> DEFINE h == Heap(A, L, R, C, P)
<1> DEFINE g == Heap(B, K, R, D, P)
<1>0. o \in {Nowhere, Loose, NewOf(t), BookedOf(t)}
  BY DEF CallMove
<1>1. Moved(h, g, {x}, o, q)
  BY <1>0, CallMoves DEF CallMove
<1>2. /\ h.all = A /\ h.loose = L /\ h.regions = R /\ g.regions = R
      /\ h.new[t] = NewIn(C[t]) /\ h.booked[t] = BookedIn(C[t])
  BY DEF Heap
<1> HIDE DEF h, g
<1>3. From(h, {x}, o)
  BY <1>2 DEF From, CallMove
<1>4. q = Nowhere \/ Valid(g, q)
  BY DEF Valid, CallMove
<1>5. q[1] # "region" /\ o[1] # "region"
  BY <1>0, BooksFacts DEF CallMove
<1>6. Fits(h, n)
  BY DEF h
<1>7. /\ n \in Nat
      /\ Books(o) /\ Books(q) => Fits(g, n)
      /\ ~Books(o) /\ ~Books(q) => Fits(g, n)
      /\ ~Books(o) /\ Books(q) => Fits(g, n + 1)
      /\ Books(o) /\ ~Books(q) => n # 0 /\ Fits(g, n - 1)
  BY <1>1, <1>2, <1>3, <1>4, <1>5, <1>6, OneMoves DEF CallMove
<1> QED
  BY <1>7 DEF g

LEMMA LedgerRests ==
  ASSUME NEW n \in Nat, Ledger(n), UNCHANGED <<balance, early, memoryInitialized>>
  PROVE  Ledger(n)'
BY DEF Ledger

LEMMA CountUp ==
  ASSUME NEW n \in Nat, Ledger(n), Memory!Count(1), UNCHANGED memoryInitialized
  PROVE  n + 1 \in Nat /\ Ledger(n + 1)'
<1>1. CASE memoryInitialized
  <2>1. balance' = balance + 1 /\ memoryInitialized' /\ (~early' => ~early)
    BY <1>1 DEF Memory!Count
  <2>2. /\ balance \in Int /\ balance <= n /\ (~early => balance = n)
    BY DEF Ledger
  <2>3. /\ balance' \in Int /\ balance' <= n + 1 /\ n + 1 \in Nat
        /\ balance = n => balance' = n + 1
    BY <2>1, <2>2
  <2> QED
    BY <2>1, <2>2, <2>3 DEF Ledger
<1>2. CASE ~memoryInitialized
  <2>1. balance' = balance /\ early'
    BY <1>2 DEF Memory!Count
  <2>2. balance = 0 /\ 0 <= n + 1 /\ n + 1 \in Nat
    BY <1>2 DEF Ledger
  <2> QED
    BY <2>1, <2>2 DEF Ledger
<1> QED
  BY <1>1, <1>2

LEMMA CountDown ==
  ASSUME NEW n \in Nat, n # 0, Ledger(n), Memory!Count(-1), UNCHANGED memoryInitialized
  PROVE  n - 1 \in Nat /\ Ledger(n - 1)'
<1>1. CASE memoryInitialized
  <2>1. balance' = balance - 1 /\ memoryInitialized' /\ (~early' => ~early)
    BY <1>1 DEF Memory!Count
  <2>2. /\ balance \in Int /\ balance <= n /\ (~early => balance = n)
    BY DEF Ledger
  <2>3. /\ balance' \in Int /\ balance' <= n - 1 /\ n - 1 \in Nat
        /\ balance = n => balance' = n - 1
    BY <2>1, <2>2
  <2> QED
    BY <2>1, <2>2, <2>3 DEF Ledger
<1>2. CASE ~memoryInitialized
  <2>1. balance' = balance /\ early'
    BY <1>2 DEF Memory!Count
  <2>2. balance = 0 /\ 0 <= n - 1 /\ n - 1 \in Nat
    BY <1>2 DEF Ledger
  <2> QED
    BY <2>1, <2>2 DEF Ledger
<1> QED
  BY <1>1, <1>2

\* A heap that fits with a ledger that agrees.
LEMMA HeapFits ==
  ASSUME NEW n \in Nat, Ledger(n)',
         Fits(Heap(allocated', loose', memoryRegions', memoryCall', pools'), n)
  PROVE  HeapKept'
BY DEF HeapKept, TheHeap

\* The rest of the invariant after a step of one call that is not about PSRAM.
LEMMA CallStepKeeps ==
  ASSUME MemoryInv, NEW t \in Callers, NEW c, CallShape(c),
         PsramOf(c) = PsramOf(memoryCall[t]),
         memoryCall' = [memoryCall EXCEPT ![t] = c],
         UNCHANGED <<psram, pools, memoryLost>>, RegionsShaped', HeapKept'
  PROVE  MemoryInv'
<1>1. /\ memoryCall' = [u \in Callers |-> memoryCall'[u]]
      /\ memoryCall'[t] = c
      /\ \A u \in Callers \ {t} : memoryCall'[u] = memoryCall[u]
  BY DEF MemoryInv, CallsShaped
<1>2. CallsShaped'
  BY <1>1 DEF MemoryInv, CallsShaped
<1>3. PoolsShaped'
  BY DEF MemoryInv, PoolsShaped
<1>4. \A u \in Callers : PsramOf(memoryCall'[u]) = PsramOf(memoryCall[u])
  BY <1>1
<1>5. PsramIn(memoryCall') = PsramIn(memoryCall)
  BY <1>4 DEF PsramIn
<1>6. PsramKept'
  BY <1>4, <1>5 DEF MemoryInv, PsramKept
<1> QED
  BY <1>2, <1>3, <1>6 DEF MemoryInv

\* What calls, users and regions hold is allocated.
LEMMA HeldAllocated ==
  ASSUME MemoryInv
  PROVE  /\ loose \subseteq allocated
         /\ \A t \in Callers : /\ NewIn(memoryCall[t]) \subseteq allocated
                               /\ BookedIn(memoryCall[t]) \subseteq allocated
         /\ \A r \in memoryRegions : Pair(r) \subseteq allocated
         /\ \A p \in Memory!PoolIds : TheHeap.pool[p] \subseteq allocated
<1>1. PICK n \in Nat : Fits(TheHeap, n)
  BY DEF MemoryInv, HeapKept
<1>2. PICK w : Placed(TheHeap, w)
  BY <1>1 DEF Fits
<1>3. /\ TheHeap.all = allocated /\ TheHeap.loose = loose /\ TheHeap.regions = memoryRegions
      /\ \A t \in Callers : /\ TheHeap.new[t] = NewIn(memoryCall[t])
                            /\ TheHeap.booked[t] = BookedIn(memoryCall[t])
  BY DEF TheHeap, Heap
<1> QED
  BY <1>2, <1>3 DEF Placed, At

\* A step of the call of t, which becomes c: the block x goes from o to q, and is
\* counted when the count is about that.
MoveOf(t, c, x, o, q) ==
  /\ o # q
  /\ \/ o = Nowhere /\ x \notin allocated
     \/ o = Loose /\ x \in loose
     \/ o = NewOf(t) /\ x \in NewIn(memoryCall[t])
     \/ o = BookedOf(t) /\ x \in BookedIn(memoryCall[t])
  /\ q \in {Nowhere, Loose, NewOf(t), BookedOf(t)}
  /\ allocated' = IF q = Nowhere THEN allocated \ {x} ELSE allocated \cup {x}
  /\ loose' = Sub(loose, Loose, {x}, o, q)
  /\ NewIn(c) = Sub(NewIn(memoryCall[t]), NewOf(t), {x}, o, q)
  /\ BookedIn(c) = Sub(BookedIn(memoryCall[t]), BookedOf(t), {x}, o, q)
  /\ \/ (Books(o) <=> Books(q)) /\ UNCHANGED <<balance, early>>
     \/ ~Books(o) /\ Books(q) /\ Memory!Count(1)
     \/ Books(o) /\ ~Books(q) /\ Memory!Count(-1)

LEMMA OneMoveKeeps ==
  ASSUME MemoryInv, NEW t \in Callers, NEW c, NEW x, NEW o, NEW q,
         CallShape(c), PsramOf(c) = PsramOf(memoryCall[t]),
         memoryCall' = [memoryCall EXCEPT ![t] = c],
         UNCHANGED <<memoryInitialized, psram, pools, memoryLost, memoryRegions>>,
         MoveOf(t, c, x, o, q)
  PROVE  MemoryInv'
<1>1. /\ memoryCall'[t] = c
      /\ \A u \in Callers \ {t} : memoryCall'[u] = memoryCall[u]
  BY DEF MemoryInv, CallsShaped
<1>2. CallMove(allocated, allocated', loose, loose', memoryCall, memoryCall', t, x, o, q)
  BY <1>1 DEF CallMove, MoveOf
<1>3. PICK n \in Nat : Fits(TheHeap, n) /\ Ledger(n)
  BY DEF MemoryInv, HeapKept
<1>4. Fits(Heap(allocated, loose, memoryRegions, memoryCall, pools), n)
  BY <1>3 DEF TheHeap
<1>5. /\ Books(o) /\ Books(q) =>
           Fits(Heap(allocated', loose', memoryRegions, memoryCall', pools), n)
      /\ ~Books(o) /\ ~Books(q) =>
           Fits(Heap(allocated', loose', memoryRegions, memoryCall', pools), n)
      /\ ~Books(o) /\ Books(q) =>
           Fits(Heap(allocated', loose', memoryRegions, memoryCall', pools), n + 1)
      /\ Books(o) /\ ~Books(q) => n # 0 /\
           Fits(Heap(allocated', loose', memoryRegions, memoryCall', pools), n - 1)
  <2>1. ASSUME Books(o), Books(q)
        PROVE  Fits(Heap(allocated', loose', memoryRegions, memoryCall', pools), n)
    BY <1>2, <1>4, <2>1, OneCallFits
  <2>2. ASSUME ~Books(o), ~Books(q)
        PROVE  Fits(Heap(allocated', loose', memoryRegions, memoryCall', pools), n)
    BY <1>2, <1>4, <2>2, OneCallFits
  <2>3. ASSUME ~Books(o), Books(q)
        PROVE  Fits(Heap(allocated', loose', memoryRegions, memoryCall', pools), n + 1)
    BY <1>2, <1>4, <2>3, OneCallFits
  <2>4. ASSUME Books(o), ~Books(q)
        PROVE  n # 0 /\ Fits(Heap(allocated', loose', memoryRegions, memoryCall', pools), n - 1)
    BY <1>2, <1>4, <2>4, OneCallFits
  <2> QED
    BY <2>1, <2>2, <2>3, <2>4
<1> DEFINE g == Heap(allocated', loose', memoryRegions, memoryCall', pools)
<1>6. g = Heap(allocated', loose', memoryRegions', memoryCall', pools')
  OBVIOUS
<1> HIDE DEF g
<1>7. HeapKept'
  <2>1. CASE (Books(o) <=> Books(q)) /\ UNCHANGED <<balance, early>>
    <3>1. Fits(g, n)
      BY <1>5, <2>1 DEF g
    <3>2. Ledger(n)'
      BY <1>3, <2>1, LedgerRests
    <3> QED
      BY <1>6, <3>1, <3>2, HeapFits
  <2>2. CASE ~Books(o) /\ Books(q) /\ Memory!Count(1)
    <3>1. Fits(g, n + 1)
      BY <1>5, <2>2 DEF g
    <3>2. n + 1 \in Nat /\ Ledger(n + 1)'
      BY <1>3, <2>2, CountUp
    <3> QED
      BY <1>6, <3>1, <3>2, HeapFits
  <2>3. CASE Books(o) /\ ~Books(q) /\ Memory!Count(-1)
    <3>1. n # 0 /\ Fits(g, n - 1)
      BY <1>5, <2>3 DEF g
    <3>2. n - 1 \in Nat /\ Ledger(n - 1)'
      BY <1>3, <2>3, <3>1, CountDown
    <3> QED
      BY <1>6, <3>1, <3>2, HeapFits
  <2> QED
    BY <2>1, <2>2, <2>3 DEF MoveOf
<1>8. RegionsShaped'
  BY DEF MemoryInv, RegionsShaped
<1> QED
  BY <1>7, <1>8, CallStepKeeps

LEMMA MallocKeeps ==
  ASSUME MemoryInv, NEW t \in Callers, Memory!Malloc(t) \/ Memory!RegionCreate(t)
  PROVE  MemoryInv'
<1>1. PICK b, op :
        /\ op \in {"malloc", "header"}
        /\ b \notin allocated /\ allocated' = allocated \cup {b}
        /\ memoryCall' = [memoryCall EXCEPT ![t] = [op |-> op, blocks |-> <<b>>]]
  BY DEF Memory!Malloc, Memory!RegionCreate, Memory!Take, Memory!Go
<1>2. /\ memoryCall[t].op = "idle"
      /\ UNCHANGED <<memoryInitialized, psram, pools, pool_count, memoryLost, loose,
                     memoryRegions, balance, early>>
  BY DEF Memory!Malloc, Memory!RegionCreate, Memory!At, Memory!poolVars
<1> DEFINE c == [op |-> op, blocks |-> <<b>>]
<1>3. CallShape(c)
  BY <1>1 DEF CallShape
<1>4. NewIn(c) = {b} /\ BookedIn(c) = {} /\ PsramOf(c) = {}
  BY <1>1, Held1
<1>5. memoryCall' = [memoryCall EXCEPT ![t] = c]
  BY <1>1
<1> HIDE DEF c
<1>6. NewIn(memoryCall[t]) = {} /\ BookedIn(memoryCall[t]) = {} /\ PsramOf(memoryCall[t]) = {}
  BY <1>2, ShapeByOp, HeldIdle DEF MemoryInv, CallsShaped
<1>7. /\ NewIn(c) = Sub(NewIn(memoryCall[t]), NewOf(t), {b}, Nowhere, NewOf(t))
      /\ BookedIn(c) = Sub(BookedIn(memoryCall[t]), BookedOf(t), {b}, Nowhere, NewOf(t))
      /\ loose' = Sub(loose, Loose, {b}, Nowhere, NewOf(t))
  BY <1>2, <1>4, <1>6, BooksFacts DEF Sub
<1>8. /\ Nowhere # NewOf(t) /\ ~Books(Nowhere) /\ ~Books(NewOf(t))
      /\ allocated' = IF NewOf(t) = Nowhere THEN allocated \ {b} ELSE allocated \cup {b}
  BY <1>1, BooksFacts
<1>9. MoveOf(t, c, b, Nowhere, NewOf(t))
  BY <1>1, <1>2, <1>7, <1>8, Zenon DEF MoveOf
<1> QED
  BY <1>2, <1>3, <1>4, <1>5, <1>6, <1>9, OneMoveKeeps

LEMMA MallocCountedKeeps ==
  ASSUME MemoryInv, NEW t \in Callers, Memory!MallocCounted(t)
  PROVE  MemoryInv'
<1>1. /\ memoryCall[t].op = "malloc" /\ Memory!Count(1)
      /\ loose' = loose \cup {Head(memoryCall[t].blocks)}
      /\ UNCHANGED <<memoryInitialized, allocated, psram, pools, pool_count, memoryLost,
                     memoryRegions>>
  BY DEF Memory!MallocCounted, Memory!At, Memory!First, Memory!poolVars
<1>2. CallShape(memoryCall[t])
  BY DEF MemoryInv, CallsShaped
<1>3. PICK a, c :
        /\ Head(memoryCall[t].blocks) = a
        /\ memoryCall' = [memoryCall EXCEPT ![t] = c] /\ CallShape(c)
        /\ NewIn(memoryCall[t]) = {a} /\ NewIn(c) = {}
        /\ BookedIn(c) = BookedIn(memoryCall[t])
        /\ PsramOf(c) = PsramOf(memoryCall[t])
  <2>1. CASE \E a : memoryCall[t] = [op |-> "malloc", blocks |-> <<a>>]
    <3>1. PICK a : memoryCall[t] = [op |-> "malloc", blocks |-> <<a>>]
      BY <2>1
    <3>2. Head(memoryCall[t].blocks) = a /\ Tail(memoryCall[t].blocks) = <<>>
      BY <3>1
    <3> DEFINE c == [op |-> "idle", blocks |-> <<>>]
    <3>3. memoryCall' = [memoryCall EXCEPT ![t] = c]
      BY <3>2 DEF Memory!MallocCounted, Memory!Return, Memory!Idle
    <3>4. CallShape(c) /\ NewIn(c) = {} /\ BookedIn(c) = {} /\ PsramOf(c) = {}
      BY HeldIdle DEF CallShape
    <3>5. /\ NewIn(memoryCall[t]) = {a} /\ BookedIn(memoryCall[t]) = {}
          /\ PsramOf(memoryCall[t]) = {}
      BY <3>1, Held1
    <3> QED
      BY <3>2, <3>3, <3>4, <3>5
  <2>2. CASE \E a, b : a # b /\ memoryCall[t] = [op |-> "malloc", blocks |-> <<a, b>>]
    <3>1. PICK a, b : a # b /\ memoryCall[t] = [op |-> "malloc", blocks |-> <<a, b>>]
      BY <2>2
    <3>2. Head(memoryCall[t].blocks) = a /\ Tail(memoryCall[t].blocks) = <<b>> /\ <<b>> # <<>>
      BY <3>1
    <3> DEFINE c == [op |-> "free", blocks |-> <<b>>]
    <3>3. memoryCall' = [memoryCall EXCEPT ![t] = c]
      BY <3>2 DEF Memory!MallocCounted, Memory!Go
    <3>4. CallShape(c)
      BY DEF CallShape
    <3>6. NewIn(c) = {} /\ BookedIn(c) = {b} /\ PsramOf(c) = {}
      BY Held1
    <3>5. /\ NewIn(memoryCall[t]) = {a} /\ BookedIn(memoryCall[t]) = {b}
          /\ PsramOf(memoryCall[t]) = {}
      BY <3>1, Held2
    <3> QED
      BY <3>2, <3>3, <3>4, <3>5, <3>6
  <2>3. \/ \E a : memoryCall[t] = [op |-> memoryCall[t].op, blocks |-> <<a>>]
        \/ \E a, b : a # b /\ memoryCall[t] = [op |-> memoryCall[t].op, blocks |-> <<a, b>>]
    BY <1>1, <1>2, ShapeByOp
  <2> QED
    BY <1>1, <2>1, <2>2, <2>3
<1>4. a \in allocated
  BY <1>3, HeldAllocated
<1>5. /\ NewIn(c) = Sub(NewIn(memoryCall[t]), NewOf(t), {a}, NewOf(t), Loose)
      /\ BookedIn(c) = Sub(BookedIn(memoryCall[t]), BookedOf(t), {a}, NewOf(t), Loose)
      /\ loose' = Sub(loose, Loose, {a}, NewOf(t), Loose)
  BY <1>1, <1>3, BooksFacts DEF Sub
<1>6. /\ Loose # NewOf(t) /\ Books(Loose) /\ ~Books(NewOf(t)) /\ a \in NewIn(memoryCall[t])
      /\ allocated' = IF Loose = Nowhere THEN allocated \ {a} ELSE allocated \cup {a}
  BY <1>1, <1>3, <1>4, BooksFacts
<1>7. MoveOf(t, c, a, NewOf(t), Loose)
  BY <1>1, <1>5, <1>6 DEF MoveOf
<1> QED
  BY <1>1, <1>3, <1>7, OneMoveKeeps


LEMMA FreedKeeps ==
  ASSUME MemoryInv, NEW t \in Callers, Memory!Freed(t)
  PROVE  MemoryInv'
<1>1. /\ memoryCall[t].op = "kfree" /\ allocated' = allocated \ {Head(memoryCall[t].blocks)}
      /\ UNCHANGED <<memoryInitialized, loose, psram, pools, pool_count, memoryLost,
                     memoryRegions, balance, early>>
  BY DEF Memory!Freed, Memory!At, Memory!First, Memory!poolVars
<1>2. CallShape(memoryCall[t])
  BY DEF MemoryInv, CallsShaped
<1>3. PICK a, c :
        /\ Head(memoryCall[t].blocks) = a
        /\ memoryCall' = [memoryCall EXCEPT ![t] = c] /\ CallShape(c)
        /\ NewIn(memoryCall[t]) = {a} /\ NewIn(c) = {}
        /\ BookedIn(c) = BookedIn(memoryCall[t])
        /\ PsramOf(c) = PsramOf(memoryCall[t])
  <2>1. CASE \E a : memoryCall[t] = [op |-> "kfree", blocks |-> <<a>>]
    <3>1. PICK a : memoryCall[t] = [op |-> "kfree", blocks |-> <<a>>]
      BY <2>1
    <3>2. Head(memoryCall[t].blocks) = a /\ Tail(memoryCall[t].blocks) = <<>>
      BY <3>1
    <3> DEFINE c == [op |-> "idle", blocks |-> <<>>]
    <3>3. memoryCall' = [memoryCall EXCEPT ![t] = c]
      BY <3>2 DEF Memory!Freed, Memory!Return, Memory!Idle
    <3>4. CallShape(c) /\ NewIn(c) = {} /\ BookedIn(c) = {} /\ PsramOf(c) = {}
      BY HeldIdle DEF CallShape
    <3>5. /\ NewIn(memoryCall[t]) = {a} /\ BookedIn(memoryCall[t]) = {}
          /\ PsramOf(memoryCall[t]) = {}
      BY <3>1, Held1
    <3> QED
      BY <3>2, <3>3, <3>4, <3>5
  <2>2. CASE \E a, b : a # b /\ memoryCall[t] = [op |-> "kfree", blocks |-> <<a, b>>]
    <3>1. PICK a, b : a # b /\ memoryCall[t] = [op |-> "kfree", blocks |-> <<a, b>>]
      BY <2>2
    <3>2. Head(memoryCall[t].blocks) = a /\ Tail(memoryCall[t].blocks) = <<b>> /\ <<b>> # <<>>
      BY <3>1
    <3> DEFINE c == [op |-> "free", blocks |-> <<b>>]
    <3>3. memoryCall' = [memoryCall EXCEPT ![t] = c]
      BY <3>2 DEF Memory!Freed, Memory!Go
    <3>4. CallShape(c)
      BY DEF CallShape
    <3>5. /\ NewIn(memoryCall[t]) = {a} /\ BookedIn(memoryCall[t]) = {b}
          /\ PsramOf(memoryCall[t]) = {}
      BY <3>1, Held2
    <3>6. NewIn(c) = {} /\ BookedIn(c) = {b} /\ PsramOf(c) = {}
      BY Held1
    <3> QED
      BY <3>2, <3>3, <3>4, <3>5, <3>6
  <2>3. \/ \E a : memoryCall[t] = [op |-> memoryCall[t].op, blocks |-> <<a>>]
        \/ \E a, b : a # b /\ memoryCall[t] = [op |-> memoryCall[t].op, blocks |-> <<a, b>>]
    BY <1>1, <1>2, ShapeByOp
  <2> QED
    BY <1>1, <2>1, <2>2, <2>3
<1>5. /\ NewIn(c) = Sub(NewIn(memoryCall[t]), NewOf(t), {a}, NewOf(t), Nowhere)
      /\ BookedIn(c) = Sub(BookedIn(memoryCall[t]), BookedOf(t), {a}, NewOf(t), Nowhere)
      /\ loose' = Sub(loose, Loose, {a}, NewOf(t), Nowhere)
  BY <1>1, <1>3, BooksFacts DEF Sub
<1>6. /\ Nowhere # NewOf(t) /\ ~Books(Nowhere) /\ ~Books(NewOf(t)) /\ a \in NewIn(memoryCall[t])
      /\ allocated' = IF Nowhere = Nowhere THEN allocated \ {a} ELSE allocated \cup {a}
  BY <1>1, <1>3, BooksFacts
<1>7. MoveOf(t, c, a, NewOf(t), Nowhere)
  BY <1>1, <1>5, <1>6, Zenon DEF MoveOf
<1> QED
  BY <1>1, <1>3, <1>7, OneMoveKeeps

LEMMA FreeCountedKeeps ==
  ASSUME MemoryInv, NEW t \in Callers, Memory!FreeCounted(t)
  PROVE  MemoryInv'
<1>1. /\ memoryCall[t].op = "free" /\ Memory!Count(-1)
      /\ memoryCall' =
           [memoryCall EXCEPT ![t] = [op |-> "kfree", blocks |-> memoryCall[t].blocks]]
      /\ UNCHANGED <<memoryInitialized, allocated, loose, psram, pools, pool_count,
                     memoryLost, memoryRegions>>
  BY DEF Memory!FreeCounted, Memory!At, Memory!Go, Memory!poolVars
<1>2. CallShape(memoryCall[t])
  BY DEF MemoryInv, CallsShaped
<1>3. PICK a, c :
        /\ memoryCall' = [memoryCall EXCEPT ![t] = c] /\ CallShape(c)
        /\ NewIn(memoryCall[t]) = {} /\ NewIn(c) = {a}
        /\ a \in BookedIn(memoryCall[t]) /\ BookedIn(c) = BookedIn(memoryCall[t]) \ {a}
        /\ PsramOf(c) = PsramOf(memoryCall[t])
  <2>1. CASE \E a : memoryCall[t] = [op |-> "free", blocks |-> <<a>>]
    <3>1. PICK a : memoryCall[t] = [op |-> "free", blocks |-> <<a>>]
      BY <2>1
    <3> DEFINE c == [op |-> "kfree", blocks |-> <<a>>]
    <3>2. memoryCall' = [memoryCall EXCEPT ![t] = c]
      BY <1>1, <3>1
    <3>3. CallShape(c)
      BY DEF CallShape
    <3>4. /\ NewIn(memoryCall[t]) = {} /\ BookedIn(memoryCall[t]) = {a}
          /\ PsramOf(memoryCall[t]) = {}
      BY <3>1, Held1
    <3>5. NewIn(c) = {a} /\ BookedIn(c) = {} /\ PsramOf(c) = {}
      BY Held1
    <3> QED
      BY <3>2, <3>3, <3>4, <3>5
  <2>2. CASE \E a, b : a # b /\ memoryCall[t] = [op |-> "free", blocks |-> <<a, b>>]
    <3>1. PICK a, b : a # b /\ memoryCall[t] = [op |-> "free", blocks |-> <<a, b>>]
      BY <2>2
    <3> DEFINE c == [op |-> "kfree", blocks |-> <<a, b>>]
    <3>2. memoryCall' = [memoryCall EXCEPT ![t] = c]
      BY <1>1, <3>1
    <3>3. CallShape(c)
      BY <3>1 DEF CallShape
    <3>4. /\ NewIn(memoryCall[t]) = {} /\ BookedIn(memoryCall[t]) = {a, b}
          /\ PsramOf(memoryCall[t]) = {}
      BY <3>1, Held2
    <3>5. NewIn(c) = {a} /\ BookedIn(c) = {b} /\ PsramOf(c) = {}
      BY Held2
    <3> QED
      BY <3>1, <3>2, <3>3, <3>4, <3>5
  <2>3. \/ \E a : memoryCall[t] = [op |-> memoryCall[t].op, blocks |-> <<a>>]
        \/ \E a, b : a # b /\ memoryCall[t] = [op |-> memoryCall[t].op, blocks |-> <<a, b>>]
    BY <1>1, <1>2, ShapeByOp
  <2> QED
    BY <1>1, <2>1, <2>2, <2>3
<1>4. a \in allocated
  BY <1>3, HeldAllocated
<1>5. /\ NewIn(c) = Sub(NewIn(memoryCall[t]), NewOf(t), {a}, BookedOf(t), NewOf(t))
      /\ BookedIn(c) = Sub(BookedIn(memoryCall[t]), BookedOf(t), {a}, BookedOf(t), NewOf(t))
      /\ loose' = Sub(loose, Loose, {a}, BookedOf(t), NewOf(t))
  BY <1>1, <1>3, BooksFacts DEF Sub
<1>6. /\ BookedOf(t) # NewOf(t) /\ Books(BookedOf(t)) /\ ~Books(NewOf(t))
      /\ a \in BookedIn(memoryCall[t])
      /\ allocated' = IF NewOf(t) = Nowhere THEN allocated \ {a} ELSE allocated \cup {a}
  BY <1>1, <1>3, <1>4, BooksFacts
<1>7. MoveOf(t, c, a, BookedOf(t), NewOf(t))
  BY <1>1, <1>5, <1>6, Zenon DEF MoveOf
<1> QED
  BY <1>1, <1>3, <1>7, OneMoveKeeps

LEMMA FreeKeeps ==
  ASSUME MemoryInv, NEW t \in Callers, NEW b, Memory!Free(t, b)
  PROVE  MemoryInv'
<1> DEFINE c == [op |-> "free", blocks |-> <<b>>]
<1>1. /\ memoryCall[t].op = "idle" /\ b \in loose /\ loose' = loose \ {b}
      /\ memoryCall' = [memoryCall EXCEPT ![t] = c]
      /\ UNCHANGED <<memoryInitialized, allocated, psram, pools, pool_count, memoryLost,
                     memoryRegions, balance, early>>
  BY DEF Memory!Free, Memory!At, Memory!Go, Memory!poolVars
<1>2. CallShape(c)
  BY DEF CallShape
<1>3. NewIn(c) = {} /\ BookedIn(c) = {b} /\ PsramOf(c) = {}
  BY Held1
<1> HIDE DEF c
<1>4. NewIn(memoryCall[t]) = {} /\ BookedIn(memoryCall[t]) = {} /\ PsramOf(memoryCall[t]) = {}
  BY <1>1, ShapeByOp, HeldIdle DEF MemoryInv, CallsShaped
<1>5. b \in allocated
  BY <1>1, HeldAllocated
<1>6. /\ NewIn(c) = Sub(NewIn(memoryCall[t]), NewOf(t), {b}, Loose, BookedOf(t))
      /\ BookedIn(c) = Sub(BookedIn(memoryCall[t]), BookedOf(t), {b}, Loose, BookedOf(t))
      /\ loose' = Sub(loose, Loose, {b}, Loose, BookedOf(t))
  BY <1>1, <1>3, <1>4, BooksFacts DEF Sub
<1>7. /\ Loose # BookedOf(t) /\ Books(Loose) /\ Books(BookedOf(t))
      /\ allocated' = IF BookedOf(t) = Nowhere THEN allocated \ {b} ELSE allocated \cup {b}
  BY <1>1, <1>5, BooksFacts
<1>8. MoveOf(t, c, b, Loose, BookedOf(t))
  BY <1>1, <1>6, <1>7 DEF MoveOf
<1> QED
  BY <1>1, <1>2, <1>3, <1>4, <1>8, OneMoveKeeps

LEMMA HeaderCountedKeeps ==
  ASSUME MemoryInv, NEW t \in Callers, Memory!HeaderCounted(t)
  PROVE  MemoryInv'
<1>1. /\ memoryCall[t].op = "header" /\ Memory!Count(1)
      /\ memoryCall' =
           [memoryCall EXCEPT ![t] = [op |-> "base", blocks |-> memoryCall[t].blocks]]
      /\ UNCHANGED <<memoryInitialized, allocated, loose, psram, pools, pool_count,
                     memoryLost, memoryRegions>>
  BY DEF Memory!HeaderCounted, Memory!At, Memory!Go, Memory!poolVars
<1>2. PICK a : memoryCall[t] = [op |-> "header", blocks |-> <<a>>]
  BY <1>1, ShapeByOp DEF MemoryInv, CallsShaped
<1> DEFINE c == [op |-> "base", blocks |-> <<a>>]
<1>3. memoryCall' = [memoryCall EXCEPT ![t] = c]
  BY <1>1, <1>2
<1>4. CallShape(c)
  BY DEF CallShape
<1>5. NewIn(c) = {} /\ BookedIn(c) = {a} /\ PsramOf(c) = {}
  BY Held1
<1> HIDE DEF c
<1>6. NewIn(memoryCall[t]) = {a} /\ BookedIn(memoryCall[t]) = {} /\ PsramOf(memoryCall[t]) = {}
  BY <1>2, Held1
<1>7. a \in allocated
  BY <1>6, HeldAllocated
<1>8. /\ NewIn(c) = Sub(NewIn(memoryCall[t]), NewOf(t), {a}, NewOf(t), BookedOf(t))
      /\ BookedIn(c) = Sub(BookedIn(memoryCall[t]), BookedOf(t), {a}, NewOf(t), BookedOf(t))
      /\ loose' = Sub(loose, Loose, {a}, NewOf(t), BookedOf(t))
  BY <1>1, <1>5, <1>6, BooksFacts DEF Sub
<1>9. /\ NewOf(t) # BookedOf(t) /\ ~Books(NewOf(t)) /\ Books(BookedOf(t))
      /\ a \in NewIn(memoryCall[t])
      /\ allocated' = IF BookedOf(t) = Nowhere THEN allocated \ {a} ELSE allocated \cup {a}
  BY <1>1, <1>6, <1>7, BooksFacts
<1>10. MoveOf(t, c, a, NewOf(t), BookedOf(t))
  BY <1>1, <1>8, <1>9, Zenon DEF MoveOf
<1> QED
  BY <1>1, <1>3, <1>4, <1>5, <1>6, <1>10, OneMoveKeeps


\* What is in different places is different.
LEMMA HeldApart ==
  ASSUME MemoryInv
  PROVE  /\ \A t \in Callers :
              /\ loose \cap (NewIn(memoryCall[t]) \cup BookedIn(memoryCall[t])) = {}
              /\ \A r \in memoryRegions :
                   Pair(r) \cap (NewIn(memoryCall[t]) \cup BookedIn(memoryCall[t])) = {}
              /\ \A p \in Memory!PoolIds :
                   TheHeap.pool[p] \cap (NewIn(memoryCall[t]) \cup BookedIn(memoryCall[t])) = {}
         /\ \A p \in Memory!PoolIds :
              /\ TheHeap.pool[p] \cap loose = {}
              /\ \A r \in memoryRegions : TheHeap.pool[p] \cap Pair(r) = {}
         /\ \A b \in allocated :
              \/ b \in loose
              \/ \E t \in Callers : b \in NewIn(memoryCall[t]) \/ b \in BookedIn(memoryCall[t])
              \/ \E r \in memoryRegions : b \in Pair(r)
              \/ \E p \in Memory!PoolIds : b \in TheHeap.pool[p]
<1>1. PICK n \in Nat : Fits(TheHeap, n)
  BY DEF MemoryInv, HeapKept
<1>2. PICK w : Placed(TheHeap, w)
  BY <1>1 DEF Fits
<1>3. /\ TheHeap.all = allocated /\ TheHeap.loose = loose /\ TheHeap.regions = memoryRegions
      /\ \A t \in Callers : /\ TheHeap.new[t] = NewIn(memoryCall[t])
                            /\ TheHeap.booked[t] = BookedIn(memoryCall[t])
  BY DEF TheHeap, Heap
<1>4. /\ loose = At(TheHeap, w, Loose)
      /\ \A t \in Callers : /\ NewIn(memoryCall[t]) = At(TheHeap, w, NewOf(t))
                            /\ BookedIn(memoryCall[t]) = At(TheHeap, w, BookedOf(t))
      /\ \A r \in memoryRegions : Pair(r) = At(TheHeap, w, InRegion(r))
      /\ \A p \in Memory!PoolIds : TheHeap.pool[p] = At(TheHeap, w, InPool(p))
  BY <1>2, <1>3 DEF Placed
<1>5. \A o, q : o # q => At(TheHeap, w, o) \cap At(TheHeap, w, q) = {}
  BY DEF At
<1>6. ASSUME NEW t \in Callers
      PROVE  /\ loose \cap (NewIn(memoryCall[t]) \cup BookedIn(memoryCall[t])) = {}
             /\ \A r \in memoryRegions :
                  Pair(r) \cap (NewIn(memoryCall[t]) \cup BookedIn(memoryCall[t])) = {}
             /\ \A p \in Memory!PoolIds :
                  TheHeap.pool[p] \cap (NewIn(memoryCall[t]) \cup BookedIn(memoryCall[t])) = {}
  <2>1. loose \cap (NewIn(memoryCall[t]) \cup BookedIn(memoryCall[t])) = {}
    BY <1>4, <1>5, BooksFacts
  <2>2. ASSUME NEW r \in memoryRegions
        PROVE  Pair(r) \cap (NewIn(memoryCall[t]) \cup BookedIn(memoryCall[t])) = {}
    <3>1. InRegion(r) # NewOf(t) /\ InRegion(r) # BookedOf(t)
      BY BooksFacts
    <3> QED
      BY <1>4, <1>5, <3>1
  <2>3. ASSUME NEW p \in Memory!PoolIds
        PROVE  TheHeap.pool[p] \cap (NewIn(memoryCall[t]) \cup BookedIn(memoryCall[t])) = {}
    <3>1. InPool(p) # NewOf(t) /\ InPool(p) # BookedOf(t)
      BY BooksFacts
    <3> QED
      BY <1>4, <1>5, <3>1
  <2> QED
    BY <2>1, <2>2, <2>3
<1>7. ASSUME NEW p \in Memory!PoolIds
      PROVE  /\ TheHeap.pool[p] \cap loose = {}
             /\ \A r \in memoryRegions : TheHeap.pool[p] \cap Pair(r) = {}
  <2>1. TheHeap.pool[p] \cap loose = {}
    BY <1>4, <1>5, BooksFacts
  <2>2. ASSUME NEW r \in memoryRegions PROVE TheHeap.pool[p] \cap Pair(r) = {}
    <3>1. InRegion(r) # InPool(p)
      BY BooksFacts
    <3> QED
      BY <1>4, <1>5, <3>1
  <2> QED
    BY <2>1, <2>2
<1>8. ASSUME NEW b \in allocated
      PROVE  \/ b \in loose
             \/ \E t \in Callers : b \in NewIn(memoryCall[t]) \/ b \in BookedIn(memoryCall[t])
             \/ \E r \in memoryRegions : b \in Pair(r)
             \/ \E p \in Memory!PoolIds : b \in TheHeap.pool[p]
  <2>1. Valid(TheHeap, w[b])
    BY <1>2, <1>3 DEF Placed
  <2>2. \A q : w[b] = q => b \in At(TheHeap, w, q)
    BY <1>3 DEF At
  <2> QED
    BY <1>3, <1>4, <2>1, <2>2 DEF Valid
<1> QED
  BY <1>6, <1>7, <1>8

\* Reallocation: the old block goes back once the new one is there.
LEMMA ReallocKeeps ==
  ASSUME MemoryInv, NEW t \in Callers, NEW old, Memory!Realloc(t, old)
  PROVE  MemoryInv'
<1>1. PICK b : /\ b \notin allocated /\ allocated' = allocated \cup {b}
               /\ memoryCall' =
                    [memoryCall EXCEPT ![t] = [op |-> "malloc", blocks |-> <<b, old>>]]
  BY DEF Memory!Realloc, Memory!Take, Memory!Go
<1>2. /\ memoryCall[t].op = "idle" /\ old \in loose /\ loose' = loose \ {old}
      /\ UNCHANGED <<memoryInitialized, psram, pools, pool_count, memoryLost,
                     memoryRegions, balance, early>>
  BY DEF Memory!Realloc, Memory!At, Memory!poolVars
<1>3. old \in allocated /\ b # old
  BY <1>1, <1>2, HeldAllocated
<1> DEFINE c == [op |-> "malloc", blocks |-> <<b, old>>]
<1> DEFINE c1 == [op |-> "free", blocks |-> <<old>>]
<1> DEFINE C1 == [memoryCall EXCEPT ![t] = c1]
<1>4. CallShape(c)
  BY <1>3 DEF CallShape
<1>5. NewIn(c) = {b} /\ BookedIn(c) = {old} /\ PsramOf(c) = {}
  BY Held2
<1>6. NewIn(c1) = {} /\ BookedIn(c1) = {old}
  BY Held1
<1>7. /\ memoryCall' = [memoryCall EXCEPT ![t] = c]
      /\ memoryCall'[t] = c /\ C1[t] = c1
      /\ \A u \in Callers \ {t} : memoryCall'[u] = C1[u] /\ C1[u] = memoryCall[u]
  BY <1>1 DEF MemoryInv, CallsShaped
<1> HIDE DEF c, c1, C1
<1>8. NewIn(memoryCall[t]) = {} /\ BookedIn(memoryCall[t]) = {} /\ PsramOf(memoryCall[t]) = {}
  BY <1>2, ShapeByOp, HeldIdle DEF MemoryInv, CallsShaped
<1>9. PICK n \in Nat : Fits(TheHeap, n) /\ Ledger(n)
  BY DEF MemoryInv, HeapKept
<1>10. Fits(Heap(allocated, loose', memoryRegions, C1, pools), n)
  <2>1. Fits(Heap(allocated, loose, memoryRegions, memoryCall, pools), n)
    BY <1>9 DEF TheHeap
  <2>2. /\ NewIn(C1[t]) = Sub(NewIn(memoryCall[t]), NewOf(t), {old}, Loose, BookedOf(t))
        /\ BookedIn(C1[t]) = Sub(BookedIn(memoryCall[t]), BookedOf(t), {old}, Loose, BookedOf(t))
        /\ loose' = Sub(loose, Loose, {old}, Loose, BookedOf(t))
    BY <1>2, <1>6, <1>7, <1>8, BooksFacts DEF Sub
  <2>3. /\ Loose # BookedOf(t) /\ Books(Loose) /\ Books(BookedOf(t))
        /\ allocated = IF BookedOf(t) = Nowhere THEN allocated \ {old} ELSE allocated \cup {old}
    BY <1>3, BooksFacts
  <2>4. CallMove(allocated, allocated, loose, loose', memoryCall, C1, t, old, Loose, BookedOf(t))
    BY <1>2, <1>7, <2>2, <2>3 DEF CallMove
  <2> QED
    BY <2>1, <2>3, <2>4, OneCallFits
<1>11. Fits(Heap(allocated', loose', memoryRegions, memoryCall', pools), n)
  <2>1. /\ NewIn(memoryCall'[t]) = Sub(NewIn(C1[t]), NewOf(t), {b}, Nowhere, NewOf(t))
        /\ BookedIn(memoryCall'[t]) = Sub(BookedIn(C1[t]), BookedOf(t), {b}, Nowhere, NewOf(t))
        /\ loose' = Sub(loose', Loose, {b}, Nowhere, NewOf(t))
    BY <1>5, <1>6, <1>7, BooksFacts DEF Sub
  <2>2. /\ Nowhere # NewOf(t) /\ ~Books(Nowhere) /\ ~Books(NewOf(t))
        /\ allocated' = IF NewOf(t) = Nowhere THEN allocated \ {b} ELSE allocated \cup {b}
    BY <1>1, BooksFacts
  <2>3. CallMove(allocated, allocated', loose', loose', C1, memoryCall', t, b, Nowhere, NewOf(t))
    BY <1>1, <1>7, <2>1, <2>2 DEF CallMove
  <2> QED
    BY <1>10, <2>2, <2>3, OneCallFits
<1>12. HeapKept'
  <2>1. Fits(Heap(allocated', loose', memoryRegions', memoryCall', pools'), n)
    BY <1>2, <1>11
  <2> QED
    BY <1>2, <1>9, <2>1, LedgerRests, HeapFits
<1>13. RegionsShaped'
  BY <1>2 DEF MemoryInv, RegionsShaped
<1> QED
  BY <1>2, <1>4, <1>5, <1>7, <1>8, <1>12, <1>13, CallStepKeeps

\* A second block for a region, or the header on its way back.
LEMMA RegionBaseKeeps ==
  ASSUME MemoryInv, NEW t \in Callers, Memory!RegionBase(t)
  PROVE  MemoryInv'
<1>1. /\ memoryCall[t].op = "base"
      /\ UNCHANGED <<memoryInitialized, loose, psram, pools, pool_count, memoryLost,
                     memoryRegions, balance, early>>
  BY DEF Memory!RegionBase, Memory!At, Memory!poolVars
<1>2. PICK a : memoryCall[t] = [op |-> "base", blocks |-> <<a>>]
  BY <1>1, ShapeByOp DEF MemoryInv, CallsShaped
<1>3. NewIn(memoryCall[t]) = {} /\ BookedIn(memoryCall[t]) = {a} /\ PsramOf(memoryCall[t]) = {}
  BY <1>2, Held1
<1>4. a \in allocated
  BY <1>3, HeldAllocated
<1>5. CASE \E b \in Blocks : Memory!Take(b) /\ Memory!Go(t, "counted", Append(memoryCall[t].blocks, b))
  <2>1. PICK b : /\ b \notin allocated /\ allocated' = allocated \cup {b}
                 /\ memoryCall' = [memoryCall EXCEPT ![t] =
                      [op |-> "counted", blocks |-> Append(memoryCall[t].blocks, b)]]
    BY <1>5 DEF Memory!Take, Memory!Go
  <2> DEFINE c == [op |-> "counted", blocks |-> <<a, b>>]
  <2>2. Append(memoryCall[t].blocks, b) = <<a, b>>
    <3>1. memoryCall[t].blocks = <<a>>
      BY <1>2
    <3>2. Append(<<a>>, b) = <<a, b>>
      <4>1. <<a>> \in Seq({a, b}) /\ b \in {a, b} /\ <<a, b>> \in Seq({a, b})
        OBVIOUS
      <4>2. /\ Append(<<a>>, b) \in Seq({a, b}) /\ Len(Append(<<a>>, b)) = 2
            /\ Append(<<a>>, b)[1] = a /\ Append(<<a>>, b)[2] = b
        BY <4>1
      <4>3. /\ Len(<<a, b>>) = 2 /\ <<a, b>>[1] = a /\ <<a, b>>[2] = b
        OBVIOUS
      <4>4. \A i \in 1 .. 2 : Append(<<a>>, b)[i] = <<a, b>>[i]
        BY <4>2, <4>3
      <4> QED
        BY <4>1, <4>2, <4>3, <4>4, SeqEqual
    <3> QED
      BY <3>1, <3>2
  <2>3. memoryCall' = [memoryCall EXCEPT ![t] = c]
    BY <2>1, <2>2
  <2>4. CallShape(c)
    BY <1>4, <2>1 DEF CallShape
  <2>5. NewIn(c) = {b} /\ BookedIn(c) = {a} /\ PsramOf(c) = {}
    BY Held2
  <2> HIDE DEF c
  <2>6. /\ NewIn(c) = Sub(NewIn(memoryCall[t]), NewOf(t), {b}, Nowhere, NewOf(t))
        /\ BookedIn(c) = Sub(BookedIn(memoryCall[t]), BookedOf(t), {b}, Nowhere, NewOf(t))
        /\ loose' = Sub(loose, Loose, {b}, Nowhere, NewOf(t))
    BY <1>1, <1>3, <2>5, BooksFacts DEF Sub
  <2>7. /\ Nowhere # NewOf(t) /\ ~Books(Nowhere) /\ ~Books(NewOf(t))
        /\ allocated' = IF NewOf(t) = Nowhere THEN allocated \ {b} ELSE allocated \cup {b}
    BY <2>1, BooksFacts
  <2>8. MoveOf(t, c, b, Nowhere, NewOf(t))
    BY <1>1, <2>1, <2>6, <2>7, Zenon DEF MoveOf
  <2> QED
    BY <1>1, <1>3, <2>3, <2>4, <2>5, <2>8, OneMoveKeeps
<1>6. CASE Memory!BaseRefused(t) /\ UNCHANGED allocated
  <2> DEFINE c == [op |-> "free", blocks |-> <<a>>]
  <2>1. memoryCall' = [memoryCall EXCEPT ![t] = c]
    BY <1>2, <1>6 DEF Memory!BaseRefused, Memory!Go
  <2>2. CallShape(c)
    BY DEF CallShape
  <2>3. NewIn(c) = {} /\ BookedIn(c) = {a} /\ PsramOf(c) = {}
    BY Held1
  <2> HIDE DEF c
  <2>4. /\ memoryCall'[t] = c
        /\ \A u \in Callers \ {t} : memoryCall'[u] = memoryCall[u]
    BY <2>1 DEF MemoryInv, CallsShaped
  <2>5. \A u \in Callers : /\ NewIn(memoryCall'[u]) = NewIn(memoryCall[u])
                           /\ BookedIn(memoryCall'[u]) = BookedIn(memoryCall[u])
    BY <1>3, <2>3, <2>4
  <2>6. Heap(allocated, loose, memoryRegions, memoryCall', pools) =
          Heap(allocated, loose, memoryRegions, memoryCall, pools)
    BY <2>5, CallRests
  <2>7. PICK n \in Nat : Fits(TheHeap, n) /\ Ledger(n)
    BY DEF MemoryInv, HeapKept
  <2>8. Fits(Heap(allocated', loose', memoryRegions', memoryCall', pools'), n)
    BY <1>1, <1>6, <2>6, <2>7 DEF TheHeap
  <2>9. HeapKept'
    BY <1>1, <2>7, <2>8, LedgerRests, HeapFits
  <2>10. RegionsShaped'
    BY <1>1 DEF MemoryInv, RegionsShaped
  <2> QED
    BY <1>1, <1>3, <2>1, <2>2, <2>3, <2>9, <2>10, CallStepKeeps
<1> QED
  BY <1>5, <1>6 DEF Memory!RegionBase


\* The two blocks of a region come from one call, and go back to one.
LEMMA BaseCountedKeeps ==
  ASSUME MemoryInv, NEW t \in Callers, Memory!BaseCounted(t)
  PROVE  MemoryInv'
<1> DEFINE c == [op |-> "idle", blocks |-> <<>>]
<1>1. /\ memoryCall[t].op = "counted" /\ Memory!Count(1)
      /\ memoryRegions' = memoryRegions \cup {memoryCall[t].blocks}
      /\ memoryCall' = [memoryCall EXCEPT ![t] = c]
      /\ UNCHANGED <<memoryInitialized, allocated, loose, psram, pools, pool_count,
                     memoryLost>>
  BY DEF Memory!BaseCounted, Memory!At, Memory!Return, Memory!Idle, Memory!poolVars
<1>2. PICK a, b : a # b /\ memoryCall[t] = [op |-> "counted", blocks |-> <<a, b>>]
  BY <1>1, ShapeByOp DEF MemoryInv, CallsShaped
<1> DEFINE r == <<a, b>>
<1> DEFINE c1 == [op |-> "free", blocks |-> <<a, b>>]
<1> DEFINE C1 == [memoryCall EXCEPT ![t] = c1]
<1>3. memoryCall[t].blocks = r /\ Pair(r) = {a, b}
  BY <1>2 DEF Pair
<1>4. CallShape(c) /\ NewIn(c) = {} /\ BookedIn(c) = {} /\ PsramOf(c) = {}
  BY HeldIdle DEF CallShape
<1>5. /\ NewIn(memoryCall[t]) = {b} /\ BookedIn(memoryCall[t]) = {a}
      /\ PsramOf(memoryCall[t]) = {}
  BY <1>2, Held2
<1>6. NewIn(c1) = {} /\ BookedIn(c1) = {a, b}
  BY Held2
<1>7. /\ memoryCall'[t] = c /\ C1[t] = c1
      /\ \A u \in Callers \ {t} : memoryCall'[u] = C1[u] /\ C1[u] = memoryCall[u]
  BY <1>1 DEF MemoryInv, CallsShaped
<1>8. RegionsShaped'
  BY <1>1, <1>2, <1>3 DEF MemoryInv, RegionsShaped
<1> HIDE DEF c, c1, C1, r
<1>9. a \in allocated /\ b \in allocated /\ r \notin memoryRegions
  BY <1>3, <1>5, HeldAllocated, HeldApart
<1>10. PICK n \in Nat : Fits(TheHeap, n) /\ Ledger(n)
  BY DEF MemoryInv, HeapKept
<1> DEFINE h == Heap(allocated, loose, memoryRegions, C1, pools)
<1> DEFINE g == Heap(allocated', loose', memoryRegions', memoryCall', pools')
<1>11. Fits(h, n + 1)
  <2>1. Fits(Heap(allocated, loose, memoryRegions, memoryCall, pools), n)
    BY <1>10 DEF TheHeap
  <2>2. /\ NewIn(C1[t]) = Sub(NewIn(memoryCall[t]), NewOf(t), {b}, NewOf(t), BookedOf(t))
        /\ BookedIn(C1[t]) = Sub(BookedIn(memoryCall[t]), BookedOf(t), {b}, NewOf(t), BookedOf(t))
        /\ loose = Sub(loose, Loose, {b}, NewOf(t), BookedOf(t))
    BY <1>5, <1>6, <1>7, BooksFacts DEF Sub
  <2>3. /\ NewOf(t) # BookedOf(t) /\ ~Books(NewOf(t)) /\ Books(BookedOf(t))
        /\ b \in NewIn(memoryCall[t])
        /\ allocated = IF BookedOf(t) = Nowhere THEN allocated \ {b} ELSE allocated \cup {b}
    BY <1>5, <1>9, BooksFacts
  <2>4. CallMove(allocated, allocated, loose, loose, memoryCall, C1, t, b, NewOf(t), BookedOf(t))
    BY <1>7, <2>2, <2>3 DEF CallMove
  <2> QED
    BY <2>1, <2>3, <2>4, OneCallFits
<1>12. /\ h.all = allocated /\ g.all = allocated /\ h.loose = loose /\ g.loose = loose
       /\ h.regions = memoryRegions /\ g.regions = memoryRegions \cup {r} /\ g.pool = h.pool
       /\ \A u \in Callers :
            /\ h.new[u] = NewIn(C1[u]) /\ h.booked[u] = BookedIn(C1[u])
            /\ g.new[u] = NewIn(memoryCall'[u]) /\ g.booked[u] = BookedIn(memoryCall'[u])
  BY <1>1, <1>3 DEF Heap
<1> HIDE DEF h, g
<1>13. /\ BookedOf(t) # InRegion(r) /\ Books(BookedOf(t)) /\ Books(InRegion(r))
       /\ BookedOf(t)[1] # "region" /\ InRegion(r) # Nowhere /\ InRegion(r) # Loose
       /\ \A u \in Callers : InRegion(r) # NewOf(u) /\ InRegion(r) # BookedOf(u)
       /\ \A p \in Memory!PoolIds : InRegion(r) # InPool(p)
  BY BooksFacts
<1>14. From(h, Pair(r), BookedOf(t))
  BY <1>3, <1>6, <1>7, <1>12 DEF From
<1>15. GainsRegion(h, g, Pair(r), InRegion(r))
  BY <1>9, <1>12 DEF GainsRegion
<1>16. Moved(h, g, Pair(r), BookedOf(t), InRegion(r))
  <2>1. g.all = IF InRegion(r) = Nowhere THEN h.all \ Pair(r) ELSE h.all \cup Pair(r)
    BY <1>3, <1>9, <1>12, <1>13
  <2>2. g.loose = Sub(h.loose, Loose, Pair(r), BookedOf(t), InRegion(r))
    BY <1>12, <1>13, BooksFacts DEF Sub
  <2>3. ASSUME NEW u \in Callers
        PROVE  /\ g.new[u] = Sub(h.new[u], NewOf(u), Pair(r), BookedOf(t), InRegion(r))
               /\ g.booked[u] = Sub(h.booked[u], BookedOf(u), Pair(r), BookedOf(t), InRegion(r))
    <3>1. CASE u = t
      <4>1. NewOf(t) # BookedOf(t) /\ NewOf(t) # InRegion(r) /\ BookedOf(t) # InRegion(r)
        BY <1>13, BooksFacts
      <4>2. Sub(h.new[t], NewOf(t), Pair(r), BookedOf(t), InRegion(r)) = h.new[t]
        BY <4>1 DEF Sub
      <4>3. Sub(h.booked[t], BookedOf(t), Pair(r), BookedOf(t), InRegion(r)) =
              h.booked[t] \ Pair(r)
        BY <4>1 DEF Sub
      <4>4. /\ h.new[t] = {} /\ g.new[t] = {}
            /\ h.booked[t] = {a, b} /\ g.booked[t] = {}
        BY <1>4, <1>6, <1>7, <1>12
      <4> QED
        BY <1>3, <3>1, <4>2, <4>3, <4>4
    <3>2. CASE u # t
      BY <1>7, <1>12, <1>13, <3>2, BooksFacts DEF Sub
    <3> QED
      BY <3>1, <3>2
  <2>4. ASSUME NEW p \in Memory!PoolIds
        PROVE  g.pool[p] = Sub(h.pool[p], InPool(p), Pair(r), BookedOf(t), InRegion(r))
    <3>1. InPool(p) # BookedOf(t) /\ InPool(p) # InRegion(r)
      BY <1>13, BooksFacts
    <3> QED
      BY <1>12, <3>1 DEF Sub
  <2> QED
    BY <2>1, <2>2, <2>3, <2>4 DEF Moved
<1>17. Valid(g, InRegion(r)) /\ Pair(r) \subseteq h.all
  BY <1>3, <1>9, <1>12 DEF Valid
<1>18. Fits(g, n + 1)
  BY <1>11, <1>13, <1>14, <1>15, <1>16, <1>17, PairMoves
<1>19. n + 1 \in Nat /\ Ledger(n + 1)'
  BY <1>1, <1>10, CountUp
<1>20. HeapKept'
  BY <1>18, <1>19, HeapFits DEF g
<1> QED
  BY <1>1, <1>4, <1>5, <1>8, <1>20, CallStepKeeps

LEMMA RegionDestroyKeeps ==
  ASSUME MemoryInv, NEW t \in Callers, NEW r \in memoryRegions, Memory!RegionDestroy(t, r)
  PROVE  MemoryInv'
<1>1. /\ memoryCall[t].op = "idle"
      /\ memoryRegions' = memoryRegions \ {r}
      /\ memoryCall' = [memoryCall EXCEPT ![t] = [op |-> "free", blocks |-> <<r[2], r[1]>>]]
      /\ UNCHANGED <<memoryInitialized, allocated, loose, psram, pools, pool_count,
                     memoryLost, balance, early>>
  BY DEF Memory!RegionDestroy, Memory!At, Memory!Go, Memory!poolVars
<1>2. PICK a, b : a # b /\ r = <<a, b>>
  BY DEF MemoryInv, RegionsShaped
<1>3. r[1] = a /\ r[2] = b /\ Pair(r) = {a, b}
  BY <1>2 DEF Pair
<1> DEFINE c == [op |-> "free", blocks |-> <<b, a>>]
<1>4. memoryCall' = [memoryCall EXCEPT ![t] = c]
  BY <1>1, <1>3
<1>5. CallShape(c)
  BY <1>2 DEF CallShape
<1>6. NewIn(c) = {} /\ BookedIn(c) = {a, b} /\ PsramOf(c) = {}
  BY Held2
<1> HIDE DEF c
<1>7. NewIn(memoryCall[t]) = {} /\ BookedIn(memoryCall[t]) = {} /\ PsramOf(memoryCall[t]) = {}
  BY <1>1, ShapeByOp, HeldIdle DEF MemoryInv, CallsShaped
<1>8. /\ memoryCall'[t] = c
      /\ \A u \in Callers \ {t} : memoryCall'[u] = memoryCall[u]
  BY <1>4 DEF MemoryInv, CallsShaped
<1>9. RegionsShaped'
  BY <1>1 DEF MemoryInv, RegionsShaped
<1>10. a \in allocated /\ b \in allocated
  BY <1>3, HeldAllocated
<1>11. PICK n \in Nat : Fits(TheHeap, n) /\ Ledger(n)
  BY DEF MemoryInv, HeapKept
<1> DEFINE h == Heap(allocated, loose, memoryRegions, memoryCall, pools)
<1> DEFINE g == Heap(allocated', loose', memoryRegions', memoryCall', pools')
<1>12. /\ h.all = allocated /\ g.all = allocated /\ h.loose = loose /\ g.loose = loose
       /\ h.regions = memoryRegions /\ g.regions = memoryRegions \ {r} /\ g.pool = h.pool
       /\ \A u \in Callers :
            /\ h.new[u] = NewIn(memoryCall[u]) /\ h.booked[u] = BookedIn(memoryCall[u])
            /\ g.new[u] = NewIn(memoryCall'[u]) /\ g.booked[u] = BookedIn(memoryCall'[u])
  BY <1>1 DEF Heap
<1>13. Fits(h, n)
  BY <1>11 DEF TheHeap
<1> HIDE DEF h, g
<1>14. /\ InRegion(r) # BookedOf(t) /\ Books(BookedOf(t)) /\ Books(InRegion(r))
       /\ BookedOf(t)[1] # "region" /\ BookedOf(t) # Nowhere /\ BookedOf(t) # Loose
       /\ InRegion(r) # Nowhere /\ InRegion(r) # Loose
       /\ \A u \in Callers : InRegion(r) # NewOf(u) /\ InRegion(r) # BookedOf(u)
       /\ \A p \in Memory!PoolIds : InRegion(r) # InPool(p)
  BY BooksFacts
<1>15. From(h, Pair(r), InRegion(r))
  BY <1>12 DEF From
<1>16. LosesRegion(h, g, InRegion(r))
  BY <1>12 DEF LosesRegion
<1>17. Moved(h, g, Pair(r), InRegion(r), BookedOf(t))
  <2>1. g.all = IF BookedOf(t) = Nowhere THEN h.all \ Pair(r) ELSE h.all \cup Pair(r)
    BY <1>3, <1>10, <1>12, <1>14
  <2>2. g.loose = Sub(h.loose, Loose, Pair(r), InRegion(r), BookedOf(t))
    BY <1>12, <1>14, BooksFacts DEF Sub
  <2>3. ASSUME NEW u \in Callers
        PROVE  /\ g.new[u] = Sub(h.new[u], NewOf(u), Pair(r), InRegion(r), BookedOf(t))
               /\ g.booked[u] = Sub(h.booked[u], BookedOf(u), Pair(r), InRegion(r), BookedOf(t))
    <3>1. CASE u = t
      <4>1. NewOf(t) # BookedOf(t) /\ NewOf(t) # InRegion(r) /\ BookedOf(t) # InRegion(r)
        BY <1>14, BooksFacts
      <4>2. Sub(h.new[t], NewOf(t), Pair(r), InRegion(r), BookedOf(t)) = h.new[t]
        BY <4>1 DEF Sub
      <4>3. Sub(h.booked[t], BookedOf(t), Pair(r), InRegion(r), BookedOf(t)) =
              h.booked[t] \cup Pair(r)
        BY DEF Sub
      <4>4. /\ h.new[t] = {} /\ g.new[t] = {}
            /\ h.booked[t] = {} /\ g.booked[t] = {a, b}
        BY <1>6, <1>7, <1>8, <1>12
      <4> QED
        BY <1>3, <3>1, <4>2, <4>3, <4>4
    <3>2. CASE u # t
      BY <1>8, <1>12, <1>14, <3>2, BooksFacts DEF Sub
    <3> QED
      BY <3>1, <3>2
  <2>4. ASSUME NEW p \in Memory!PoolIds
        PROVE  g.pool[p] = Sub(h.pool[p], InPool(p), Pair(r), InRegion(r), BookedOf(t))
    <3>1. InPool(p) # BookedOf(t) /\ InPool(p) # InRegion(r)
      BY <1>14, BooksFacts
    <3> QED
      BY <1>12, <3>1 DEF Sub
  <2> QED
    BY <2>1, <2>2, <2>3, <2>4 DEF Moved
<1>18. Valid(g, BookedOf(t)) /\ Pair(r) \subseteq h.all
  BY <1>3, <1>10, <1>12 DEF Valid
<1>19. Fits(g, n)
  BY <1>13, <1>14, <1>15, <1>16, <1>17, <1>18, PairMoves
<1>20. Ledger(n)'
  BY <1>1, <1>11, LedgerRests
<1>21. HeapKept'
  BY <1>19, <1>20, HeapFits DEF g
<1> QED
  BY <1>1, <1>4, <1>5, <1>6, <1>7, <1>9, <1>21, CallStepKeeps


\* A step that moves no block of the heap and counts none.
LEMMA HeapRests ==
  ASSUME MemoryInv, UNCHANGED <<allocated, loose, memoryRegions, balance, early>>,
         memoryInitialized => memoryInitialized',
         \A u \in Callers : /\ NewIn(memoryCall'[u]) = NewIn(memoryCall[u])
                            /\ BookedIn(memoryCall'[u]) = BookedIn(memoryCall[u]),
         \A p \in Memory!PoolIds : Under(pools'[p]) = Under(pools[p])
  PROVE  HeapKept'
<1>1. PICK n \in Nat : Fits(TheHeap, n) /\ Ledger(n)
  BY DEF MemoryInv, HeapKept
<1>2. /\ [u \in Callers |-> NewIn(memoryCall'[u])] = [u \in Callers |-> NewIn(memoryCall[u])]
      /\ [u \in Callers |-> BookedIn(memoryCall'[u])] = [u \in Callers |-> BookedIn(memoryCall[u])]
      /\ [p \in Memory!PoolIds |-> Under(pools'[p])] = [p \in Memory!PoolIds |-> Under(pools[p])]
  OBVIOUS
<1>3. Heap(allocated', loose', memoryRegions', memoryCall', pools') = TheHeap
  BY <1>2 DEF TheHeap, Heap
<1>4. Ledger(n)'
  BY <1>1 DEF Ledger
<1> QED
  BY <1>1, <1>3, <1>4, HeapFits

LEMMA MemoryInitKeeps ==
  ASSUME MemoryInv, Memory!MemoryInit
  PROVE  MemoryInv'
<1>1. /\ ~memoryInitialized
      /\ UNCHANGED <<allocated, psram, pools, pool_count, memoryLost, loose, memoryRegions,
                     balance, memoryCall, early>>
  BY DEF Memory!MemoryInit, Memory!poolVars
<1>2. HeapKept'
  BY <1>1, HeapRests
<1> QED
  BY <1>1, <1>2 DEF MemoryInv, CallsShaped, RegionsShaped, PoolsShaped, PsramKept

\* PSRAM for a pool, before the pool is there.
LEMMA PsramPoolCreateKeeps ==
  ASSUME MemoryInv, NEW t \in Callers, Memory!PsramPoolCreate(t)
  PROVE  MemoryInv'
<1>1. PICK b \in PsramBlocks \ psram :
        /\ psram' = psram \cup {b}
        /\ memoryCall' = [memoryCall EXCEPT ![t] = [op |-> "psram", blocks |-> <<b>>]]
  BY DEF Memory!PsramPoolCreate, Memory!Go
<1>2. /\ memoryCall[t].op = "idle"
      /\ UNCHANGED <<memoryInitialized, allocated, loose, memoryRegions, pools, pool_count,
                     balance, early, memoryLost>>
  BY DEF Memory!PsramPoolCreate, Memory!At
<1> DEFINE c == [op |-> "psram", blocks |-> <<b>>]
<1>3. CallShape(c)
  BY DEF CallShape
<1>4. NewIn(c) = {} /\ BookedIn(c) = {} /\ PsramOf(c) = {b}
  BY Held1
<1>5. /\ memoryCall' = [u \in Callers |-> memoryCall'[u]] /\ memoryCall'[t] = c
      /\ \A u \in Callers \ {t} : memoryCall'[u] = memoryCall[u]
  BY <1>1 DEF MemoryInv, CallsShaped
<1> HIDE DEF c
<1>6. NewIn(memoryCall[t]) = {} /\ BookedIn(memoryCall[t]) = {} /\ PsramOf(memoryCall[t]) = {}
  BY <1>2, ShapeByOp, HeldIdle DEF MemoryInv, CallsShaped
<1>7. \A u \in Callers : /\ NewIn(memoryCall'[u]) = NewIn(memoryCall[u])
                         /\ BookedIn(memoryCall'[u]) = BookedIn(memoryCall[u])
  BY <1>4, <1>5, <1>6
<1>8. HeapKept'
  BY <1>2, <1>7, HeapRests
<1>9. CallsShaped'
  BY <1>3, <1>5 DEF MemoryInv, CallsShaped
<1>10. PsramKept'
  <2>1. b \notin memoryLost \cup Lent(pools) /\ \A u \in Callers : b \notin PsramOf(memoryCall[u])
    BY <1>1 DEF MemoryInv, PsramKept, PsramIn
  <2>2. PsramIn(memoryCall') = PsramIn(memoryCall) \cup {b}
    BY <1>4, <1>5, <1>6 DEF PsramIn
  <2>3. psram' = PsramIn(memoryCall') \cup memoryLost \cup Lent(pools)
    BY <1>1, <2>2 DEF MemoryInv, PsramKept
  <2>4. \A u \in Callers : PsramOf(memoryCall'[u]) \cap (memoryLost \cup Lent(pools)) = {}
    BY <1>4, <1>5, <2>1 DEF MemoryInv, PsramKept
  <2>5. \A u, v \in Callers : u # v => PsramOf(memoryCall'[u]) \cap PsramOf(memoryCall'[v]) = {}
    BY <1>4, <1>5, <2>1 DEF MemoryInv, PsramKept
  <2>6. psram' \subseteq PsramBlocks
    BY <1>1 DEF MemoryInv, PsramKept
  <2> QED
    BY <1>2, <2>3, <2>4, <2>5, <2>6 DEF PsramKept
<1> QED
  BY <1>2, <1>8, <1>9, <1>10 DEF MemoryInv, RegionsShaped, PoolsShaped

\* What NewPool writes.
LEMMA PoolMade ==
  ASSUME PoolsShaped, NEW p \in Memory!PoolIds, ~pools[p].live,
         NEW kind \in {"FIXED", "VARIABLE"}, NEW owns \in BOOLEAN,
         NEW b \in Blocks \cup PsramBlocks, Memory!NewPool(p, kind, owns, b)
  PROVE  /\ PoolsShaped'
         /\ Under(pools[p]) = {} /\ Under(pools'[p]) = IF owns THEN {b} ELSE {}
         /\ \A q \in Memory!PoolIds \ {p} : pools'[q] = pools[q]
         /\ Lent(pools') = IF owns THEN Lent(pools) ELSE Lent(pools) \cup {b}
<1> DEFINE r1 == [Memory!NoPool EXCEPT !.live = TRUE]
<1> DEFINE r2 == [r1 EXCEPT !.kind = kind]
<1> DEFINE r3 == [r2 EXCEPT !.owns = owns]
<1> DEFINE r == [r3 EXCEPT !.buffer = b]
<1>1. pools' = [pools EXCEPT ![p] = r]
  BY DEF Memory!NewPool
<1>2. r \in PoolRecords /\ r.live /\ r.owns = owns /\ r.buffer = b /\ r.used = r.out
  <2>1. Memory!NoPool \in PoolRecords /\ Memory!NoPool.used = 0 /\ Memory!NoPool.out = 0
    BY DEF Memory!NoPool, PoolRecords
  <2>2. r1 \in PoolRecords /\ r1.live /\ r1.used = 0 /\ r1.out = 0
    BY <2>1 DEF PoolRecords
  <2> HIDE DEF r1
  <2>3. r2 \in PoolRecords /\ r2.live /\ r2.used = 0 /\ r2.out = 0
    BY <2>2 DEF PoolRecords
  <2> HIDE DEF r2
  <2>4. r3 \in PoolRecords /\ r3.live /\ r3.owns = owns /\ r3.used = 0 /\ r3.out = 0
    BY <2>3 DEF PoolRecords
  <2> HIDE DEF r3
  <2> QED
    BY <2>4 DEF PoolRecords
<1> HIDE DEF r
<1>3. pools'[p] = r /\ \A q \in Memory!PoolIds \ {p} : pools'[q] = pools[q]
  BY <1>1 DEF PoolsShaped
<1>4. PoolsShaped'
  BY <1>1, <1>2, <1>3 DEF PoolsShaped
<1>5. Under(pools[p]) = {} /\ Under(pools'[p]) = IF owns THEN {b} ELSE {}
  BY <1>2, <1>3 DEF Under
<1>6. Lent(pools') = IF owns THEN Lent(pools) ELSE Lent(pools) \cup {b}
  <2>1. CASE owns
    <3>1. pools'[p].owns
      BY <1>2, <1>3, <2>1
    <3>2. {q \in Memory!PoolIds : pools'[q].live /\ ~pools'[q].owns} =
            {q \in Memory!PoolIds : pools[q].live /\ ~pools[q].owns}
      BY <1>3, <3>1
    <3>3. \A q \in Memory!PoolIds :
            pools[q].live /\ ~pools[q].owns => pools'[q].buffer = pools[q].buffer
      BY <1>3
    <3> QED
      BY <2>1, <3>2, <3>3 DEF Lent
  <2>2. CASE ~owns
    BY <1>2, <1>3, <2>2 DEF Lent
  <2> QED
    BY <2>1, <2>2
<1> QED
  BY <1>3, <1>4, <1>5, <1>6

LEMMA PsramPoolMadeKeeps ==
  ASSUME MemoryInv, NEW t \in Callers, Memory!PsramPoolMade(t)
  PROVE  MemoryInv'
<1> DEFINE c == [op |-> "idle", blocks |-> <<>>]
<1>1. /\ memoryCall[t].op = "psram" /\ memoryCall' = [memoryCall EXCEPT ![t] = c]
      /\ UNCHANGED <<memoryInitialized, allocated, loose, memoryRegions, balance, early,
                     memoryLost>>
  BY DEF Memory!PsramPoolMade, Memory!At, Memory!Return, Memory!Idle
<1>2. PICK b : memoryCall[t] = [op |-> "psram", blocks |-> <<b>>]
  BY <1>1, ShapeByOp DEF MemoryInv, CallsShaped
<1>3. Head(memoryCall[t].blocks) = b
  BY <1>2
<1>4. CallShape(c) /\ NewIn(c) = {} /\ BookedIn(c) = {} /\ PsramOf(c) = {}
  BY HeldIdle DEF CallShape
<1>5. /\ memoryCall' = [u \in Callers |-> memoryCall'[u]] /\ memoryCall'[t] = c
      /\ \A u \in Callers \ {t} : memoryCall'[u] = memoryCall[u]
  BY <1>1 DEF MemoryInv, CallsShaped
<1> HIDE DEF c
<1>6. NewIn(memoryCall[t]) = {} /\ BookedIn(memoryCall[t]) = {} /\ PsramOf(memoryCall[t]) = {b}
  BY <1>2, Held1
<1>7. \A u \in Callers : /\ NewIn(memoryCall'[u]) = NewIn(memoryCall[u])
                         /\ BookedIn(memoryCall'[u]) = BookedIn(memoryCall[u])
  BY <1>4, <1>5, <1>6
<1>8. CallsShaped'
  BY <1>4, <1>5 DEF MemoryInv, CallsShaped
<1>9. RegionsShaped'
  BY <1>1 DEF MemoryInv, RegionsShaped
<1>10. /\ b \in psram /\ b \in PsramBlocks /\ b \notin memoryLost \cup Lent(pools)
       /\ \A u \in Callers \ {t} : b \notin PsramOf(memoryCall[u])
  BY <1>6 DEF MemoryInv, PsramKept, PsramIn
<1>11. PsramIn(memoryCall) = PsramIn(memoryCall') \cup {b} /\ b \notin PsramIn(memoryCall')
  BY <1>4, <1>5, <1>6, <1>10 DEF PsramIn
<1>12. \A u, v \in Callers : u # v => PsramOf(memoryCall'[u]) \cap PsramOf(memoryCall'[v]) = {}
  BY <1>4, <1>5 DEF MemoryInv, PsramKept
<1>13. CASE \E p \in Memory!PoolIds \ Memory!Live :
              UNCHANGED psram /\ Memory!NewPool(p, "VARIABLE", FALSE, b)
  <2>1. PICK p \in Memory!PoolIds \ Memory!Live :
          UNCHANGED psram /\ Memory!NewPool(p, "VARIABLE", FALSE, b)
    BY <1>13
  <2>2. ~pools[p].live /\ PoolsShaped
    BY DEF Memory!Live, MemoryInv
  <2>3. /\ PoolsShaped' /\ Under(pools[p]) = {} /\ Under(pools'[p]) = {}
        /\ \A q \in Memory!PoolIds \ {p} : pools'[q] = pools[q]
        /\ Lent(pools') = Lent(pools) \cup {b}
    BY <1>10, <2>1, <2>2, PoolMade
  <2>4. HeapKept'
    BY <1>1, <1>7, <2>3, HeapRests
  <2>5. PsramKept'
    <3>1. psram = PsramIn(memoryCall') \cup memoryLost \cup Lent(pools')
      BY <1>11, <2>3 DEF MemoryInv, PsramKept
    <3>2. \A u \in Callers : PsramOf(memoryCall'[u]) \cap (memoryLost \cup Lent(pools')) = {}
      BY <1>4, <1>5, <1>10, <2>3 DEF MemoryInv, PsramKept
    <3> QED
      BY <1>1, <1>12, <2>1, <3>1, <3>2 DEF PsramKept, MemoryInv
  <2> QED
    BY <1>8, <1>9, <2>3, <2>4, <2>5 DEF MemoryInv
<1>14. CASE psram' = psram \ {b} /\ UNCHANGED pools
  <2>1. HeapKept'
    BY <1>1, <1>7, <1>14, HeapRests
  <2>2. PoolsShaped'
    BY <1>14 DEF MemoryInv, PoolsShaped
  <2>3. PsramKept'
    <3>1. psram' = PsramIn(memoryCall') \cup memoryLost \cup Lent(pools)
      BY <1>10, <1>11, <1>14 DEF MemoryInv, PsramKept
    <3>2. \A u \in Callers : PsramOf(memoryCall'[u]) \cap (memoryLost \cup Lent(pools)) = {}
      BY <1>4, <1>5 DEF MemoryInv, PsramKept
    <3> QED
      BY <1>1, <1>12, <1>14, <3>1, <3>2 DEF PsramKept, MemoryInv
  <2> QED
    BY <1>8, <1>9, <2>1, <2>2, <2>3 DEF MemoryInv
<1> QED
  BY <1>3, <1>13, <1>14 DEF Memory!PsramPoolMade, Memory!First


LEMMA PoolCreateKeeps ==
  ASSUME MemoryInv, NEW t \in Callers, NEW kind \in {"FIXED", "VARIABLE"},
         Memory!PoolCreate(t, kind)
  PROVE  MemoryInv'
<1>1. PICK p \in Memory!PoolIds \ Memory!Live, b \in Blocks :
        /\ b \notin allocated /\ allocated' = allocated \cup {b}
        /\ Memory!NewPool(p, kind, TRUE, b)
  BY DEF Memory!PoolCreate, Memory!Take
<1>2. UNCHANGED <<memoryInitialized, psram, loose, memoryRegions, balance, memoryCall,
                  early, memoryLost>>
  BY DEF Memory!PoolCreate
<1>3. ~pools[p].live /\ PoolsShaped
  BY DEF Memory!Live, MemoryInv
<1>4. /\ PoolsShaped' /\ Under(pools[p]) = {} /\ Under(pools'[p]) = {b}
      /\ \A q \in Memory!PoolIds \ {p} : pools'[q] = pools[q]
      /\ Lent(pools') = Lent(pools)
  BY <1>1, <1>3, PoolMade
<1>5. PICK n \in Nat : Fits(TheHeap, n) /\ Ledger(n)
  BY DEF MemoryInv, HeapKept
<1> DEFINE h == Heap(allocated, loose, memoryRegions, memoryCall, pools)
<1> DEFINE g == Heap(allocated', loose', memoryRegions', memoryCall', pools')
<1>6. /\ h.all = allocated /\ g.all = allocated \cup {b}
      /\ h.loose = g.loose /\ h.regions = g.regions /\ h.new = g.new /\ h.booked = g.booked
      /\ \A q \in Memory!PoolIds : h.pool[q] = Under(pools[q]) /\ g.pool[q] = Under(pools'[q])
  BY <1>1, <1>2 DEF Heap
<1>7. Fits(h, n)
  BY <1>5 DEF TheHeap
<1> HIDE DEF h, g
<1>8. From(h, {b}, Nowhere)
  BY <1>1, <1>6 DEF From
<1>9. /\ InPool(p) # Nowhere /\ InPool(p) # Loose /\ InPool(p)[1] # "region"
      /\ Nowhere[1] # "region" /\ ~Books(Nowhere) /\ ~Books(InPool(p))
      /\ \A u \in Callers : /\ NewOf(u) # Nowhere /\ NewOf(u) # InPool(p)
                            /\ BookedOf(u) # Nowhere /\ BookedOf(u) # InPool(p)
      /\ Loose # Nowhere
  BY BooksFacts
<1>10. Moved(h, g, {b}, Nowhere, InPool(p))
  <2>1. /\ g.all = IF InPool(p) = Nowhere THEN h.all \ {b} ELSE h.all \cup {b}
        /\ g.loose = Sub(h.loose, Loose, {b}, Nowhere, InPool(p))
    BY <1>6, <1>9 DEF Sub
  <2>2. ASSUME NEW u \in Callers
        PROVE  /\ g.new[u] = Sub(h.new[u], NewOf(u), {b}, Nowhere, InPool(p))
               /\ g.booked[u] = Sub(h.booked[u], BookedOf(u), {b}, Nowhere, InPool(p))
    BY <1>6, <1>9 DEF Sub
  <2>3. ASSUME NEW q \in Memory!PoolIds
        PROVE  g.pool[q] = Sub(h.pool[q], InPool(q), {b}, Nowhere, InPool(p))
    <3>1. CASE q = p
      BY <1>4, <1>6, <3>1 DEF Sub
    <3>2. CASE q # p
      <4>1. InPool(q) # Nowhere /\ InPool(q) # InPool(p)
        BY <3>2, BooksFacts
      <4> QED
        BY <1>4, <1>6, <3>2, <4>1 DEF Sub
    <3> QED
      BY <3>1, <3>2
  <2> QED
    BY <2>1, <2>2, <2>3 DEF Moved
<1>11. Valid(g, InPool(p))
  BY DEF Valid
<1>12. Fits(g, n)
  BY <1>6, <1>7, <1>8, <1>9, <1>10, <1>11, OneMoves
<1>13. HeapKept'
  <2>1. Ledger(n)'
    BY <1>2, <1>5, LedgerRests
  <2> QED
    BY <1>12, <2>1, HeapFits DEF g
<1>14. PsramKept' /\ CallsShaped' /\ RegionsShaped'
  BY <1>2, <1>4 DEF MemoryInv, PsramKept, CallsShaped, RegionsShaped
<1> QED
  BY <1>4, <1>13, <1>14 DEF MemoryInv

LEMMA PoolDestroyKeeps ==
  ASSUME MemoryInv, NEW t \in Callers, NEW p \in Memory!PoolIds, Memory!PoolDestroy(t, p)
  PROVE  MemoryInv'
<1>1. /\ pools[p].live /\ pools' = [pools EXCEPT ![p] = Memory!NoPool]
      /\ UNCHANGED <<memoryInitialized, psram, loose, memoryRegions, balance, memoryCall,
                     early>>
  BY DEF Memory!PoolDestroy, Memory!Live
<1>2. /\ Memory!NoPool \in PoolRecords /\ ~Memory!NoPool.live
      /\ Memory!NoPool.used = Memory!NoPool.out
  BY DEF Memory!NoPool, PoolRecords
<1>3. /\ pools'[p] = Memory!NoPool
      /\ \A q \in Memory!PoolIds \ {p} : pools'[q] = pools[q]
  BY <1>1 DEF MemoryInv, PoolsShaped
<1>4. PoolsShaped'
  BY <1>1, <1>2, <1>3 DEF MemoryInv, PoolsShaped
<1>5. Under(pools'[p]) = {} /\ Lent(pools') \subseteq Lent(pools)
  BY <1>2, <1>3 DEF Under, Lent
<1>6. CallsShaped' /\ RegionsShaped'
  BY <1>1 DEF MemoryInv, CallsShaped, RegionsShaped
<1>7. CASE pools[p].owns
  <2>1. allocated' = allocated \ {pools[p].buffer} /\ memoryLost' = memoryLost
    BY <1>7 DEF Memory!PoolDestroy, Memory!OwnBuffer
  <2>2. Under(pools[p]) = {pools[p].buffer}
    BY <1>1, <1>7 DEF Under
  <2>3. Lent(pools') = Lent(pools)
    BY <1>2, <1>3, <1>7 DEF Lent
  <2>4. PICK n \in Nat : Fits(TheHeap, n) /\ Ledger(n)
    BY DEF MemoryInv, HeapKept
  <2> DEFINE b == pools[p].buffer
  <2> DEFINE h == Heap(allocated, loose, memoryRegions, memoryCall, pools)
  <2> DEFINE g == Heap(allocated', loose', memoryRegions', memoryCall', pools')
  <2>5. /\ h.all = allocated /\ g.all = allocated \ {b}
        /\ h.loose = g.loose /\ h.regions = g.regions /\ h.new = g.new /\ h.booked = g.booked
        /\ \A q \in Memory!PoolIds : h.pool[q] = Under(pools[q]) /\ g.pool[q] = Under(pools'[q])
    BY <1>1, <2>1 DEF Heap
  <2>6. Fits(h, n)
    BY <2>4 DEF TheHeap
  <2> HIDE DEF h, g, b
  <2>7. Under(pools[p]) = {b}
    BY <2>2 DEF b
  <2>8. From(h, {b}, InPool(p))
    BY <2>5, <2>7 DEF From
  <2>9. /\ InPool(p) # Nowhere /\ InPool(p) # Loose /\ InPool(p)[1] # "region"
        /\ Nowhere[1] # "region" /\ ~Books(Nowhere) /\ ~Books(InPool(p))
        /\ \A u \in Callers : /\ NewOf(u) # Nowhere /\ NewOf(u) # InPool(p)
                              /\ BookedOf(u) # Nowhere /\ BookedOf(u) # InPool(p)
        /\ Loose # Nowhere
    BY BooksFacts
  <2>10. Moved(h, g, {b}, InPool(p), Nowhere)
    <3>1. /\ g.all = IF Nowhere = Nowhere THEN h.all \ {b} ELSE h.all \cup {b}
          /\ g.loose = Sub(h.loose, Loose, {b}, InPool(p), Nowhere)
      BY <2>5, <2>9 DEF Sub
    <3>2. ASSUME NEW u \in Callers
          PROVE  /\ g.new[u] = Sub(h.new[u], NewOf(u), {b}, InPool(p), Nowhere)
                 /\ g.booked[u] = Sub(h.booked[u], BookedOf(u), {b}, InPool(p), Nowhere)
      BY <2>5, <2>9 DEF Sub
    <3>3. ASSUME NEW q \in Memory!PoolIds
          PROVE  g.pool[q] = Sub(h.pool[q], InPool(q), {b}, InPool(p), Nowhere)
      <4>1. CASE q = p
        BY <1>5, <2>5, <2>7, <2>9, <4>1 DEF Sub
      <4>2. CASE q # p
        <5>1. InPool(q) # Nowhere /\ InPool(q) # InPool(p)
          BY <4>2, BooksFacts
        <5> QED
          BY <1>3, <2>5, <4>2, <5>1 DEF Sub
      <4> QED
        BY <4>1, <4>2
    <3> QED
      BY <3>1, <3>2, <3>3 DEF Moved
  <2>11. Fits(g, n)
    BY <2>5, <2>6, <2>8, <2>9, <2>10, OneMoves
  <2>12. HeapKept'
    <3>1. Ledger(n)'
      BY <1>1, <2>4, LedgerRests
    <3> QED
      BY <2>4, <2>11, <3>1, HeapFits DEF g
  <2>13. PsramKept'
    BY <1>1, <2>1, <2>3 DEF MemoryInv, PsramKept
  <2> QED
    BY <1>4, <1>6, <2>12, <2>13 DEF MemoryInv
<1>8. CASE ~pools[p].owns
  <2>1. /\ allocated' = allocated
        /\ memoryLost' = memoryLost \cup {pools[p].buffer}
    BY <1>8 DEF Memory!PoolDestroy, Memory!OwnBuffer
  <2>2. Under(pools[p]) = {}
    BY <1>8 DEF Under
  <2>3. HeapKept'
    BY <1>1, <1>3, <1>5, <2>1, <2>2, HeapRests
  <2>4. memoryLost' \cup Lent(pools') = memoryLost \cup Lent(pools)
    <3>1. Lent(pools) = Lent(pools') \cup {pools[p].buffer}
      BY <1>1, <1>2, <1>3, <1>8 DEF Lent
    <3> QED
      BY <2>1, <3>1
  <2>5. PsramKept'
    BY <1>1, <2>4 DEF MemoryInv, PsramKept
  <2> QED
    BY <1>4, <1>6, <2>3, <2>5 DEF MemoryInv
<1> QED
  BY <1>7, <1>8

\* Users of a pool change its counts only.
LEMMA PoolCounts ==
  ASSUME MemoryInv, NEW p \in Memory!PoolIds, NEW x \in Int, NEW y \in Int,
         pools[p].live /\ pools[p].kind = "FIXED" => x = y,
         pools' = [pools EXCEPT ![p].out = x, ![p].used = y],
         UNCHANGED <<memoryInitialized, allocated, psram, loose, memoryRegions, balance,
                     memoryCall, early, memoryLost>>
  PROVE  MemoryInv'
<1> DEFINE f == [pools EXCEPT ![p].out = x]
<1>1. /\ f \in [Memory!PoolIds -> PoolRecords] /\ f[p].out = x
      /\ \A q \in Memory!PoolIds : /\ f[q].live = pools[q].live /\ f[q].kind = pools[q].kind
                                   /\ f[q].owns = pools[q].owns
                                   /\ f[q].buffer = pools[q].buffer
                                   /\ f[q].used = pools[q].used
                                   /\ q # p => f[q] = pools[q]
  BY DEF MemoryInv, PoolsShaped, PoolRecords
<1>2. pools' = [f EXCEPT ![p].used = y]
  BY DEF MemoryInv, PoolsShaped, PoolRecords
<1> HIDE DEF f
<1>3. /\ pools' \in [Memory!PoolIds -> PoolRecords] /\ pools'[p].out = x /\ pools'[p].used = y
      /\ \A q \in Memory!PoolIds :
           /\ pools'[q].live = pools[q].live /\ pools'[q].kind = pools[q].kind
           /\ pools'[q].owns = pools[q].owns /\ pools'[q].buffer = pools[q].buffer
           /\ q # p => pools'[q] = pools[q]
  <2>1. [f[p] EXCEPT !.used = y] \in PoolRecords
    BY <1>1 DEF PoolRecords
  <2> DEFINE r == [f[p] EXCEPT !.used = y]
  <2>2. /\ r.out = x /\ r.used = y /\ r.live = f[p].live /\ r.kind = f[p].kind
        /\ r.owns = f[p].owns /\ r.buffer = f[p].buffer
    BY <1>1 DEF PoolRecords
  <2>3. pools' = [f EXCEPT ![p] = r]
    BY <1>2
  <2> HIDE DEF r
  <2>4. pools' \in [Memory!PoolIds -> PoolRecords]
    BY <1>1, <2>1, <2>3 DEF r
  <2>5. pools'[p] = r /\ \A q \in Memory!PoolIds \ {p} : pools'[q] = f[q]
    BY <1>1, <2>3
  <2> QED
    BY <1>1, <2>2, <2>4, <2>5
<1>4. PoolsShaped'
  BY <1>3 DEF MemoryInv, PoolsShaped
<1>5. Lent(pools') = Lent(pools)
  <2>1. {q \in Memory!PoolIds : pools'[q].live /\ ~pools'[q].owns} =
          {q \in Memory!PoolIds : pools[q].live /\ ~pools[q].owns}
    BY <1>3
  <2> QED
    BY <1>3, <2>1 DEF Lent
<1>6. ASSUME NEW q \in Memory!PoolIds PROVE Under(pools'[q]) = Under(pools[q])
  <2>1. /\ pools'[q].live = pools[q].live /\ pools'[q].owns = pools[q].owns
        /\ pools'[q].buffer = pools[q].buffer
    BY <1>3
  <2> QED
    BY <2>1 DEF Under
<1>7. HeapKept'
  BY <1>6, HeapRests
<1>8. CallsShaped' /\ RegionsShaped' /\ PsramKept'
  BY <1>5 DEF MemoryInv, CallsShaped, RegionsShaped, PsramKept
<1> QED
  BY <1>4, <1>7, <1>8 DEF MemoryInv

LEMMA PoolAllocKeeps ==
  ASSUME MemoryInv, NEW t \in Callers, NEW p \in Memory!PoolIds, Memory!PoolAlloc(t, p)
  PROVE  MemoryInv'
<1> DEFINE x == pools[p].out + 1
<1> DEFINE y == IF pools[p].used < PoolBlocks THEN pools[p].used + 1 ELSE pools[p].used
<1>1. /\ pools' = [pools EXCEPT ![p].out = x, ![p].used = y]
      /\ pools[p].out < PoolBlocks
      /\ UNCHANGED <<memoryInitialized, allocated, psram, loose, memoryRegions, balance,
                     memoryCall, early, memoryLost>>
  BY DEF Memory!PoolAlloc, Memory!HasRoom, MemoryInv, PoolsShaped, PoolRecords
<1>2. pools[p].used \in Int /\ pools[p].out \in Int
  BY DEF MemoryInv, PoolsShaped, PoolRecords
<1>3. x \in Int /\ y \in Int
  BY <1>2
<1>4. pools[p].live /\ pools[p].kind = "FIXED" => x = y
  <2>1. pools[p].live /\ pools[p].kind = "FIXED" => pools[p].used = pools[p].out
    BY DEF MemoryInv, PoolsShaped
  <2> QED
    BY <1>1, <2>1
<1> HIDE DEF x, y
<1> QED
  BY <1>1, <1>3, <1>4, PoolCounts

LEMMA PoolFreeKeeps ==
  ASSUME MemoryInv, NEW t \in Callers, NEW p \in Memory!PoolIds, Memory!PoolFree(t, p)
  PROVE  MemoryInv'
<1> DEFINE x == pools[p].out - 1
<1> DEFINE y == Memory!UsedAfterFree(p)
<1>1. /\ pools' = [pools EXCEPT ![p].out = x, ![p].used = y]
      /\ UNCHANGED <<memoryInitialized, allocated, psram, loose, memoryRegions, balance,
                     memoryCall, early, memoryLost>>
  BY DEF Memory!PoolFree, MemoryInv, PoolsShaped, PoolRecords
<1>2. pools[p].used \in Int /\ pools[p].out \in Int
  BY DEF MemoryInv, PoolsShaped, PoolRecords
<1>3. x \in Int /\ y \in Int
  BY <1>2 DEF Memory!UsedAfterFree
<1>4. pools[p].live /\ pools[p].kind = "FIXED" => x = y
  BY DEF Memory!UsedAfterFree, MemoryInv, PoolsShaped
<1> HIDE DEF x, y
<1> QED
  BY <1>1, <1>3, <1>4, PoolCounts


LEMMA MemoryStarts == Memory!Init => MemoryInv
<1> SUFFICES ASSUME Memory!Init PROVE MemoryInv
  OBVIOUS
<1> USE DEF Memory!Init
<1> DEFINE c == [op |-> "idle", blocks |-> <<>>]
<1>1. \A t \in Callers : memoryCall[t] = c
  BY DEF Memory!Idle
<1>2. CallShape(c) /\ NewIn(c) = {} /\ BookedIn(c) = {} /\ PsramOf(c) = {}
  BY HeldIdle DEF CallShape
<1> HIDE DEF c
<1>3. CallsShaped /\ RegionsShaped
  BY <1>1, <1>2 DEF CallsShaped, RegionsShaped, Memory!Idle
<1>4. /\ Memory!NoPool \in PoolRecords /\ ~Memory!NoPool.live
      /\ Memory!NoPool.used = Memory!NoPool.out
  BY DEF Memory!NoPool, PoolRecords
<1>5. pools \in [Memory!PoolIds -> PoolRecords] /\ \A p \in Memory!PoolIds : ~pools[p].live
  BY <1>4
<1>6. PoolsShaped
  BY <1>5 DEF PoolsShaped
<1>7. PsramKept
  <2>1. PsramIn(memoryCall) = {} /\ Lent(pools) = {}
    BY <1>1, <1>2, <1>5 DEF PsramIn, Lent
  <2> QED
    BY <1>1, <1>2, <2>1 DEF PsramKept
<1>8. HeapKept
  <2>1. /\ TheHeap.all = {} /\ TheHeap.loose = {} /\ TheHeap.regions = {}
        /\ \A t \in Callers : TheHeap.new[t] = {} /\ TheHeap.booked[t] = {}
        /\ \A p \in Memory!PoolIds : TheHeap.pool[p] = {}
    BY <1>1, <1>2, <1>5 DEF TheHeap, Heap, Under
  <2> HIDE DEF Memory!Init
  <2>2. Placed(TheHeap, <<>>) /\ Booked(TheHeap, <<>>) = {}
    BY <2>1 DEF Placed, At, Booked
  <2>3. Fits(TheHeap, 0)
    BY <2>1, <2>2, FS_EmptySet DEF Fits
  <2>4. Ledger(0)
    BY DEF Ledger, Memory!Init
  <2> QED
    BY <2>3, <2>4 DEF HeapKept
<1> QED
  BY <1>3, <1>6, <1>7, <1>8 DEF MemoryInv

LEMMA MemoryNext == MemoryInv /\ [Memory!Next]_(Memory!vars) => MemoryInv'
<1> SUFFICES ASSUME MemoryInv, [Memory!Next]_(Memory!vars) PROVE MemoryInv'
  OBVIOUS
<1>1. ASSUME NEW t \in Callers, Memory!HeapStep(t) PROVE MemoryInv'
  <2>1. CASE Memory!Malloc(t) \/ Memory!RegionCreate(t)
    BY <2>1, MallocKeeps
  <2>2. CASE Memory!MallocCounted(t)
    BY <2>2, MallocCountedKeeps
  <2>3. CASE Memory!FreeCounted(t)
    BY <2>3, FreeCountedKeeps
  <2>4. CASE Memory!Freed(t)
    BY <2>4, FreedKeeps
  <2>5. CASE Memory!HeaderCounted(t)
    BY <2>5, HeaderCountedKeeps
  <2>6. CASE Memory!RegionBase(t)
    BY <2>6, RegionBaseKeeps
  <2>7. CASE Memory!BaseCounted(t)
    BY <2>7, BaseCountedKeeps
  <2>8. CASE \E b \in Blocks : Memory!Realloc(t, b) \/ Memory!Free(t, b)
    BY <2>8, ReallocKeeps, FreeKeeps
  <2>9. CASE \E r \in memoryRegions : Memory!RegionDestroy(t, r)
    BY <2>9, RegionDestroyKeeps
  <2> QED
    BY <1>1, <2>1, <2>2, <2>3, <2>4, <2>5, <2>6, <2>7, <2>8, <2>9 DEF Memory!HeapStep
<1>2. ASSUME NEW t \in Callers, Memory!PoolStep(t) PROVE MemoryInv'
  <2>1. CASE \E k \in {"FIXED", "VARIABLE"} : Memory!PoolCreate(t, k)
    BY <2>1, PoolCreateKeeps
  <2>2. CASE Memory!PsramPoolCreate(t)
    BY <2>2, PsramPoolCreateKeeps
  <2>3. CASE Memory!PsramPoolMade(t)
    BY <2>3, PsramPoolMadeKeeps
  <2>4. CASE \E p \in Memory!PoolIds : \/ Memory!PoolDestroy(t, p) \/ Memory!PoolAlloc(t, p)
                                      \/ Memory!PoolFree(t, p)
    BY <2>4, PoolDestroyKeeps, PoolAllocKeeps, PoolFreeKeeps
  <2> QED
    BY <1>2, <2>1, <2>2, <2>3, <2>4 DEF Memory!PoolStep
<1>3. CASE Memory!MemoryInit
  BY <1>3, MemoryInitKeeps
<1>4. CASE UNCHANGED Memory!vars
  <2>1. UNCHANGED <<memoryInitialized, allocated, psram, loose, memoryRegions, pools,
                    balance, memoryCall, early, memoryLost>>
    BY <1>4 DEF Memory!vars
  <2>2. HeapKept'
    BY <2>1, HeapRests
  <2> QED
    BY <2>1, <2>2 DEF MemoryInv, CallsShaped, RegionsShaped, PoolsShaped, PsramKept
<1> QED
  BY <1>1, <1>2, <1>3, <1>4 DEF Memory!Next

\* The blocks of a call are what it holds.
LEMMA CallElements ==
  ASSUME NEW c, CallShape(c)
  PROVE  /\ c.op \in Memory!HeapCalls => Memory!Elements(c.blocks) = NewIn(c) \cup BookedIn(c)
         /\ c.op \notin Memory!HeapCalls => NewIn(c) \cup BookedIn(c) = {}
         /\ c.op = "psram" => Memory!Elements(c.blocks) = PsramOf(c)
         /\ c.op # "psram" => PsramOf(c) = {}
<1>1. CASE c = [op |-> "idle", blocks |-> <<>>]
  BY <1>1, HeldIdle DEF Memory!HeapCalls
<1>2. CASE \E op \in {"malloc", "free", "kfree", "header", "base", "psram"} : \E a :
             c = [op |-> op, blocks |-> <<a>>]
  <2>0. PICK op \in {"malloc", "free", "kfree", "header", "base", "psram"} : \E a :
          c = [op |-> op, blocks |-> <<a>>]
    BY <1>2
  <2>1. PICK a : c = [op |-> op, blocks |-> <<a>>]
    BY <2>0
  <2>2. Memory!Elements(<<a>>) = {a}
    BY DEF Memory!Elements
  <2> QED
    BY <2>1, <2>2, Held1 DEF Memory!HeapCalls
<1>3. CASE \E op \in {"malloc", "free", "kfree", "counted"} : \E a, b :
             a # b /\ c = [op |-> op, blocks |-> <<a, b>>]
  <2>0. PICK op \in {"malloc", "free", "kfree", "counted"} : \E a, b :
          a # b /\ c = [op |-> op, blocks |-> <<a, b>>]
    BY <1>3
  <2>1. PICK a, b : c = [op |-> op, blocks |-> <<a, b>>]
    BY <2>0
  <2>2. Memory!Elements(<<a, b>>) = {a, b}
    BY DEF Memory!Elements
  <2> QED
    BY <2>1, <2>2, Held2 DEF Memory!HeapCalls
<1> QED
  BY <1>1, <1>2, <1>3 DEF CallShape

LEMMA MemoryImplied == MemoryInv => Memory!MemorySound
<1> SUFFICES ASSUME MemoryInv PROVE Memory!MemorySound
  OBVIOUS
<1>1. \A t \in Callers : CallShape(memoryCall[t])
  BY DEF MemoryInv, CallsShaped
<1>2. Memory!InCalls(Memory!HeapCalls) =
        UNION {NewIn(memoryCall[t]) \cup BookedIn(memoryCall[t]) : t \in Callers}
  BY <1>1, CallElements DEF Memory!InCalls
<1>3. Memory!InCalls({"psram"}) = PsramIn(memoryCall)
  BY <1>1, CallElements DEF Memory!InCalls, PsramIn
<1>4. \A r \in memoryRegions : Memory!Elements(r) = Pair(r)
  <2>1. \A a, b : Memory!Elements(<<a, b>>) = {a, b}
    BY DEF Memory!Elements
  <2> QED
    BY <2>1 DEF MemoryInv, RegionsShaped, Pair
<1>6. \A p \in Memory!PoolIds : TheHeap.pool[p] = Under(pools[p])
  BY DEF TheHeap, Heap
<1>10. ASSUME NEW b
       PROVE  b \in Memory!Counted <=>
                \/ b \in loose
                \/ \E r \in memoryRegions : b \in Pair(r)
                \/ \E t \in Callers : b \in NewIn(memoryCall[t]) \/ b \in BookedIn(memoryCall[t])
  <2> DEFINE S == UNION {Memory!Elements(r) : r \in memoryRegions}
  <2> DEFINE T == Memory!InCalls(Memory!HeapCalls)
  <2>1. b \in S <=> \E r \in memoryRegions : b \in Pair(r)
    BY <1>4
  <2>2. b \in T <=>
          \E t \in Callers : b \in NewIn(memoryCall[t]) \/ b \in BookedIn(memoryCall[t])
    BY <1>2
  <2>3. Memory!Counted = loose \cup S \cup T
    BY DEF Memory!Counted
  <2> HIDE DEF S, T
  <2> QED
    BY <2>1, <2>2, <2>3
<1>7. Memory!FixedPoolsExact
  BY DEF MemoryInv, PoolsShaped, Memory!FixedPoolsExact, Memory!Live
<1>8. Memory!BlocksAreHeld
  <2>1. UNION {Under(pools[p]) : p \in Memory!PoolIds} =
          {pools[p].buffer : p \in {q \in Memory!Live : pools[q].owns}}
    BY DEF Under, Memory!Live
  <2>2. /\ loose \subseteq allocated
        /\ UNION {Pair(r) : r \in memoryRegions} \subseteq allocated
        /\ Memory!InCalls(Memory!HeapCalls) \subseteq allocated
        /\ UNION {Under(pools[p]) : p \in Memory!PoolIds} \subseteq allocated
    BY <1>2, <1>6, HeldAllocated
  <2>3. ASSUME NEW b \in allocated
        PROVE  b \in Memory!Counted \cup UNION {Under(pools[p]) : p \in Memory!PoolIds}
    <3>1. \/ b \in loose
          \/ \E t \in Callers : b \in NewIn(memoryCall[t]) \cup BookedIn(memoryCall[t])
          \/ \E r \in memoryRegions : b \in Pair(r)
          \/ \E p \in Memory!PoolIds : b \in Under(pools[p])
      BY <1>6, HeldApart
    <3> QED
      BY <1>10, <3>1
  <2>9. Memory!Counted \subseteq allocated
    BY <1>10, HeldAllocated
  <2>4. allocated = Memory!Counted \cup {pools[p].buffer : p \in {q \in Memory!Live : pools[q].owns}}
    BY <2>1, <2>2, <2>3, <2>9
  <2>5. loose \cap Memory!InCalls(Memory!HeapCalls) = {}
    BY <1>2, HeldApart
  <2>6. ASSUME NEW p \in Memory!Live, pools[p].owns
        PROVE  pools[p].buffer \notin Memory!Counted
    <3>1. p \in Memory!PoolIds /\ TheHeap.pool[p] = {pools[p].buffer}
      BY <1>6, <2>6 DEF Under, Memory!Live
    <3> QED
      <4>1. pools[p].buffer \notin loose
        BY <3>1, HeldApart
      <4>2. \A r \in memoryRegions : pools[p].buffer \notin Pair(r)
        BY <3>1, HeldApart
      <4>3. \A t \in Callers :
              pools[p].buffer \notin NewIn(memoryCall[t]) \cup BookedIn(memoryCall[t])
        BY <3>1, HeldApart
      <4> QED
        BY <1>10, <4>1, <4>2, <4>3
  <2>7. psram = Memory!InCalls({"psram"}) \cup memoryLost
                  \cup {pools[p].buffer : p \in {q \in Memory!Live : ~pools[q].owns}}
    <3>1. {q \in Memory!Live : ~pools[q].owns} =
            {q \in Memory!PoolIds : pools[q].live /\ ~pools[q].owns}
      BY DEF Memory!Live
    <3> QED
      BY <1>3, <3>1 DEF MemoryInv, PsramKept, Lent
  <2> QED
    BY <2>4, <2>5, <2>6, <2>7 DEF Memory!BlocksAreHeld
<1>9. Memory!LeaksAreReal
  <2>1. PICK n \in Nat : Fits(TheHeap, n) /\ Ledger(n)
    BY DEF MemoryInv, HeapKept
  <2>2. PICK w : Placed(TheHeap, w) /\ Cardinality(Booked(TheHeap, w)) = n
    BY <2>1 DEF Fits
  <2>3. /\ TheHeap.all = allocated /\ TheHeap.loose = loose /\ TheHeap.regions = memoryRegions
        /\ \A t \in Callers : /\ TheHeap.new[t] = NewIn(memoryCall[t])
                              /\ TheHeap.booked[t] = BookedIn(memoryCall[t])
    BY DEF TheHeap, Heap
  <2>4. /\ loose = At(TheHeap, w, Loose)
        /\ \A t \in Callers : BookedIn(memoryCall[t]) = At(TheHeap, w, BookedOf(t))
        /\ \A r \in memoryRegions : Pair(r) = At(TheHeap, w, InRegion(r))
    BY <2>2, <2>3 DEF Placed
  <2>5. ASSUME NEW b \in Booked(TheHeap, w)
        PROVE  \/ b \in loose
               \/ \E t \in Callers : b \in BookedIn(memoryCall[t])
               \/ \E r \in memoryRegions : b \in Pair(r)
    <3>1. b \in allocated /\ Books(w[b]) /\ Valid(TheHeap, w[b])
      BY <2>2, <2>3 DEF Booked, Placed
    <3>2. \A q : w[b] = q => b \in At(TheHeap, w, q)
      BY <2>3, <3>1 DEF At
    <3> QED
      BY <2>3, <2>4, <3>1, <3>2, BooksFacts DEF Valid
  <2>6. Booked(TheHeap, w) \subseteq Memory!Counted
    BY <1>10, <2>5
  <2>7. IsFiniteSet(Memory!Counted)
    <3>1. IsFiniteSet(allocated)
      BY <2>1, <2>3 DEF Fits
    <3>2. Memory!Counted \subseteq allocated
      BY <1>8 DEF Memory!BlocksAreHeld
    <3> QED
      BY <3>1, <3>2, FS_Subset
  <2>8. n <= Cardinality(Memory!Counted) /\ Cardinality(Memory!Counted) \in Nat
    BY <2>2, <2>6, <2>7, FS_Subset, FS_CardinalityType
  <2>9. ASSUME \A t \in Callers : Memory!At(t, "idle")
        PROVE  Memory!Counted = Booked(TheHeap, w)
    <3>1. \A t \in Callers : NewIn(memoryCall[t]) = {} /\ BookedIn(memoryCall[t]) = {}
      BY <1>1, <2>9, ShapeByOp, HeldIdle DEF Memory!At
    <3>2. Memory!Counted = loose \cup UNION {Pair(r) : r \in memoryRegions}
      BY <1>10, <3>1
    <3>3. \A q : Books(q) => At(TheHeap, w, q) \subseteq Booked(TheHeap, w)
      BY DEF At, Booked
    <3>4. loose \subseteq Booked(TheHeap, w)
      BY <2>4, <3>3, BooksFacts
    <3>5. \A r \in memoryRegions : Pair(r) \subseteq Booked(TheHeap, w)
      BY <2>4, <3>3, BooksFacts
    <3> QED
      BY <2>6, <3>2, <3>4, <3>5
  <2>10. balance <= Cardinality(Memory!Counted)
    BY <2>1, <2>8 DEF Ledger
  <2>11. ~early /\ (\A t \in Callers : Memory!At(t, "idle")) =>
           balance = Cardinality(Memory!Counted)
    <3>1. SUFFICES ASSUME ~early, \A t \in Callers : Memory!At(t, "idle")
                   PROVE  balance = Cardinality(Memory!Counted)
      OBVIOUS
    <3>2. ~early => balance = n
      BY <2>1 DEF Ledger
    <3>3. Memory!Counted = Booked(TheHeap, w)
      BY <2>9, <3>1
    <3> QED
      BY <2>2, <3>1, <3>2, <3>3
  <2>12. Memory!Cardinality(Memory!Counted) = Cardinality(Memory!Counted)
    BY DEF Memory!Cardinality, Cardinality
  <2> QED
    BY <2>10, <2>11, <2>12 DEF Memory!LeaksAreReal
<1> QED
  BY <1>7, <1>8, <1>9 DEF Memory!MemorySound

\* Every block is in one place, and the leak count is right, at every step.
THEOREM MemoryIsKept == Memory!Spec => []Memory!MemorySound
<1> QED
  BY MemoryStarts, MemoryNext, MemoryImplied, PTL DEF Memory!Spec

-----------------------------------------------------------------------------
(* Timers.                                                                  *)

\* A timer with any number of shots, and a call.
AnyTimer == [in_use : BOOLEAN, owner : Callers \cup {NoCaller}, mode : Timer!Modes,
             state : Timer!States, armed : BOOLEAN, shots : Nat, late : BOOLEAN]
TimerCall == [op : Timer!Ops, slot : Timer!Slots \cup {0}]

\* A one-shot whose last call no expiry came into.
FiresOnce(r) == r.mode = "ONESHOT" /\ ~r.late

\* A slot by itself: a one-shot that is armed, or that a resume may arm again,
\* has not fired.
TimerOK(r) ==
  /\ r.armed => r.in_use
  /\ FiresOnce(r) => r.shots <= 1 /\ (r.armed \/ r.state = "PAUSED" => r.shots = 0)

\* What a thread in the middle of a call knows of its timer: it is its own, and
\* after k_timer_stop nothing arms it, and only a call's last write marks it late.
TimerCallOK(t, c, r) ==
  /\ r.in_use /\ r.owner = t
  /\ c.op \in {"stopped", "stopped_reset", "paused"} => ~r.armed
  /\ c.op = "paused" /\ FiresOnce(r) => r.shots = 0
  /\ c.op = "started" => ~r.late

\* The invariant of the timers.
TimerInv ==
  /\ timers \in [Timer!Slots -> AnyTimer]
  /\ timerCall \in [Callers -> TimerCall]
  /\ \A s \in Timer!Slots : TimerOK(timers[s])
  /\ \A t \in Callers : timerCall[t] # Timer!Idle => timerCall[t].slot \in Timer!Slots /\ TimerCallOK(t, timerCall[t], timers[timerCall[t].slot])
  /\ Timer!QuietIsDisarmed

\* The invariant gives the property.
LEMMA TimerInvImplies == TimerInv => Timer!TimersSound
BY DEF TimerInv, Timer!TimersSound, Timer!OneshotFiresOnce, TimerOK, FiresOnce, Timer!InUse, AnyTimer

\* The lowest slot of a set that has one.
LEMMA LowestIn == ASSUME NEW S \in SUBSET Timer!Slots, S # {} PROVE Timer!Lowest(S) \in S
<1> DEFINE Less == {p \in Nat \X Nat : p[1] < p[2]}
<1>1. S \in SUBSET Nat
  BY DEF Timer!Slots
<1>2. IsWellFoundedOn(Less, Nat)
  BY NatLessThanWellFounded DEF OpToRel
<1>3. PICK x \in S : \A y \in S : ~(<<y, x>> \in Less)
  <2> HIDE DEF Less
  <2> QED
    BY <1>1, <1>2, WFMin
<1>4. ASSUME NEW y \in S PROVE x <= y
  <2>1. x \in Nat /\ y \in Nat /\ <<y, x>> \in Nat \X Nat
    BY <1>1
  <2> QED
    BY <1>3, <2>1
<1> QED
  BY <1>4 DEF Timer!Lowest

\* A step of thread t, whose timer s is in no other call.
LEMMA ThreadStep ==
  ASSUME TimerInv, NEW t \in Callers, NEW s \in Timer!Slots, NEW r \in AnyTimer, NEW c \in TimerCall,
         timers' = [timers EXCEPT ![s] = r], timerCall' = [timerCall EXCEPT ![t] = c],
         timerCall[t] = Timer!Idle \/ timerCall[t].slot = s,
         \A u \in Callers \ {t} : timerCall[u] = Timer!Idle \/ timerCall[u].slot # s,
         TimerOK(r),
         c # Timer!Idle => c.slot = s /\ TimerCallOK(t, c, r),
         c = Timer!Idle => (r.armed => r.state = "RUNNING")
  PROVE  TimerInv'
<1>1. /\ timers' \in [Timer!Slots -> AnyTimer] /\ timers'[s] = r
      /\ \A u \in Timer!Slots \ {s} : timers'[u] = timers[u]
  BY DEF TimerInv
<1>2. /\ timerCall' \in [Callers -> TimerCall] /\ timerCall'[t] = c
      /\ \A u \in Callers \ {t} : timerCall'[u] = timerCall[u]
  BY DEF TimerInv
<1>3. ASSUME NEW u \in Timer!Slots PROVE TimerOK(timers'[u])
  <2>1. CASE u = s
    BY <1>1, <2>1
  <2>2. CASE u # s
    <3>1. timers'[u] = timers[u] /\ TimerOK(timers[u])
      BY <1>1, <2>2 DEF TimerInv
    <3> QED
      BY <3>1
  <2> QED
    BY <2>1, <2>2
<1>4. ASSUME NEW u \in Callers
      PROVE  timerCall'[u] # Timer!Idle => timerCall'[u].slot \in Timer!Slots /\ TimerCallOK(u, timerCall'[u], timers'[timerCall'[u].slot])
  <2>1. CASE u = t
    BY <1>1, <1>2, <2>1
  <2>2. CASE u # t
    <3>1. timerCall'[u] = timerCall[u]
      BY <1>2, <2>2
    <3>2. CASE timerCall[u] = Timer!Idle
      BY <3>1, <3>2
    <3>3. CASE timerCall[u] # Timer!Idle
      <4>1. timerCall[u].slot \in Timer!Slots \ {s} /\ TimerCallOK(u, timerCall[u], timers[timerCall[u].slot])
        BY <2>2, <3>3 DEF TimerInv
      <4>2. timers'[timerCall[u].slot] = timers[timerCall[u].slot]
        BY <1>1, <4>1
      <4> QED
        BY <3>1, <4>1, <4>2
    <3> QED
      BY <3>2, <3>3
  <2> QED
    BY <2>1, <2>2
<1>5. ASSUME NEW u \in Timer!Slots, timers'[u].armed
      PROVE  timers'[u].in_use /\ ((\E v \in Callers : timerCall'[v].slot = u) \/ timers'[u].state = "RUNNING")
  <2>1. CASE u = s
    <3>1. timers'[u] = r /\ r.in_use
      BY <1>1, <1>5, <2>1 DEF TimerOK
    <3>2. CASE c = Timer!Idle
      BY <1>5, <3>1, <3>2
    <3>3. CASE c # Timer!Idle
      BY <1>2, <2>1, <3>1, <3>3
    <3> QED
      BY <3>2, <3>3
  <2>2. CASE u # s
    <3>1. timers'[u] = timers[u]
      BY <1>1, <2>2
    <3>2. timers[u].in_use /\ ((\E v \in Callers : timerCall[v].slot = u) \/ timers[u].state = "RUNNING")
      BY <1>5, <3>1 DEF TimerInv, Timer!QuietIsDisarmed, Timer!InCall
    <3>3. CASE timers[u].state = "RUNNING"
      BY <3>1, <3>2, <3>3
    <3>4. ASSUME NEW v \in Callers, timerCall[v].slot = u
          PROVE  \E w \in Callers : timerCall'[w].slot = u
      <4>1. v # t
        BY <2>2, <3>4 DEF Timer!Idle, Timer!Slots
      <4> QED
        BY <1>2, <3>4, <4>1
    <3> QED
      BY <3>1, <3>2, <3>3, <3>4
  <2> QED
    BY <2>1, <2>2
<1> QED
  BY <1>1, <1>2, <1>3, <1>4, <1>5 DEF TimerInv, Timer!QuietIsDisarmed, Timer!InCall

\* A timer that its owner may use, or is using, is in no other call.
LEMMA OwnSlot ==
  ASSUME TimerInv, NEW t \in Callers, NEW s \in Timer!Slots,
         timers[s].in_use => timers[s].owner = t
  PROVE  \A u \in Callers \ {t} : timerCall[u] = Timer!Idle \/ timerCall[u].slot # s
BY DEF TimerInv, TimerCallOK

\* A thread outside the API.
LEMMA IdleCall == Timer!Idle \in TimerCall
BY DEF Timer!Idle, TimerCall, Timer!Ops

\* Disarming leaves everything else but the state.
LEMMA DisarmedFacts ==
  ASSUME NEW r \in AnyTimer
  PROVE  /\ Timer!Disarmed(r) \in AnyTimer /\ ~Timer!Disarmed(r).armed
         /\ Timer!Disarmed(r).in_use = r.in_use /\ Timer!Disarmed(r).owner = r.owner
         /\ Timer!Disarmed(r).mode = r.mode /\ Timer!Disarmed(r).shots = r.shots
         /\ Timer!Disarmed(r).late = r.late
         /\ Timer!Disarmed(r).state \in {r.state, "STOPPED"}
         /\ TimerOK(r) => TimerOK(Timer!Disarmed(r))
BY DEF Timer!Disarmed, AnyTimer, TimerOK, FiresOnce, Timer!States

\* What an expiry does to a timer.
LEMMA ExpiredFacts ==
  ASSUME NEW r \in AnyTimer
  PROVE  /\ Timer!Expired(r) \in AnyTimer
         /\ Timer!Expired(r).in_use = r.in_use /\ Timer!Expired(r).owner = r.owner
         /\ Timer!Expired(r).mode = r.mode /\ Timer!Expired(r).late = r.late
         /\ Timer!Expired(r).shots = r.shots + 1
         /\ Timer!Expired(r).armed <=> r.mode # "ONESHOT"
         /\ Timer!Expired(r).state = IF r.mode = "ONESHOT" THEN "EXPIRED" ELSE r.state
<1>1. DOMAIN r = {"in_use", "owner", "mode", "state", "armed", "shots", "late"}
  BY DEF AnyTimer
<1>2. /\ r.in_use \in BOOLEAN /\ r.owner \in Callers \cup {NoCaller} /\ r.mode \in Timer!Modes
      /\ r.state \in Timer!States /\ r.shots \in Nat /\ r.late \in BOOLEAN
  BY DEF AnyTimer
<1> DEFINE armed == r.mode # "ONESHOT"
           next == IF r.mode = "ONESHOT" THEN "EXPIRED" ELSE r.state
           shots == r.shots + 1
<1>3. armed \in BOOLEAN /\ next \in Timer!States /\ shots \in Nat
  BY <1>2 DEF Timer!States
<1>4. Timer!Expired(r) = [r EXCEPT !.shots = shots, !.armed = armed, !.state = next]
  BY DEF Timer!Expired
<1> HIDE DEF armed, next, shots
<1>5. /\ Timer!Expired(r) \in AnyTimer
      /\ Timer!Expired(r).in_use = r.in_use /\ Timer!Expired(r).owner = r.owner
      /\ Timer!Expired(r).mode = r.mode /\ Timer!Expired(r).late = r.late
      /\ Timer!Expired(r).shots = shots /\ Timer!Expired(r).armed = armed /\ Timer!Expired(r).state = next
  BY <1>3, <1>4 DEF AnyTimer
<1> QED
  BY <1>5 DEF armed, next, shots

\* akira_timer_create takes a slot that nobody uses.
LEMMA TimerCreateInv ==
  ASSUME TimerInv, NEW t \in Callers, NEW m \in Timer!Modes, NEW b \in BOOLEAN, Timer!Create(t, m, b)
  PROVE  TimerInv'
<1> DEFINE s == Timer!Lowest(Timer!Slots \ Timer!InUse)
           r == [Timer!Free EXCEPT !.in_use = TRUE, !.owner = t, !.mode = m]
           c == IF b THEN [op |-> "start", slot |-> s] ELSE Timer!Idle
<1>1. s \in Timer!Slots /\ ~timers[s].in_use
  BY LowestIn DEF Timer!Create, Timer!InUse
<1>2. timerCall[t] = Timer!Idle /\ timers' = [timers EXCEPT ![s] = r]
  BY DEF Timer!Create, Timer!SetTimer
<1>3. timerCall' = [timerCall EXCEPT ![t] = c]
  BY <1>2 DEF Timer!Create, Timer!Continue, TimerInv
<1>4. c \in TimerCall
  BY <1>1, IdleCall DEF TimerCall, Timer!Ops
<1>5. r \in AnyTimer /\ r.in_use /\ r.owner = t /\ ~r.armed /\ r.shots = 0
  BY DEF Timer!Free, AnyTimer, Timer!States, Timer!Modes
<1>6. \A u \in Callers \ {t} : timerCall[u] = Timer!Idle \/ timerCall[u].slot # s
  BY <1>1, OwnSlot
<1> HIDE DEF s, r
<1>7. TimerOK(r)
  BY <1>5 DEF TimerOK
<1>8. c # Timer!Idle => c.slot = s /\ TimerCallOK(t, c, r)
  BY <1>5 DEF TimerCallOK
<1> HIDE DEF c
<1> QED
  BY <1>1, <1>2, <1>3, <1>4, <1>5, <1>6, <1>7, <1>8, ThreadStep

\* A timer whose owner may use it is in no call, and quiet unless RUNNING.
LEMMA OwnerCalls ==
  ASSUME TimerInv, NEW t \in Callers, NEW s \in Timer!Slots, Timer!Owns(t, s)
  PROVE  /\ timerCall[t] = Timer!Idle /\ timers[s] \in AnyTimer /\ TimerOK(timers[s])
         /\ timers[s].in_use /\ timers[s].owner = t
         /\ \A u \in Callers \ {t} : timerCall[u] = Timer!Idle \/ timerCall[u].slot # s
         /\ timers[s].armed => timers[s].state = "RUNNING"
<1>1. \A u \in Callers \ {t} : timerCall[u] = Timer!Idle \/ timerCall[u].slot # s
  BY OwnSlot DEF Timer!Owns
<1>2. timerCall[t] = Timer!Idle /\ timers[s].in_use /\ timers[s].owner = t
  BY DEF Timer!Owns
<1>3. ~Timer!InCall(s)
  BY <1>1, <1>2 DEF Timer!InCall, Timer!Idle, Timer!Slots
<1> QED
  BY <1>1, <1>2, <1>3 DEF TimerInv, Timer!QuietIsDisarmed

\* The first step of a call.
LEMMA OwnerInv ==
  ASSUME TimerInv, NEW t \in Callers, NEW s \in Timer!Slots,
         \/ Timer!Destroy(t, s) \/ Timer!StartCall(t, s) \/ Timer!SetPeriod(t, s)
         \/ Timer!Stop(t, s, FALSE) \/ Timer!Stop(t, s, TRUE) \/ Timer!PauseCheck(t, s) \/ Timer!ResumeArm(t, s)
  PROVE  TimerInv'
<1> DEFINE old == timers[s]
<1>1. Timer!Owns(t, s)
  BY DEF Timer!Destroy, Timer!StartCall, Timer!SetPeriod, Timer!Stop, Timer!PauseCheck, Timer!ResumeArm
<1>2. /\ timerCall[t] = Timer!Idle /\ old \in AnyTimer /\ TimerOK(old)
      /\ old.in_use /\ old.owner = t
      /\ \A u \in Callers \ {t} : timerCall[u] = Timer!Idle \/ timerCall[u].slot # s
      /\ old.armed => old.state = "RUNNING"
  BY <1>1, OwnerCalls
<1>3. timers = [timers EXCEPT ![s] = old] /\ timerCall = [timerCall EXCEPT ![t] = Timer!Idle]
  BY <1>2 DEF TimerInv
<1>4. /\ Timer!Disarmed(old) \in AnyTimer /\ ~Timer!Disarmed(old).armed
      /\ Timer!Disarmed(old).in_use /\ Timer!Disarmed(old).owner = t
      /\ TimerOK(Timer!Disarmed(old))
  BY <1>2, DisarmedFacts
<1>5. CASE Timer!Destroy(t, s)
  <2> DEFINE r == Timer!Destroyed(old)
  <2>1. r \in AnyTimer /\ ~r.armed /\ TimerOK(r)
    BY <1>4 DEF Timer!Destroyed, AnyTimer, TimerOK, FiresOnce
  <2>2. timers' = [timers EXCEPT ![s] = r] /\ timerCall' = [timerCall EXCEPT ![t] = Timer!Idle]
    BY <1>3, <1>5 DEF Timer!Destroy, Timer!SetTimer
  <2> HIDE DEF r, old
  <2> QED
    BY <1>2, <2>1, <2>2, IdleCall, ThreadStep
<1>6. ASSUME NEW again \in BOOLEAN, Timer!Stop(t, s, again) PROVE TimerInv'
  <2> DEFINE r == Timer!Disarmed(old)
             c == [op |-> IF again THEN "stopped_reset" ELSE "stopped", slot |-> s]
  <2>1. c \in TimerCall /\ c.slot = s /\ c # Timer!Idle /\ c.op \notin {"paused", "started"}
    BY DEF TimerCall, Timer!Ops, Timer!Idle
  <2>2. timers' = [timers EXCEPT ![s] = r] /\ timerCall' = [timerCall EXCEPT ![t] = c]
    BY <1>6 DEF Timer!Stop, Timer!SetTimer, Timer!Continue
  <2> HIDE DEF r, old, c
  <2>3. TimerCallOK(t, c, r)
    BY <1>4, <2>1 DEF TimerCallOK, r
  <2>4. r \in AnyTimer /\ TimerOK(r)
    BY <1>4 DEF r
  <2> QED
    BY <1>2, <2>1, <2>2, <2>3, <2>4, ThreadStep
<1>7. CASE Timer!StartCall(t, s) \/ Timer!PauseCheck(t, s)
  <2>2. timers' = [timers EXCEPT ![s] = old]
    BY <1>3, <1>7 DEF Timer!StartCall, Timer!PauseCheck
  <2>3. CASE Timer!StartCall(t, s)
    <3> DEFINE d == [op |-> "start", slot |-> s]
    <3>1. d \in TimerCall /\ d.slot = s /\ d # Timer!Idle /\ d.op = "start"
      BY DEF TimerCall, Timer!Ops, Timer!Idle
    <3>2. timerCall' = [timerCall EXCEPT ![t] = d]
      BY <2>3 DEF Timer!StartCall, Timer!Continue
    <3> HIDE DEF d, old
    <3>3. TimerCallOK(t, d, old)
      BY <1>2, <3>1 DEF TimerCallOK
    <3> QED
      BY <1>2, <2>2, <3>1, <3>2, <3>3, ThreadStep
  <2>4. CASE Timer!PauseCheck(t, s)
    <3> DEFINE d == [op |-> "pause", slot |-> s]
    <3>1. d \in TimerCall /\ d.slot = s /\ d # Timer!Idle /\ d.op = "pause"
      BY DEF TimerCall, Timer!Ops, Timer!Idle
    <3>2. timerCall' = [timerCall EXCEPT ![t] = d]
      BY <2>4 DEF Timer!PauseCheck, Timer!Continue
    <3> HIDE DEF d, old
    <3>3. TimerCallOK(t, d, old)
      BY <1>2, <3>1 DEF TimerCallOK
    <3> QED
      BY <1>2, <2>2, <3>1, <3>2, <3>3, ThreadStep
  <2> QED
    BY <1>7, <2>3, <2>4
<1>8. CASE Timer!ResumeArm(t, s)
  <2> DEFINE r == Timer!Armed(old)
             c == [op |-> "resumed", slot |-> s]
  <2>1. c \in TimerCall /\ c.slot = s /\ c # Timer!Idle /\ c.op = "resumed"
    BY DEF TimerCall, Timer!Ops, Timer!Idle
  <2>2. timers' = [timers EXCEPT ![s] = r] /\ timerCall' = [timerCall EXCEPT ![t] = c] /\ old.state = "PAUSED"
    BY <1>8 DEF Timer!ResumeArm, Timer!SetTimer, Timer!Continue
  <2>3. r \in AnyTimer /\ TimerOK(r) /\ r.in_use /\ r.owner = t
    BY <1>2, <2>2 DEF Timer!Armed, AnyTimer, TimerOK, FiresOnce
  <2> HIDE DEF r, old, c
  <2>4. TimerCallOK(t, c, r)
    BY <2>1, <2>3 DEF TimerCallOK
  <2> QED
    BY <1>2, <2>1, <2>2, <2>3, <2>4, ThreadStep
<1> QED
  BY <1>5, <1>6, <1>7, <1>8 DEF Timer!SetPeriod

\* A thread goes on with the call it is in.
LEMMA InsideCall ==
  ASSUME TimerInv, NEW t \in Callers, timerCall[t].op # "idle"
  PROVE  /\ timerCall[t].slot \in Timer!Slots /\ timers[timerCall[t].slot] \in AnyTimer
         /\ TimerOK(timers[timerCall[t].slot])
         /\ TimerCallOK(t, timerCall[t], timers[timerCall[t].slot])
         /\ \A u \in Callers \ {t} : timerCall[u] = Timer!Idle \/ timerCall[u].slot # timerCall[t].slot
<1>1. timerCall[t].slot \in Timer!Slots /\ TimerCallOK(t, timerCall[t], timers[timerCall[t].slot])
  BY DEF TimerInv, Timer!Idle
<1> QED
  BY <1>1, OwnSlot DEF TimerInv, TimerCallOK

\* The later steps, each after an interrupt that may have come.
LEMMA ContinueInv ==
  ASSUME TimerInv, NEW t \in Callers,
         Timer!Arm(t) \/ Timer!Started(t) \/ Timer!Stopped(t) \/ Timer!Pause(t) \/ Timer!Paused(t) \/ Timer!Resumed(t)
  PROVE  TimerInv'
<1> DEFINE s == timerCall[t].slot
           old == timers[s]
<1>1. timerCall[t].op # "idle"
  BY DEF Timer!Arm, Timer!Started, Timer!Stopped, Timer!Pause, Timer!Paused, Timer!Resumed
<1>2. /\ s \in Timer!Slots /\ old \in AnyTimer /\ TimerOK(old) /\ TimerCallOK(t, timerCall[t], old)
      /\ \A u \in Callers \ {t} : timerCall[u] = Timer!Idle \/ timerCall[u].slot # s
  BY <1>1, InsideCall
<1>3. old.in_use /\ old.owner = t
  BY <1>2 DEF TimerCallOK
<1>4. CASE Timer!Arm(t)
  <2> DEFINE r == [Timer!Armed(old) EXCEPT !.shots = 0, !.late = FALSE]
             c == [op |-> "started", slot |-> s]
  <2>1. c \in TimerCall /\ c.slot = s /\ c # Timer!Idle /\ c.op = "started"
    BY <1>2 DEF TimerCall, Timer!Ops, Timer!Idle, Timer!Slots
  <2>2. timers' = [timers EXCEPT ![s] = r] /\ timerCall' = [timerCall EXCEPT ![t] = c]
    BY <1>4 DEF Timer!Arm, Timer!SetTimer, Timer!Continue
  <2>3. r \in AnyTimer /\ r.in_use /\ r.owner = t /\ r.shots = 0 /\ ~r.late
    BY <1>2, <1>3 DEF Timer!Armed, AnyTimer
  <2> HIDE DEF r, c
  <2>4. TimerOK(r) /\ TimerCallOK(t, c, r)
    BY <2>1, <2>3 DEF TimerOK, TimerCallOK
  <2> QED
    BY <1>2, <2>1, <2>2, <2>3, <2>4, ThreadStep, Zenon
<1>5. CASE Timer!Started(t)
  <2> DEFINE r == [old EXCEPT !.state = "RUNNING", !.late = ~old.armed]
  <2>1. timers' = [timers EXCEPT ![s] = r] /\ timerCall' = [timerCall EXCEPT ![t] = Timer!Idle]
    BY <1>5 DEF Timer!Started, Timer!SetTimer, Timer!Return
  <2>2. r \in AnyTimer /\ r.state = "RUNNING" /\ r.in_use /\ r.armed = old.armed
        /\ r.mode = old.mode /\ r.shots = old.shots /\ r.late = ~old.armed
    BY <1>2, <1>3 DEF AnyTimer, Timer!States
  <2>3. ~old.late
    BY <1>2, <1>5 DEF Timer!Started, TimerCallOK
  <2>4. TimerOK(r)
    BY <1>2, <2>2, <2>3 DEF TimerOK, FiresOnce
  <2> HIDE DEF r
  <2> QED
    BY <1>2, <2>1, <2>2, <2>4, IdleCall, ThreadStep
<1>6. CASE Timer!Stopped(t)
  <2> DEFINE r == [old EXCEPT !.state = "STOPPED"]
             c == IF timerCall[t].op = "stopped" THEN Timer!Idle ELSE [op |-> "start", slot |-> s]
  <2>1. timers' = [timers EXCEPT ![s] = r] /\ timerCall' = [timerCall EXCEPT ![t] = c]
    BY <1>6 DEF Timer!Stopped, Timer!SetTimer, Timer!Return, Timer!Continue
  <2>2. ~old.armed
    BY <1>2, <1>6 DEF Timer!Stopped, TimerCallOK
  <2>3. r \in AnyTimer /\ ~r.armed /\ TimerOK(r) /\ r.in_use /\ r.owner = t
    BY <1>2, <1>3, <2>2 DEF AnyTimer, Timer!States, TimerOK, FiresOnce
  <2>4. c \in TimerCall /\ (c # Timer!Idle => c.slot = s /\ c.op = "start")
    BY <1>2, IdleCall DEF TimerCall, Timer!Ops
  <2> HIDE DEF r, c
  <2>5. c # Timer!Idle => c.slot = s /\ TimerCallOK(t, c, r)
    BY <2>3, <2>4 DEF TimerCallOK
  <2> QED
    BY <1>2, <2>1, <2>3, <2>4, <2>5, ThreadStep
<1>7. CASE Timer!Pause(t)
  <2> DEFINE b == [old EXCEPT !.late = @ \/ ~old.armed]
             r == Timer!PauseStop(old)
             c == [op |-> "paused", slot |-> s]
  <2>1. c \in TimerCall /\ c.slot = s /\ c # Timer!Idle /\ c.op = "paused"
    BY <1>2 DEF TimerCall, Timer!Ops, Timer!Idle, Timer!Slots
  <2>2. timers' = [timers EXCEPT ![s] = r] /\ timerCall' = [timerCall EXCEPT ![t] = c]
    BY <1>7 DEF Timer!Pause, Timer!SetTimer, Timer!Continue
  <2>3. b \in AnyTimer /\ TimerOK(b) /\ b.in_use /\ b.owner = t /\ (FiresOnce(b) => b.shots = 0)
    BY <1>2, <1>3 DEF AnyTimer, TimerOK, FiresOnce
  <2>4. r = Timer!Disarmed(b)
    BY DEF Timer!PauseStop
  <2> HIDE DEF b, r, c
  <2>5. r \in AnyTimer /\ ~r.armed /\ TimerOK(r) /\ r.in_use /\ r.owner = t /\ (FiresOnce(r) => r.shots = 0)
    BY <2>3, <2>4, DisarmedFacts DEF FiresOnce
  <2>6. TimerCallOK(t, c, r)
    BY <2>1, <2>5 DEF TimerCallOK
  <2> QED
    BY <1>2, <2>1, <2>2, <2>5, <2>6, ThreadStep
<1>8. CASE Timer!Paused(t)
  <2> DEFINE r == [old EXCEPT !.state = "PAUSED"]
  <2>1. timers' = [timers EXCEPT ![s] = r] /\ timerCall' = [timerCall EXCEPT ![t] = Timer!Idle]
    BY <1>8 DEF Timer!Paused, Timer!SetTimer, Timer!Return
  <2>2. ~old.armed /\ (FiresOnce(old) => old.shots = 0)
    BY <1>2, <1>8 DEF Timer!Paused, TimerCallOK
  <2>3. r \in AnyTimer /\ ~r.armed /\ TimerOK(r)
    BY <1>2, <2>2 DEF AnyTimer, Timer!States, TimerOK, FiresOnce
  <2> HIDE DEF r
  <2> QED
    BY <1>2, <2>1, <2>3, IdleCall, ThreadStep, Zenon
<1>9. CASE Timer!Resumed(t)
  <2> DEFINE r == [old EXCEPT !.state = "RUNNING", !.late = @ \/ ~old.armed]
  <2>1. timers' = [timers EXCEPT ![s] = r] /\ timerCall' = [timerCall EXCEPT ![t] = Timer!Idle]
    BY <1>9 DEF Timer!Resumed, Timer!SetTimer, Timer!Return
  <2>2. r \in AnyTimer /\ r.state = "RUNNING" /\ r.in_use /\ r.armed = old.armed
        /\ r.mode = old.mode /\ r.shots = old.shots
    BY <1>2, <1>3 DEF AnyTimer, Timer!States
  <2>4. TimerOK(r)
    BY <1>2, <1>3 DEF AnyTimer, Timer!States, TimerOK, FiresOnce
  <2> HIDE DEF r
  <2> QED
    BY <1>2, <2>1, <2>2, <2>4, IdleCall, ThreadStep
<1> QED
  BY <1>4, <1>5, <1>6, <1>7, <1>8, <1>9

\* The interrupt, which may come between any two steps of a call.
LEMMA FireInv ==
  ASSUME TimerInv, NEW s \in Timer!Slots, Timer!Fire(s)
  PROVE  TimerInv'
<1> DEFINE old == timers[s]
<1>1. old \in AnyTimer /\ TimerOK(old) /\ old.in_use /\ old.armed
  BY DEF Timer!Fire, TimerInv
<1>2. PICK r \in Timer!Callback(Timer!Expired(old)) : timers' = [timers EXCEPT ![s] = r]
  BY DEF Timer!Fire, Timer!SetTimer
<1>3. timerCall' = timerCall
  BY DEF Timer!Fire
<1>4. /\ Timer!Expired(old) \in AnyTimer /\ TimerOK(Timer!Expired(old))
      /\ Timer!Expired(old).in_use /\ Timer!Expired(old).owner = old.owner
      /\ Timer!Expired(old).late = old.late
      /\ Timer!Expired(old).armed => Timer!Expired(old).state = old.state
  <2>1. /\ Timer!Expired(old) \in AnyTimer
        /\ Timer!Expired(old).in_use = old.in_use /\ Timer!Expired(old).owner = old.owner
        /\ Timer!Expired(old).mode = old.mode /\ Timer!Expired(old).late = old.late
        /\ Timer!Expired(old).shots = old.shots + 1
        /\ Timer!Expired(old).armed <=> old.mode # "ONESHOT"
        /\ Timer!Expired(old).state = IF old.mode = "ONESHOT" THEN "EXPIRED" ELSE old.state
    BY <1>1, ExpiredFacts
  <2>2. FiresOnce(Timer!Expired(old)) => old.shots = 0
    BY <1>1, <2>1 DEF TimerOK, FiresOnce
  <2>3. TimerOK(Timer!Expired(old))
    <3>1. old.shots \in Nat
      BY <1>1 DEF AnyTimer
    <3>2. FiresOnce(Timer!Expired(old)) => ~Timer!Expired(old).armed /\ Timer!Expired(old).state = "EXPIRED"
                               /\ Timer!Expired(old).shots = 1
      BY <2>1, <2>2, <3>1 DEF FiresOnce
    <3> QED
      BY <1>1, <2>1, <3>2 DEF TimerOK
  <2> QED
    BY <1>1, <2>1, <2>3
<1>5. /\ r \in AnyTimer /\ TimerOK(r) /\ r.in_use /\ r.owner = old.owner
      /\ r.armed => r.state \in {old.state, "RUNNING"}
      /\ r.late => old.late
  <2> DEFINE e == Timer!Expired(old)
  <2> HIDE DEF e
  <2>1. CASE r = e
    BY <1>4, <2>1 DEF e
  <2>2. CASE r = [Timer!Disarmed(e) EXCEPT !.state = "STOPPED"]
    <3>1. Timer!Disarmed(e) \in AnyTimer /\ ~Timer!Disarmed(e).armed /\ Timer!Disarmed(e).in_use
          /\ Timer!Disarmed(e).owner = old.owner /\ TimerOK(Timer!Disarmed(e))
          /\ Timer!Disarmed(e).late = old.late
      BY <1>4, DisarmedFacts DEF e
    <3> QED
      BY <2>2, <3>1 DEF AnyTimer, Timer!States, TimerOK, FiresOnce
  <2>3. CASE r = [Timer!Armed(e) EXCEPT !.state = "RUNNING", !.shots = 0, !.late = FALSE]
    <3>1. r \in AnyTimer /\ r.in_use /\ r.owner = old.owner /\ r.state = "RUNNING"
          /\ r.shots = 0 /\ r.late = FALSE
      BY <1>4, <2>3 DEF e, Timer!Armed, AnyTimer, Timer!States
    <3> QED
      BY <3>1 DEF TimerOK
  <2> QED
    BY <1>2, <2>1, <2>2, <2>3 DEF Timer!Callback, e
<1>6. /\ timers' \in [Timer!Slots -> AnyTimer] /\ timers'[s] = r
      /\ \A u \in Timer!Slots \ {s} : timers'[u] = timers[u]
  BY <1>2, <1>5 DEF TimerInv
<1>7. \A u \in Timer!Slots : TimerOK(timers'[u])
  BY <1>5, <1>6 DEF TimerInv
<1>8. ASSUME NEW t \in Callers, timerCall[t] # Timer!Idle
      PROVE  timerCall[t].slot \in Timer!Slots /\ TimerCallOK(t, timerCall[t], timers'[timerCall[t].slot])
  <2>1. timerCall[t].slot \in Timer!Slots /\ TimerCallOK(t, timerCall[t], timers[timerCall[t].slot])
    BY <1>8 DEF TimerInv
  <2>2. CASE timerCall[t].slot = s
    <3>1. timerCall[t].op \notin {"stopped", "stopped_reset", "paused"} /\ old.owner = t
          /\ (timerCall[t].op = "started" => ~old.late)
      BY <1>1, <2>1, <2>2 DEF TimerCallOK
    <3>2. timers'[timerCall[t].slot] = r /\ timerCall[t].slot \in Timer!Slots
      BY <1>6, <2>1, <2>2
    <3>3. r.in_use /\ r.owner = t /\ (timerCall[t].op = "started" => ~r.late)
      BY <1>5, <3>1
    <3> QED
      BY <3>1, <3>2, <3>3 DEF TimerCallOK
  <2>3. CASE timerCall[t].slot # s
    BY <1>6, <2>1, <2>3
  <2> QED
    BY <2>1, <2>2, <2>3
<1>9. ASSUME NEW u \in Timer!Slots, timers'[u].armed
      PROVE  timers'[u].in_use /\ ((\E v \in Callers : timerCall[v].slot = u) \/ timers'[u].state = "RUNNING")
  <2>1. timers[u].armed => timers[u].in_use /\ ((\E v \in Callers : timerCall[v].slot = u) \/ timers[u].state = "RUNNING")
    BY DEF TimerInv, Timer!QuietIsDisarmed, Timer!InCall
  <2>2. CASE u = s
    BY <1>1, <1>5, <1>6, <1>9, <2>1, <2>2
  <2>3. CASE u # s
    BY <1>6, <1>9, <2>1, <2>3
  <2> QED
    BY <2>2, <2>3
<1> QED
  BY <1>3, <1>6, <1>7, <1>8, <1>9 DEF TimerInv, Timer!QuietIsDisarmed, Timer!InCall

\* No timer is in use, nobody is in a call.
LEMMA TimersInit == Timer!Init => TimerInv
BY IdleCall DEF Timer!Init, TimerInv, Timer!Free, AnyTimer, TimerOK, Timer!Modes, Timer!States, Timer!QuietIsDisarmed

\* Every step keeps the invariant.
LEMMA TimersNext == TimerInv /\ [Timer!Next]_(Timer!vars) => TimerInv'
<1> SUFFICES ASSUME TimerInv, [Timer!Next]_(Timer!vars) PROVE TimerInv'
  OBVIOUS
<1>1. CASE UNCHANGED Timer!vars
  BY <1>1 DEF Timer!vars, TimerInv, Timer!QuietIsDisarmed, Timer!InCall
<1> QED
  BY <1>1, TimerCreateInv, OwnerInv, ContinueInv, FireInv DEF Timer!Next

\* A timer its owner sees stopped, paused, expired or destroyed does not fire, and
\* a one-shot fires once for a start (timer.c), for any number of threads, timers
\* and expiries, wherever the interrupt comes.
THEOREM StoppedTimersAreQuiet == Timer!Spec => []Timer!TimersSound
<1>1. Timer!Spec => []TimerInv
  BY TimersInit, TimersNext, PTL DEF Timer!Spec
<1> QED
  BY <1>1, TimerInvImplies, PTL

-----------------------------------------------------------------------------
(* Proof of BusSound.  Identifiers grow along the array, and along the list  *)
(* of those called, who stand before everyone the walk has yet to come to;   *)
(* whoever was passed without being called was stepped over by a removal.    *)

Subscription == [id : Nat, filter : Topics \cup {"*"}]
Message == [id : Int, to : Int, topic : Topics \cup {""}]
BusCall == {Bus!Idle} \cup [op : {"id"}, msg : Message, loaded : Int]
        \cup [op : {"put"}, msg : Message]
        \cup [op : {"count"}, counter : {"sent", "dropped"}, loaded : Nat]
Delivery == [busy : BOOLEAN, in_handler : BOOLEAN, i : Nat \ {0}, msg : Message,
             start : SUBSET Subscription, called : Seq(Subscription), removed : Nat]

BusTyped ==
  /\ subs \in Seq(Subscription) /\ next_sub \in Nat
  /\ busQueue \in Seq(Message) /\ next_id \in Int
  /\ stats \in [sent : Nat, received : Nat, dropped : Nat]
  /\ real \in [built : Nat, queued : Nat, refused : Nat]
  /\ busCall \in [BusThreads -> BusCall] /\ proc \in Delivery

Ordered(s) == \A j, k \in 1 .. Len(s) : j < k => s[j].id < s[k].id

\* The walk of p has passed position k, or calls its handler.
Past(p, k) == p.busy => k < p.i \/ (p.in_handler /\ k = p.i)

\* Those p has passed that should have been called.
Missed(s, p) ==
  {u \in p.start : /\ Bus!Matches(p.msg, u) /\ u \notin Bus!ToSet(p.called)
                   /\ \E k \in 1 .. Len(s) : s[k] = u /\ Past(p, k)}

Fresh(s, next) == Ordered(s) /\ \A k \in 1 .. Len(s) : s[k].id < next
WalkOK(s, p, next) ==
  /\ p.in_handler => p.busy
  /\ Fresh(p.called, next) /\ \A u \in p.start : u.id < next
  /\ \A j \in 1 .. Len(p.called), k \in 1 .. Len(s) :
       ~Past(p, k) => p.called[j].id < s[k].id
  /\ Cardinality(Missed(s, p)) <= p.removed

\* A counter that was loaded is behind what happened by the count under way.
BusCountOK(c) ==
  c.op = "count" =>
    c.loaded + 1 <= IF c.counter = "sent" THEN real.queued ELSE real.refused
BusCountsOK ==
  /\ stats.sent <= real.queued /\ stats.dropped <= real.refused
  /\ real.queued = Len(busQueue) + stats.received
  /\ \A t \in BusThreads : BusCountOK(busCall[t])

BusInv == /\ BusTyped /\ Fresh(subs, next_sub) /\ WalkOK(subs, proc, next_sub) /\ BusCountsOK

\* The elements of a sequence can be counted.
LEMMA ToSetFinite ==
  ASSUME NEW S, NEW s \in Seq(S) PROVE IsFiniteSet(Bus!ToSet(s))
<1>1. IsFiniteSet(1 .. Len(s))
  BY FS_Interval
<1>2. s \in Surjection(1 .. Len(s), Bus!ToSet(s))
  BY DEF Surjection, Bus!ToSet
<1> QED
  BY <1>1, <1>2, FS_Surjection

\* What a delivery consists of.
LEMMA DeliveryFields ==
  ASSUME NEW p \in Delivery
  PROVE  /\ p.busy \in BOOLEAN /\ p.in_handler \in BOOLEAN /\ p.i \in Nat \ {0}
         /\ p.msg \in Message /\ p.start \subseteq Subscription /\ p.removed \in Nat
         /\ p.called \in Seq(Subscription) /\ Len(p.called) \in Nat
         /\ DOMAIN p.called = 1 .. Len(p.called)
         /\ \A k \in 1 .. Len(p.called) :
              p.called[k] \in Subscription /\ p.called[k].id \in Nat
         /\ \A u \in p.start : u.id \in Nat
<1>1. /\ p.busy \in BOOLEAN /\ p.in_handler \in BOOLEAN /\ p.i \in Nat \ {0}
      /\ p.msg \in Message /\ p.start \in SUBSET Subscription /\ p.removed \in Nat
      /\ p.called \in Seq(Subscription)
  BY DEF Delivery
<1>2. /\ Len(p.called) \in Nat /\ DOMAIN p.called = 1 .. Len(p.called)
      /\ \A k \in 1 .. Len(p.called) : p.called[k] \in Subscription
  BY <1>1
<1>3. \A u \in Subscription : u.id \in Nat
  BY DEF Subscription
<1> QED
  BY <1>1, <1>2, <1>3

\* The changes a step of the walk makes.
LEMMA DeliveryUpdates ==
  ASSUME NEW p \in Delivery, NEW i \in Nat \ {0}, NEW h \in BOOLEAN, NEW r \in Nat,
         NEW c \in Seq(Subscription)
  PROVE  /\ [p EXCEPT !.i = i] \in Delivery
         /\ [p EXCEPT !.in_handler = h, !.i = i] \in Delivery
         /\ [p EXCEPT !.in_handler = h, !.called = c] \in Delivery
         /\ [p EXCEPT !.removed = r] \in Delivery
BY DEF Delivery

\* Subscriptions of the array have identifiers.
LEMMA HasId ==
  ASSUME NEW s \in Seq(Subscription)
  PROVE  \A k \in 1 .. Len(s) : s[k] \in Subscription /\ s[k].id \in Nat
<1>1. \A u \in Subscription : u.id \in Nat
  BY DEF Subscription
<1>2. \A k \in 1 .. Len(s) : s[k] \in Subscription
  OBVIOUS
<1> QED
  BY <1>1, <1>2

\* The messages that are built.
LEMMA MessageTypes ==
  /\ Bus!NoMessage \in Message /\ Bus!Quiet \in Delivery
  /\ \A topic \in Topics : [Bus!NoMessage EXCEPT !.topic = topic] \in Message
  /\ \A to \in 1 .. MaxSubs : [Bus!NoMessage EXCEPT !.to = to] \in Message
<1>1. Bus!NoMessage \in Message
  BY DEF Bus!NoMessage, Message, Bus!Nobody
<1>2. <<>> \in Seq(Subscription)
  OBVIOUS
<1>3. Bus!Quiet \in Delivery
  BY <1>1, <1>2 DEF Bus!Quiet, Delivery
<1>4. ASSUME NEW topic \in Topics PROVE [Bus!NoMessage EXCEPT !.topic = topic] \in Message
  BY <1>1, Zenon DEF Message
<1>5. ASSUME NEW to \in 1 .. MaxSubs PROVE [Bus!NoMessage EXCEPT !.to = to] \in Message
  <2>1. to \in Int
    OBVIOUS
  <2> QED
    BY <1>1, <2>1, Zenon DEF Message
<1> QED
  BY <1>1, <1>3, <1>4, <1>5

\* What a removal leaves, position by position.
LEMMA Removed ==
  ASSUME NEW S, NEW s \in Seq(S), NEW i \in 1 .. Len(s)
  PROVE  /\ Bus!Compacted(i) = Bus!RemoveAt(subs, i)
         /\ Bus!RemoveAt(s, i) \in Seq(S) /\ Len(Bus!RemoveAt(s, i)) = Len(s) - 1
         /\ \A k \in 1 .. Len(s) - 1 :
              Bus!RemoveAt(s, i)[k] = IF k < i THEN s[k] ELSE s[k + 1]
<1> DEFINE a == SubSeq(s, 1, i - 1)
           b == SubSeq(s, i + 1, Len(s))
<1>1. Len(s) \in Nat /\ \A k \in 1 .. Len(s) : s[k] \in S
  OBVIOUS
<1>2. /\ a \in Seq(S) /\ Len(a) = i - 1
      /\ \A k \in 1 .. i - 1 : a[k] = s[k]
  <2>1. \A k \in 1 .. i - 1 : s[k] \in S
    BY <1>1
  <2> QED
    BY <1>1, <2>1, SubSeqProperties
<1>3. /\ b \in Seq(S) /\ Len(b) = Len(s) - i
      /\ \A k \in 1 .. Len(s) - i : b[k] = s[i + k]
  <2>1. \A k \in i + 1 .. Len(s) : s[k] \in S
    BY <1>1
  <2>2. /\ b \in Seq(S) /\ Len(b) = IF i + 1 <= Len(s) THEN Len(s) - (i + 1) + 1 ELSE 0
        /\ \A k \in 1 .. Len(s) - (i + 1) + 1 : b[k] = s[i + 1 + k - 1]
    BY <1>1, <2>1, SubSeqProperties
  <2> HIDE DEF b
  <2> QED
    BY <1>1, <2>2
<1> HIDE DEF a, b
<1>4. /\ a \o b \in Seq(S) /\ Len(a \o b) = Len(s) - 1
      /\ \A k \in 1 .. Len(s) - 1 :
           (a \o b)[k] = IF k <= i - 1 THEN a[k] ELSE b[k - (i - 1)]
  <2>1. /\ a \o b \in Seq(S) /\ Len(a \o b) = Len(a) + Len(b)
        /\ \A k \in 1 .. Len(a) + Len(b) :
             (a \o b)[k] = IF k <= Len(a) THEN a[k] ELSE b[k - Len(a)]
    BY <1>2, <1>3, ConcatProperties
  <2>2. Len(a) + Len(b) = Len(s) - 1
    BY <1>1, <1>2, <1>3
  <2> QED
    BY <1>2, <2>1, <2>2
<1>5. \A k \in 1 .. Len(s) - 1 : (a \o b)[k] = IF k < i THEN s[k] ELSE s[k + 1]
  <2> SUFFICES ASSUME NEW k \in 1 .. Len(s) - 1
               PROVE  (a \o b)[k] = IF k < i THEN s[k] ELSE s[k + 1]
    OBVIOUS
  <2>1. CASE k < i
    BY <1>2, <1>4, <2>1
  <2>2. CASE ~(k < i)
    <3>1. k - (i - 1) \in 1 .. Len(s) - i /\ i + (k - (i - 1)) = k + 1
      BY <1>1, <2>2
    <3>2. (a \o b)[k] = b[k - (i - 1)]
      BY <1>4, <2>2
    <3> QED
      BY <1>3, <2>2, <3>1, <3>2
  <2> QED
    BY <2>1, <2>2
<1>6. Bus!RemoveAt(s, i) = a \o b
  BY DEF Bus!RemoveAt, a, b
<1> QED
  BY <1>4, <1>5, <1>6 DEF Bus!Compacted

LEMMA SubsAppend ==
  ASSUME NEW S, NEW s \in Seq(S), NEW e \in S
  PROVE  /\ Append(s, e) \in Seq(S) /\ Len(Append(s, e)) = Len(s) + 1
         /\ Append(s, e)[Len(s) + 1] = e
         /\ \A k \in 1 .. Len(s) : Append(s, e)[k] = s[k]
OBVIOUS

\* The missed can be counted.
LEMMA MissedFinite ==
  ASSUME NEW s \in Seq(Subscription), NEW p
  PROVE  IsFiniteSet(Missed(s, p)) /\ Cardinality(Missed(s, p)) \in Nat
<1>1. Missed(s, p) \in SUBSET Bus!ToSet(s)
  BY DEF Missed, Bus!ToSet
<1> QED
  BY <1>1, ToSetFinite, FS_Subset, FS_CardinalityType

\* Who misses nobody more than before, or one more, missed no more than that.
LEMMA OneMore ==
  ASSUME NEW A, IsFiniteSet(A), NEW B, NEW x, B \subseteq A \cup {x}
  PROVE  Cardinality(B) <= Cardinality(A) + 1 /\ (B \subseteq A => Cardinality(B) <= Cardinality(A))
<1>1. IsFiniteSet(A \cup {x}) /\ Cardinality(A \cup {x}) <= Cardinality(A) + 1
      /\ Cardinality(A) \in Nat /\ Cardinality(A \cup {x}) \in Nat
  <2>1. Cardinality(A) \in Nat
    BY FS_CardinalityType
  <2>2. IsFiniteSet(A \cup {x}) /\
        Cardinality(A \cup {x}) = IF x \in A THEN Cardinality(A) ELSE Cardinality(A) + 1
    BY FS_AddElement
  <2> QED
    BY <2>1, <2>2
<1>2. /\ Cardinality(B) <= Cardinality(A \cup {x})
      /\ IsFiniteSet(B) /\ (B \subseteq A => Cardinality(B) <= Cardinality(A))
  BY <1>1, FS_Subset
<1>3. Cardinality(B) \in Nat
  BY <1>2, FS_CardinalityType
<1> QED
  BY <1>1, <1>2, <1>3

-----------------------------------------------------------------------------
(* The steps.                                                              *)

LEMMA SubscribeInv ==
  ASSUME BusInv, NEW t \in BusThreads, NEW f \in Topics \cup {"*"}, Bus!Subscribe(t, f)
  PROVE  BusInv'
<1> DEFINE new == [id |-> next_sub, filter |-> f]
<1>1. BusTyped /\ Fresh(subs, next_sub) /\ WalkOK(subs, proc, next_sub) /\ BusCountsOK
  BY DEF BusInv
<1>2. /\ subs' = Append(subs, new) /\ next_sub' = next_sub + 1
      /\ UNCHANGED <<busQueue, next_id, stats, real, busCall, proc>>
  BY DEF Bus!Subscribe
<1>3. new \in Subscription /\ new.id = next_sub
  BY <1>1 DEF BusTyped, Subscription
<1> HIDE DEF new
<1>4. /\ subs' \in Seq(Subscription) /\ Len(subs') = Len(subs) + 1
      /\ subs'[Len(subs) + 1] = new /\ Len(subs) \in Nat
      /\ \A k \in 1 .. Len(subs) : subs'[k] = subs[k]
  BY <1>1, <1>2, <1>3, SubsAppend DEF BusTyped
<1>5. BusTyped'
  BY <1>1, <1>2, <1>4 DEF BusTyped
<1>6. \A k \in 1 .. Len(subs') : k \in 1 .. Len(subs) \/ k = Len(subs) + 1
  BY <1>4
<1>7. \A k \in 1 .. Len(subs) : subs[k].id \in Nat
  BY <1>1, HasId DEF BusTyped
<1>8. next_sub \in Nat
  BY <1>1 DEF BusTyped
<1>9. Fresh(subs', next_sub')
  <2>1. \A k \in 1 .. Len(subs') : subs'[k].id < next_sub'
    BY <1>1, <1>2, <1>3, <1>4, <1>6, <1>7, <1>8 DEF Fresh
  <2>2. ASSUME NEW j \in 1 .. Len(subs'), NEW k \in 1 .. Len(subs'), j < k
        PROVE  subs'[j].id < subs'[k].id
    <3>1. j \in 1 .. Len(subs)
      BY <1>4, <2>2
    <3> QED
      BY <1>1, <1>3, <1>4, <1>6, <2>2, <3>1 DEF Fresh, Ordered
  <2> QED
    BY <2>1, <2>2 DEF Fresh, Ordered
<1>10. WalkOK(subs', proc', next_sub')
  <2>1. /\ Len(proc.called) \in Nat /\ proc.start \subseteq Subscription
        /\ \A j \in 1 .. Len(proc.called) : proc.called[j].id \in Nat
        /\ \A u \in proc.start : u.id \in Nat
    BY <1>1, DeliveryFields DEF BusTyped
  <2>2. /\ proc.in_handler => proc.busy
        /\ Fresh(proc.called, next_sub') /\ \A u \in proc.start : u.id < next_sub'
    BY <1>1, <1>2, <1>8, <2>1 DEF WalkOK, Fresh
  <2>3. \A j \in 1 .. Len(proc.called), k \in 1 .. Len(subs') :
          ~Past(proc, k) => proc.called[j].id < subs'[k].id
    BY <1>1, <1>3, <1>4, <1>6 DEF WalkOK, Fresh
  <2>4. Missed(subs', proc) \subseteq Missed(subs, proc)
    <3> SUFFICES ASSUME NEW u \in proc.start, NEW k \in 1 .. Len(subs'),
                        subs'[k] = u, Past(proc, k)
                 PROVE  k \in 1 .. Len(subs) /\ subs[k] = u
      BY DEF Missed
    <3>1. u.id < next_sub /\ u.id \in Nat
      BY <1>1, <2>1 DEF WalkOK
    <3>2. k # Len(subs) + 1
      BY <1>3, <1>4, <1>8, <3>1
    <3> QED
      BY <1>4, <1>6, <3>2
  <2>5. Cardinality(Missed(subs', proc)) <= Cardinality(Missed(subs, proc))
    BY <1>1, <2>4, MissedFinite, FS_Subset DEF BusTyped
  <2>6. /\ Cardinality(Missed(subs', proc)) \in Nat
        /\ Cardinality(Missed(subs, proc)) \in Nat /\ proc.removed \in Nat
    BY <1>1, <1>4, MissedFinite DEF BusTyped, Delivery
  <2>7. Cardinality(Missed(subs', proc)) <= proc.removed
    BY <1>1, <2>5, <2>6 DEF WalkOK
  <2> QED
    BY <1>2, <2>2, <2>3, <2>7 DEF WalkOK
<1>11. BusCountsOK'
  BY <1>1, <1>2 DEF BusCountsOK, BusCountOK
<1> QED
  BY <1>5, <1>9, <1>10, <1>11 DEF BusInv

LEMMA UnsubscribeInv ==
  ASSUME BusInv, NEW t \in BusThreads, NEW i \in 1 .. Len(subs), Bus!Unsubscribe(t, i)
  PROVE  BusInv'
<1>1. BusTyped /\ Fresh(subs, next_sub) /\ WalkOK(subs, proc, next_sub) /\ BusCountsOK
  BY DEF BusInv
<1>2. /\ subs' = Bus!RemoveAt(subs, i)
      /\ proc' = IF proc.busy THEN [proc EXCEPT !.removed = proc.removed + 1] ELSE proc
      /\ proc.busy => proc.in_handler
      /\ UNCHANGED <<next_sub, busQueue, next_id, stats, real, busCall>>
  BY DEF Bus!Unsubscribe, Bus!CanLock, Bus!Compacted
<1>3. subs \in Seq(Subscription) /\ Len(subs) \in Nat /\ proc \in Delivery
  BY <1>1 DEF BusTyped
<1>4. /\ subs' \in Seq(Subscription) /\ Len(subs') = Len(subs) - 1
      /\ \A k \in 1 .. Len(subs) - 1 : subs'[k] = IF k < i THEN subs[k] ELSE subs[k + 1]
  BY <1>2, <1>3, Removed
<1>5. /\ proc' \in Delivery
      /\ proc'.busy = proc.busy /\ proc'.in_handler = proc.in_handler
      /\ proc'.i = proc.i /\ proc'.msg = proc.msg /\ proc'.start = proc.start
      /\ proc'.called = proc.called
      /\ proc'.removed = IF proc.busy THEN proc.removed + 1 ELSE proc.removed
  BY <1>2, <1>3 DEF Delivery
<1>6. BusTyped'
  BY <1>1, <1>2, <1>4, <1>5 DEF BusTyped
<1>7. \A k \in 1 .. Len(subs) : subs[k].id \in Nat
  BY <1>3, HasId
\* Where the entry at position k was before.
<1> DEFINE old(k) == IF k < i THEN k ELSE k + 1
<1>8. /\ \A k \in 1 .. Len(subs') : old(k) \in 1 .. Len(subs) /\ subs'[k] = subs[old(k)]
                                    /\ k <= old(k) /\ old(k) <= k + 1
      /\ \A j, k \in 1 .. Len(subs') : j < k => old(j) < old(k)
  BY <1>3, <1>4
<1> HIDE DEF old
<1>9. Fresh(subs', next_sub')
  BY <1>1, <1>2, <1>8 DEF Fresh, Ordered
<1>10. \A k : Past(proc', k) <=> Past(proc, k)
  BY <1>5 DEF Past
<1>11. \A k \in 1 .. Len(subs') : ~Past(proc, k) => ~Past(proc, old(k))
  <2> SUFFICES ASSUME NEW k \in 1 .. Len(subs'), ~Past(proc, k), Past(proc, old(k))
               PROVE  FALSE
    OBVIOUS
  <2>1. old(k) \in Int /\ k \in Int /\ proc.i \in Int /\ k <= old(k)
    BY <1>3, <1>8 DEF Delivery
  <2> QED
    BY <2>1 DEF Past
<1>12. \A j \in 1 .. Len(proc'.called), k \in 1 .. Len(subs') :
         ~Past(proc', k) => proc'.called[j].id < subs'[k].id
  BY <1>1, <1>5, <1>8, <1>10, <1>11 DEF WalkOK
<1>13. Missed(subs', proc') \subseteq Missed(subs, proc) \cup {subs[proc.i + 1]}
       /\ (~proc.busy => Missed(subs', proc') \subseteq Missed(subs, proc))
  <2> SUFFICES ASSUME NEW u \in Missed(subs', proc')
               PROVE  u \in Missed(subs, proc) \/ (proc.busy /\ u = subs[proc.i + 1])
    OBVIOUS
  <2>1. /\ u \in proc.start /\ Bus!Matches(proc.msg, u) /\ u \notin Bus!ToSet(proc.called)
        /\ \E k \in 1 .. Len(subs') : subs'[k] = u /\ Past(proc, k)
    BY <1>5, <1>10 DEF Missed
  <2>2. PICK k \in 1 .. Len(subs') : subs'[k] = u /\ Past(proc, k)
    BY <2>1
  <2>3. old(k) \in 1 .. Len(subs) /\ subs[old(k)] = u
    BY <1>8, <2>2
  <2>4. Past(proc, old(k)) \/ (proc.busy /\ old(k) = proc.i + 1)
    <3>1. proc.i \in Int /\ k \in Int /\ (old(k) = k \/ old(k) = k + 1)
      BY <1>3, <1>8 DEF Delivery
    <3>2. proc.busy => proc.in_handler
      BY <1>2
    <3>3. CASE old(k) = k
      BY <2>2, <3>3
    <3>4. CASE old(k) = k + 1 /\ proc.busy
      <4>1. k < proc.i \/ k = proc.i
        BY <2>2, <3>4 DEF Past
      <4>2. k + 1 < proc.i \/ k + 1 = proc.i \/ k = proc.i
        BY <3>1, <4>1
      <4> QED
        BY <3>2, <3>4, <4>2 DEF Past
    <3>5. CASE ~proc.busy
      BY <3>5 DEF Past
    <3> QED
      BY <3>1, <3>3, <3>4, <3>5
  <2> QED
    BY <2>1, <2>3, <2>4 DEF Missed
<1>14. Cardinality(Missed(subs', proc')) <= proc'.removed
  <2>1. /\ IsFiniteSet(Missed(subs, proc)) /\ Cardinality(Missed(subs, proc)) \in Nat
        /\ Cardinality(Missed(subs', proc')) \in Nat /\ proc.removed \in Nat
    BY <1>3, <1>4, MissedFinite DEF Delivery
  <2>2. /\ Cardinality(Missed(subs', proc')) <= Cardinality(Missed(subs, proc)) + 1
        /\ ~proc.busy =>
             Cardinality(Missed(subs', proc')) <= Cardinality(Missed(subs, proc))
    BY <1>13, <2>1, OneMore
  <2>3. Cardinality(Missed(subs, proc)) <= proc.removed
    BY <1>1 DEF WalkOK
  <2> QED
    BY <1>5, <2>1, <2>2, <2>3
<1>15. WalkOK(subs', proc', next_sub')
  BY <1>1, <1>2, <1>5, <1>12, <1>14 DEF WalkOK
<1>16. BusCountsOK'
  BY <1>1, <1>2 DEF BusCountsOK, BusCountOK
<1> QED
  BY <1>6, <1>9, <1>15, <1>16 DEF BusInv

\* The three steps of a publisher touch the counters and the queue only.
LEMMA PublishInv ==
  ASSUME BusInv, NEW t \in BusThreads,
         \/ \E m \in Message : Bus!Build(t, m)
         \/ Bus!StoreId(t) \/ Bus!Put(t) \/ Bus!Count(t)
  PROVE  BusInv'
<1>1. BusTyped /\ Fresh(subs, next_sub) /\ WalkOK(subs, proc, next_sub) /\ BusCountsOK
  BY DEF BusInv
<1>2. UNCHANGED <<subs, next_sub, proc>>
  BY DEF Bus!Build, Bus!StoreId, Bus!Put, Bus!Count
<1>3. Fresh(subs', next_sub') /\ WalkOK(subs', proc', next_sub')
  BY <1>1, <1>2
<1>4. ASSUME NEW m \in Message, Bus!Build(t, m) PROVE BusTyped' /\ BusCountsOK'
  <2>1. /\ UNCHANGED <<busQueue, next_id, stats>>
        /\ real' = [real EXCEPT !.built = real.built + 1]
        /\ busCall' = [busCall EXCEPT ![t] = [op |-> "id", msg |-> m, loaded |-> next_id]]
    BY <1>4 DEF Bus!Build
  <2>2. [op |-> "id", msg |-> m, loaded |-> next_id] \in BusCall
    BY <1>1, <1>4 DEF BusCall, BusTyped
  <2>3. real' \in [built : Nat, queued : Nat, refused : Nat]
        /\ real'.queued = real.queued /\ real'.refused = real.refused
    BY <1>1, <2>1, SMTT(30) DEF BusTyped
  <2>4. BusTyped'
    BY <1>1, <1>2, <2>1, <2>2, <2>3 DEF BusTyped
  <2>5. \A u \in BusThreads : BusCountOK(busCall[u])'
    BY <1>1, <2>1, <2>3 DEF BusCountsOK, BusCountOK, BusTyped
  <2> QED
    BY <1>1, <2>1, <2>3, <2>4, <2>5 DEF BusCountsOK
<1>5. ASSUME Bus!StoreId(t) PROVE BusTyped' /\ BusCountsOK'
  <2> DEFINE c == [op |-> "put", msg |-> [busCall[t].msg EXCEPT !.id = busCall[t].loaded]]
  <2>1. /\ UNCHANGED <<busQueue, stats, real>> /\ next_id' = busCall[t].loaded + 1
        /\ busCall[t].op = "id" /\ busCall' = [busCall EXCEPT ![t] = c]
    BY <1>5 DEF Bus!StoreId
  <2>2. busCall[t].msg \in Message /\ busCall[t].loaded \in Int
    BY <1>1, <2>1 DEF BusTyped, BusCall, Bus!Idle
  <2>3. c \in BusCall
    BY <2>2, Zenon DEF BusCall, Message
  <2> HIDE DEF c
  <2>4. BusTyped'
    BY <1>1, <1>2, <2>1, <2>2, <2>3 DEF BusTyped
  <2>5. \A u \in BusThreads : BusCountOK(busCall[u])'
    BY <1>1, <2>1 DEF BusCountsOK, BusCountOK, BusTyped, c
  <2> QED
    BY <1>1, <2>1, <2>4, <2>5 DEF BusCountsOK
<1>6. ASSUME Bus!Put(t) PROVE BusTyped' /\ BusCountsOK'
  <2> DEFINE full == Len(busQueue) = QueueSize
             counter == IF full THEN "dropped" ELSE "sent"
             c == [op |-> "count", counter |-> counter, loaded |-> stats[counter]]
  <2>1. /\ busCall[t].op = "put" /\ UNCHANGED <<next_id, stats>>
        /\ busQueue' = (IF full THEN busQueue ELSE Append(busQueue, busCall[t].msg))
        /\ real' = (IF full THEN [real EXCEPT !.refused = real.refused + 1]
                            ELSE [real EXCEPT !.queued = real.queued + 1])
        /\ busCall' = [busCall EXCEPT ![t] = c]
    <3>1. CASE full
      BY <1>6, <3>1 DEF Bus!Put
    <3>2. CASE ~full
      BY <1>6, <3>2 DEF Bus!Put
    <3> QED
      BY <3>1, <3>2
  <2>2. busCall[t].msg \in Message
    <3>1. busCall[t] \in BusCall /\ busCall[t].op = "put"
      BY <1>1, <2>1 DEF BusTyped
    <3> QED
      BY <3>1 DEF BusCall, Bus!Idle
  <2>3. /\ real.queued \in Nat /\ real.refused \in Nat
        /\ stats.sent \in Nat /\ stats.dropped \in Nat /\ stats.received \in Nat
    BY <1>1 DEF BusTyped
  <2>4. c \in BusCall /\ c.op = "count" /\ c.counter = counter
        /\ c.loaded = IF full THEN stats.dropped ELSE stats.sent
    BY <2>3 DEF BusCall
  <2>5. /\ real' \in [built : Nat, queued : Nat, refused : Nat]
        /\ real'.queued = (IF full THEN real.queued ELSE real.queued + 1)
        /\ real'.refused = (IF full THEN real.refused + 1 ELSE real.refused)
    <3> HIDE DEF full
    <3>1. real.refused + 1 \in Nat /\ real.queued + 1 \in Nat
      BY <2>3
    <3>2. real \in [built : Nat, queued : Nat, refused : Nat]
      BY <1>1 DEF BusTyped
    <3>3. CASE full
      <4>1. real' = [real EXCEPT !.refused = real.refused + 1]
        BY <2>1, <3>3
      <4> QED
        BY <3>1, <3>2, <3>3, <4>1
    <3>4. CASE ~full
      <4>1. real' = [real EXCEPT !.queued = real.queued + 1]
        BY <2>1, <3>4
      <4> QED
        BY <3>1, <3>2, <3>4, <4>1
    <3> QED
      BY <3>3, <3>4
  <2>6. busQueue' \in Seq(Message) /\ Len(busQueue') = (IF full THEN Len(busQueue) ELSE Len(busQueue) + 1)
    BY <1>1, <2>1, <2>2, SubsAppend DEF BusTyped
  <2> HIDE DEF full, c
  <2>7. BusTyped'
    BY <1>1, <1>2, <2>1, <2>4, <2>5, <2>6 DEF BusTyped
  <2>8. ASSUME NEW u \in BusThreads PROVE BusCountOK(busCall[u])'
    <3>1. CASE u = t
      <4>1. busCall'[u] = c
        BY <1>1, <2>1, <3>1 DEF BusTyped
      <4>2. c.loaded + 1 <= IF c.counter = "sent" THEN real'.queued ELSE real'.refused
        BY <1>1, <2>3, <2>4, <2>5 DEF BusCountsOK
      <4> QED
        BY <4>1, <4>2 DEF BusCountOK
    <3>2. CASE u # t
      <4>1. busCall'[u] = busCall[u] /\ BusCountOK(busCall[u]) /\ busCall[u] \in BusCall
        BY <1>1, <2>1, <3>2 DEF BusTyped, BusCountsOK
      <4>2. busCall[u].op = "count" => busCall[u].loaded \in Int
        BY <4>1 DEF BusCall, Bus!Idle
      <4> QED
        BY <2>3, <2>5, <4>1, <4>2 DEF BusCountOK
    <3> QED
      BY <3>1, <3>2
  <2>9. /\ stats'.sent <= real'.queued /\ stats'.dropped <= real'.refused
        /\ real'.queued = Len(busQueue') + stats'.received
    <3>1. /\ Len(busQueue) \in Nat /\ stats' = stats
          /\ stats.sent <= real.queued /\ stats.dropped <= real.refused
          /\ real.queued = Len(busQueue) + stats.received
      BY <1>1, <2>1 DEF BusTyped, BusCountsOK
    <3>2. CASE full
      BY <2>3, <2>5, <2>6, <3>1, <3>2
    <3>3. CASE ~full
      <4>1. /\ real'.queued = real.queued + 1 /\ real'.refused = real.refused
            /\ Len(busQueue') = Len(busQueue) + 1
        BY <2>5, <2>6, <3>3
      <4>2. stats.sent <= real.queued + 1
        BY <2>3, <3>1
      <4>3. /\ stats'.sent = stats.sent /\ stats'.dropped = stats.dropped
            /\ stats'.received = stats.received
        BY <3>1
      <4>4. real.queued + 1 = (Len(busQueue) + 1) + stats.received
        BY <2>3, <3>1
      <4>5. stats'.sent <= real'.queued /\ stats'.dropped <= real'.refused
        BY <3>1, <4>1, <4>2, <4>3
      <4>6. real'.queued = Len(busQueue') + stats'.received
        BY <4>1, <4>3, <4>4
      <4> QED
        BY <4>5, <4>6
    <3> QED
      BY <3>2, <3>3
  <2> QED
    BY <2>7, <2>8, <2>9 DEF BusCountsOK
<1>7. ASSUME Bus!Count(t) PROVE BusTyped' /\ BusCountsOK'
  <2>1. /\ busCall[t].op = "count" /\ UNCHANGED <<busQueue, next_id, real>>
        /\ stats' = [stats EXCEPT ![busCall[t].counter] = busCall[t].loaded + 1]
        /\ busCall' = [busCall EXCEPT ![t] = Bus!Idle]
    BY <1>7 DEF Bus!Count, Bus!Counted
  <2>2. /\ busCall[t].counter \in {"sent", "dropped"} /\ busCall[t].loaded \in Nat
        /\ busCall[t].loaded + 1 <=
             IF busCall[t].counter = "sent" THEN real.queued ELSE real.refused
    <3>1. busCall[t] \in BusCall /\ BusCountOK(busCall[t])
      BY <1>1 DEF BusTyped, BusCountsOK
    <3> QED
      BY <2>1, <3>1 DEF BusCall, Bus!Idle, BusCountOK
  <2>3. /\ stats.sent \in Nat /\ stats.dropped \in Nat /\ stats.received \in Nat
        /\ real.queued \in Nat /\ real.refused \in Nat
    BY <1>1 DEF BusTyped
  <2>4. /\ stats' \in [sent : Nat, received : Nat, dropped : Nat]
        /\ stats'.received = stats.received
        /\ stats'.sent <= real.queued /\ stats'.dropped <= real.refused
    <3> DEFINE n == busCall[t].loaded + 1
    <3>1. n \in Nat /\ stats' = [stats EXCEPT ![busCall[t].counter] = n]
      BY <2>1, <2>2
    <3> HIDE DEF n
    <3>2. CASE busCall[t].counter = "sent"
      <4>1. stats' = [stats EXCEPT !.sent = n] /\ n <= real.queued
        BY <2>2, <3>1, <3>2 DEF n
      <4> QED
        BY <1>1, <2>3, <3>1, <4>1 DEF BusTyped, BusCountsOK
    <3>3. CASE busCall[t].counter = "dropped"
      <4>1. stats' = [stats EXCEPT !.dropped = n] /\ n <= real.refused
        BY <2>2, <3>1, <3>3 DEF n
      <4> QED
        BY <1>1, <2>3, <3>1, <4>1 DEF BusTyped, BusCountsOK
    <3> QED
      BY <2>2, <3>2, <3>3
  <2>5. BusTyped'
    BY <1>1, <1>2, <2>1, <2>4 DEF BusTyped, BusCall
  <2>6. \A u \in BusThreads : BusCountOK(busCall[u])'
    BY <1>1, <2>1 DEF BusCountsOK, BusCountOK, BusTyped, Bus!Idle
  <2> QED
    BY <1>1, <2>1, <2>4, <2>5, <2>6 DEF BusCountsOK
<1> QED
  BY <1>3, <1>4, <1>5, <1>6, <1>7 DEF BusInv

\* msg_bus_process() takes a message: nobody is passed yet.
LEMMA GetInv ==
  ASSUME BusInv, Bus!Get PROVE BusInv'
<1>1. BusTyped /\ Fresh(subs, next_sub) /\ WalkOK(subs, proc, next_sub) /\ BusCountsOK
  BY DEF BusInv
<1>2. /\ busQueue # <<>> /\ busQueue' = Tail(busQueue)
      /\ stats' = [stats EXCEPT !.received = stats.received + 1]
      /\ proc' = [Bus!Quiet EXCEPT !.busy = TRUE, !.msg = Head(busQueue), !.start = Bus!ToSet(subs)]
      /\ UNCHANGED <<subs, next_sub, next_id, real, busCall>>
  BY DEF Bus!Get
<1>3. /\ busQueue' \in Seq(Message) /\ Len(busQueue') = Len(busQueue) - 1
      /\ Head(busQueue) \in Message /\ Len(busQueue) \in Nat
  BY <1>1, <1>2, HeadTailProperties DEF BusTyped
<1>4. /\ Bus!ToSet(subs) \subseteq Subscription
      /\ \A u \in Bus!ToSet(subs) : u.id < next_sub
  BY <1>1 DEF BusTyped, Bus!ToSet, Fresh
<1>5. /\ proc' \in Delivery /\ proc'.called = <<>> /\ proc'.busy /\ ~proc'.in_handler
      /\ proc'.i = 1 /\ proc'.start = Bus!ToSet(subs) /\ proc'.removed = 0
  <2>1. proc' = [busy |-> TRUE, in_handler |-> FALSE, i |-> 1, msg |-> Head(busQueue),
                 start |-> Bus!ToSet(subs), called |-> <<>>, removed |-> 0]
    BY <1>2 DEF Bus!Quiet
  <2>2. <<>> \in Seq(Subscription)
    OBVIOUS
  <2> QED
    BY <1>3, <1>4, <2>1, <2>2 DEF Delivery
<1>6. BusTyped'
  <2>1. stats.received + 1 \in Nat /\ stats \in [sent : Nat, received : Nat, dropped : Nat]
    BY <1>1 DEF BusTyped
  <2>2. stats' \in [sent : Nat, received : Nat, dropped : Nat]
    BY <1>2, <2>1
  <2> QED
    BY <1>1, <1>2, <1>3, <1>5, <2>2 DEF BusTyped
<1>7. WalkOK(subs', proc', next_sub')
  <2>1. Missed(subs', proc') = {}
    BY <1>5 DEF Missed, Past
  <2>2. Len(proc'.called) = 0 /\ \A k \in 1 .. Len(proc'.called) : FALSE
    BY <1>5
  <2>3. Fresh(proc'.called, next_sub')
    BY <2>2 DEF Fresh, Ordered
  <2>4. Cardinality(Missed(subs', proc')) <= proc'.removed
    BY <1>5, <2>1, FS_EmptySet
  <2> QED
    BY <1>2, <1>4, <1>5, <2>2, <2>3, <2>4 DEF WalkOK
<1>8. BusCountsOK'
  <2>1. /\ stats'.received = stats.received + 1 /\ stats'.sent = stats.sent
        /\ stats'.dropped = stats.dropped /\ stats.received \in Nat /\ real.queued \in Nat
    BY <1>1, <1>2 DEF BusTyped
  <2>2. \A t \in BusThreads : BusCountOK(busCall[t])'
    BY <1>1, <1>2 DEF BusCountsOK, BusCountOK
  <2> QED
    BY <1>1, <1>2, <1>3, <2>1, <2>2 DEF BusCountsOK
<1> QED
  BY <1>1, <1>2, <1>6, <1>7, <1>8 DEF BusInv

\* The steps of the walk: a position passed is one that was called or had not
\* to be.
LEMMA WalkInv ==
  ASSUME BusInv, Bus!Skip \/ Bus!CallHandler \/ Bus!HandlerReturns \/ Bus!Delivered
  PROVE  BusInv'
<1>1. BusTyped /\ Fresh(subs, next_sub) /\ WalkOK(subs, proc, next_sub) /\ BusCountsOK
  BY DEF BusInv
<1>2. UNCHANGED <<subs, next_sub, busQueue, next_id, stats, real, busCall>>
  BY DEF Bus!Skip, Bus!CallHandler, Bus!HandlerReturns, Bus!Delivered
<1>3. subs \in Seq(Subscription) /\ Len(subs) \in Nat /\ proc \in Delivery
  BY <1>1 DEF BusTyped
<1>4. \A k \in 1 .. Len(subs) : subs[k] \in Subscription /\ subs[k].id \in Nat
  BY <1>3, HasId
\* What each step must establish.
<1> DEFINE Kept(p) == p \in Delivery /\ WalkOK(subs, p, next_sub)
\* Nobody is missed who was not before: enough for all but the call.
<1>5. ASSUME NEW p \in Delivery, p.called = proc.called, p.start = proc.start,
             p.msg = proc.msg, p.removed = proc.removed, p.in_handler => p.busy,
             \A k \in 1 .. Len(subs) : Past(proc, k) => Past(p, k),
             \A k \in 1 .. Len(subs) : Past(p, k) =>
               Past(proc, k) \/ ~Bus!Matches(proc.msg, subs[k])
      PROVE  Kept(p)
  <2>1. Missed(subs, p) \subseteq Missed(subs, proc)
    BY <1>5 DEF Missed
  <2>2. /\ IsFiniteSet(Missed(subs, proc)) /\ Cardinality(Missed(subs, proc)) \in Nat
        /\ Cardinality(Missed(subs, p)) \in Nat /\ proc.removed \in Nat
    BY <1>3, MissedFinite DEF Delivery
  <2>3. Cardinality(Missed(subs, p)) <= p.removed
    <3>1. Cardinality(Missed(subs, p)) <= Cardinality(Missed(subs, proc))
      BY <2>1, <2>2, FS_Subset
    <3>2. Cardinality(Missed(subs, proc)) <= p.removed
      BY <1>1, <1>5 DEF WalkOK
    <3> QED
      BY <1>5, <2>2, <3>1, <3>2
  <2> QED
    BY <1>1, <1>5, <2>3 DEF WalkOK
<1>6. ASSUME Bus!Skip PROVE Kept(proc')
  <2>1. /\ proc' = [proc EXCEPT !.i = proc.i + 1] /\ proc.busy /\ ~proc.in_handler
        /\ ~Bus!Matches(proc.msg, subs[proc.i])
    BY <1>6 DEF Bus!Skip, Bus!Walking
  <2>2. /\ proc' \in Delivery /\ proc'.i = proc.i + 1 /\ proc.i \in Nat
        /\ proc'.busy = proc.busy /\ proc'.in_handler = proc.in_handler
        /\ proc'.msg = proc.msg /\ proc'.start = proc.start
        /\ proc'.called = proc.called /\ proc'.removed = proc.removed
    <3>1. proc.i \in Nat /\ proc.i + 1 \in Nat \ {0}
      BY <1>3, DeliveryFields
    <3>2. proc' \in Delivery
      BY <1>3, <2>1, <3>1, DeliveryUpdates, Zenon
    <3> QED
      BY <1>3, <2>1, <3>1, <3>2 DEF Delivery
  <2>3. \A k \in 1 .. Len(subs) : Past(proc, k) => Past(proc', k)
    BY <2>1, <2>2 DEF Past
  <2>4. \A k \in 1 .. Len(subs) : Past(proc', k) => Past(proc, k) \/ k = proc.i
    BY <2>1, <2>2 DEF Past
  <2>5. proc'.in_handler => proc'.busy
    BY <2>1, <2>2
  <2>6. \A k \in 1 .. Len(subs) : Past(proc', k) =>
          Past(proc, k) \/ ~Bus!Matches(proc.msg, subs[k])
    BY <2>1, <2>4
  <2> QED
    BY <1>5, <2>2, <2>3, <2>5, <2>6
<1>7. ASSUME Bus!CallHandler PROVE Kept(proc')
  <2> DEFINE s == subs[proc.i]
  <2>1. /\ proc' = [proc EXCEPT !.in_handler = TRUE, !.called = Append(proc.called, s)]
        /\ proc.busy /\ ~proc.in_handler /\ proc.i <= Len(subs)
    BY <1>7 DEF Bus!CallHandler, Bus!Walking
  <2>2. proc.i \in 1 .. Len(subs) /\ s \in Subscription /\ s.id < next_sub
    BY <1>1, <1>3, <1>4, <2>1 DEF Delivery, Fresh
  <2> HIDE DEF s
  <2>3. /\ Append(proc.called, s) \in Seq(Subscription)
        /\ Len(Append(proc.called, s)) = Len(proc.called) + 1
        /\ Append(proc.called, s)[Len(proc.called) + 1] = s
        /\ \A k \in 1 .. Len(proc.called) : Append(proc.called, s)[k] = proc.called[k]
        /\ Len(proc.called) \in Nat
    BY <1>3, <2>2, SubsAppend DEF Delivery
  <2> DEFINE c == Append(proc.called, s)
  <2> HIDE DEF c
  <2>4. /\ proc' \in Delivery /\ proc'.i = proc.i /\ proc'.busy /\ proc'.in_handler
        /\ proc'.msg = proc.msg /\ proc'.start = proc.start
        /\ proc'.called = c /\ proc'.removed = proc.removed
    BY <1>3, <2>1, <2>3, Zenon DEF Delivery, c
  <2>5. /\ Len(c) = Len(proc.called) + 1 /\ c[Len(proc.called) + 1] = s
        /\ \A k \in 1 .. Len(proc.called) : c[k] = proc.called[k]
        /\ \A k \in 1 .. Len(c) : k \in 1 .. Len(proc.called) \/ k = Len(proc.called) + 1
    BY <2>3 DEF c
  <2>6. \A k \in 1 .. Len(proc.called) :
          proc.called[k].id \in Nat /\ proc.called[k].id < s.id
          /\ proc.called[k].id < next_sub
    <3>1. ~Past(proc, proc.i)
      BY <1>3, <2>1 DEF Past, Delivery
    <3>2. \A k \in 1 .. Len(proc.called) : proc.called[k].id \in Nat
      BY <1>3, DeliveryFields
    <3> QED
      BY <1>1, <2>2, <3>1, <3>2 DEF WalkOK, Fresh, s
  <2>7. Fresh(c, next_sub)
    <3>1. ASSUME NEW j \in 1 .. Len(c), NEW k \in 1 .. Len(c), j < k
          PROVE  c[j].id < c[k].id
      <4>1. j \in 1 .. Len(proc.called)
        BY <2>3, <2>5, <3>1
      <4>2. Ordered(proc.called)
        BY <1>1 DEF WalkOK, Fresh
      <4>3. CASE k \in 1 .. Len(proc.called)
        BY <2>5, <3>1, <4>1, <4>2, <4>3 DEF Ordered
      <4>4. CASE k = Len(proc.called) + 1
        BY <2>5, <2>6, <4>1, <4>4
      <4> QED
        BY <2>5, <4>3, <4>4
    <3>2. \A k \in 1 .. Len(c) : c[k].id < next_sub
      BY <2>2, <2>5, <2>6
    <3> QED
      BY <3>1, <3>2 DEF Fresh, Ordered
  <2>8. ASSUME NEW j \in 1 .. Len(c), NEW k \in 1 .. Len(subs), ~Past(proc', k)
        PROVE  c[j].id < subs[k].id
    <3>1. proc.i < k /\ ~Past(proc, k)
      BY <1>3, <2>1, <2>4, <2>8 DEF Past, Delivery
    <3>2. s.id < subs[k].id
      BY <1>1, <2>2, <3>1 DEF Fresh, Ordered, s
    <3>3. CASE j \in 1 .. Len(proc.called)
      BY <1>1, <2>5, <3>1, <3>3 DEF WalkOK
    <3> QED
      BY <2>5, <3>2, <3>3
  <2>9. Missed(subs, proc') \subseteq Missed(subs, proc)
    <3> SUFFICES ASSUME NEW u \in Missed(subs, proc') PROVE u \in Missed(subs, proc)
      OBVIOUS
    <3>1. /\ u \in proc.start /\ Bus!Matches(proc.msg, u) /\ u \notin Bus!ToSet(c)
          /\ \E k \in 1 .. Len(subs) : subs[k] = u /\ Past(proc', k)
      BY <2>4 DEF Missed
    <3>2. s \in Bus!ToSet(c) /\ Bus!ToSet(proc.called) \subseteq Bus!ToSet(c)
      <4>1. c \in Seq(Subscription) /\ proc.called \in Seq(Subscription)
        BY <1>3, <2>3 DEF Delivery, c
      <4>2. DOMAIN c = 1 .. Len(c) /\ DOMAIN proc.called = 1 .. Len(proc.called)
        BY <4>1
      <4>3. Len(proc.called) + 1 \in 1 .. Len(c)
            /\ \A k \in 1 .. Len(proc.called) : k \in 1 .. Len(c)
        BY <2>3, <2>5
      <4> QED
        BY <2>5, <4>2, <4>3 DEF Bus!ToSet
    <3>3. PICK k \in 1 .. Len(subs) : subs[k] = u /\ Past(proc', k)
      BY <3>1
    <3>4. k # proc.i
      BY <3>1, <3>2, <3>3 DEF s
    <3>5. Past(proc, k)
      BY <1>3, <2>1, <2>4, <3>3, <3>4 DEF Past, Delivery
    <3> QED
      BY <3>1, <3>2, <3>3, <3>5 DEF Missed
  <2>10. Cardinality(Missed(subs, proc')) <= proc'.removed
    <3>1. /\ IsFiniteSet(Missed(subs, proc)) /\ Cardinality(Missed(subs, proc)) \in Nat
          /\ Cardinality(Missed(subs, proc')) \in Nat /\ proc.removed \in Nat
      BY <1>3, MissedFinite DEF Delivery
    <3>2. Cardinality(Missed(subs, proc')) <= Cardinality(Missed(subs, proc))
      BY <2>9, <3>1, FS_Subset
    <3>3. Cardinality(Missed(subs, proc)) <= proc.removed
      BY <1>1 DEF WalkOK
    <3> QED
      BY <2>4, <3>1, <3>2, <3>3
  <2>11. \A u \in proc'.start : u.id < next_sub
    BY <1>1, <2>4 DEF WalkOK
  <2> QED
    BY <2>4, <2>7, <2>8, <2>10, <2>11 DEF WalkOK
<1>8. ASSUME Bus!HandlerReturns PROVE Kept(proc')
  <2>1. /\ proc' = [proc EXCEPT !.in_handler = FALSE, !.i = proc.i + 1]
        /\ proc.in_handler /\ proc.busy
    BY <1>1, <1>8 DEF Bus!HandlerReturns, WalkOK
  <2>2. /\ proc' \in Delivery /\ proc'.i = proc.i + 1 /\ proc.i \in Nat
        /\ proc'.busy = proc.busy /\ ~proc'.in_handler
        /\ proc'.msg = proc.msg /\ proc'.start = proc.start
        /\ proc'.called = proc.called /\ proc'.removed = proc.removed
    <3>1. proc.i \in Nat /\ proc.i + 1 \in Nat \ {0}
      BY <1>3, DeliveryFields
    <3>2. proc' \in Delivery
      BY <1>3, <2>1, <3>1, DeliveryUpdates, Zenon
    <3> QED
      BY <1>3, <2>1, <3>1, <3>2 DEF Delivery
  <2>3. \A k \in 1 .. Len(subs) : Past(proc, k) <=> Past(proc', k)
    BY <2>1, <2>2 DEF Past
  <2> QED
    BY <1>5, <2>2, <2>3
<1>9. ASSUME Bus!Delivered PROVE Kept(proc')
  <2>1. /\ proc' = [Bus!Quiet EXCEPT !.start = proc.start, !.called = proc.called,
                                 !.removed = proc.removed, !.msg = proc.msg]
        /\ proc.busy /\ ~proc.in_handler /\ proc.i > Len(subs)
    BY <1>9 DEF Bus!Delivered, Bus!AtEnd
  <2>2. /\ proc' \in Delivery /\ ~proc'.busy /\ ~proc'.in_handler
        /\ proc'.msg = proc.msg /\ proc'.start = proc.start
        /\ proc'.called = proc.called /\ proc'.removed = proc.removed
    <3>1. proc' = [busy |-> FALSE, in_handler |-> FALSE, i |-> 1, msg |-> proc.msg,
                   start |-> proc.start, called |-> proc.called, removed |-> proc.removed]
      BY <2>1 DEF Bus!Quiet
    <3> QED
      BY <1>3, <3>1, DeliveryFields DEF Delivery
  <2>3. \A k \in 1 .. Len(subs) : Past(proc, k) /\ Past(proc', k)
    BY <1>3, <2>1, <2>2 DEF Past, Delivery
  <2> QED
    BY <1>5, <2>2, <2>3
<1>13. Kept(proc')
  BY <1>6, <1>7, <1>8, <1>9
<1>10. BusTyped'
  BY <1>1, <1>2, <1>13 DEF BusTyped
<1>11. WalkOK(subs', proc', next_sub')
  BY <1>2, <1>13
<1>12. BusCountsOK'
  BY <1>1, <1>2 DEF BusCountsOK, BusCountOK
<1> QED
  BY <1>1, <1>2, <1>10, <1>11, <1>12 DEF BusInv

\* Nothing is subscribed, queued or counted at first.
LEMMA BusInit == Bus!Init => BusInv
<1> SUFFICES ASSUME Bus!Init PROVE BusInv
  OBVIOUS
<1>1. Bus!Quiet \in Delivery
  BY MessageTypes
<1>2. /\ subs = <<>> /\ busQueue = <<>> /\ Len(subs) = 0 /\ Len(busQueue) = 0
      /\ next_sub = 1 /\ next_id = 1 /\ proc = Bus!Quiet
      /\ stats = [sent |-> 0, received |-> 0, dropped |-> 0]
      /\ real = [built |-> 0, queued |-> 0, refused |-> 0]
      /\ busCall = [t \in BusThreads |-> Bus!Idle]
  BY DEF Bus!Init
<1>3. BusTyped
  BY <1>1, <1>2 DEF BusTyped, BusCall
<1>4. Fresh(subs, next_sub)
  BY <1>2 DEF Fresh, Ordered
<1>5. WalkOK(subs, proc, next_sub)
  <2>1. /\ Bus!Quiet.called = <<>> /\ Len(Bus!Quiet.called) = 0 /\ Bus!Quiet.start = {}
        /\ ~Bus!Quiet.in_handler /\ Bus!Quiet.removed = 0
    BY DEF Bus!Quiet
  <2>2. Missed(subs, Bus!Quiet) = {} /\ \A k \in 1 .. Len(Bus!Quiet.called) : FALSE
    BY <2>1 DEF Missed
  <2>3. Fresh(Bus!Quiet.called, next_sub)
    BY <2>2 DEF Fresh, Ordered
  <2>4. Cardinality(Missed(subs, Bus!Quiet)) <= Bus!Quiet.removed
    BY <2>1, <2>2, FS_EmptySet
  <2> QED
    BY <1>2, <2>1, <2>2, <2>3, <2>4 DEF WalkOK
<1>6. BusCountsOK
  BY <1>2 DEF BusCountsOK, BusCountOK, Bus!Idle
<1> QED
  BY <1>3, <1>4, <1>5, <1>6 DEF BusInv

LEMMA BusNext == BusInv /\ [Bus!Next]_(Bus!vars) => BusInv'
<1> SUFFICES ASSUME BusInv, [Bus!Next]_(Bus!vars) PROVE BusInv'
  OBVIOUS
<1>1. /\ \A topic \in Topics : [Bus!NoMessage EXCEPT !.topic = topic] \in Message
      /\ \A to \in 1 .. MaxSubs : [Bus!NoMessage EXCEPT !.to = to] \in Message
  BY MessageTypes
<1>2. ASSUME NEW t \in BusThreads,
             \/ \E topic \in Topics : Bus!Publish(t, topic)
             \/ \E to \in 1 .. MaxSubs : Bus!Send(t, to)
      PROVE  BusInv'
  BY <1>1, <1>2, PublishInv DEF Bus!Publish, Bus!Send
<1>3. CASE UNCHANGED Bus!vars
  <2>1. UNCHANGED <<subs, next_sub, busQueue, next_id, stats, real, busCall, proc>>
    BY <1>3 DEF Bus!vars
  <2>2. BusTyped' /\ BusCountsOK'
    BY <2>1 DEF BusInv, BusTyped, BusCountsOK, BusCountOK
  <2> QED
    BY <2>1, <2>2 DEF BusInv
<1>4. CASE Bus!Next
  BY <1>2, <1>4, SubscribeInv, UnsubscribeInv, PublishInv, GetInv, WalkInv DEF Bus!Next
<1> QED
  BY <1>3, <1>4

\* At the end of a walk everyone has been passed.
LEMMA BusImplies == BusInv => Bus!BusSound
<1> SUFFICES ASSUME BusInv PROVE Bus!BusSound
  OBVIOUS
<1>1. BusTyped /\ WalkOK(subs, proc, next_sub) /\ BusCountsOK
  BY DEF BusInv
<1>2. Bus!NobodyTwice
  <2>1. /\ DOMAIN proc.called = 1 .. Len(proc.called) /\ Len(proc.called) \in Nat
        /\ \A k \in 1 .. Len(proc.called) : proc.called[k].id \in Nat
    BY <1>1, DeliveryFields DEF BusTyped
  <2>2. Ordered(proc.called)
    BY <1>1 DEF WalkOK, Fresh
  <2>3. ASSUME NEW j \in 1 .. Len(proc.called), NEW k \in 1 .. Len(proc.called), j < k
        PROVE  proc.called[j] # proc.called[k]
    BY <2>1, <2>2, <2>3 DEF Ordered
  <2> QED
    BY <2>1, <2>3 DEF Bus!NobodyTwice, Bus!IsInjective
<1>3. Bus!MissedOnlyByRemoval
  <2> SUFFICES ASSUME ~proc.busy
               PROVE  Cardinality({s \in Bus!Subscribed(proc.start) : Bus!Matches(proc.msg, s)}
                                    \ Bus!ToSet(proc.called)) <= proc.removed
    BY DEF Bus!MissedOnlyByRemoval, Bus!Cardinality, Cardinality
  <2>1. DOMAIN subs = 1 .. Len(subs)
    BY <1>1 DEF BusTyped
  <2>2. {s \in Bus!Subscribed(proc.start) : Bus!Matches(proc.msg, s)} \ Bus!ToSet(proc.called)
          = Missed(subs, proc)
    BY <2>1 DEF Bus!Subscribed, Bus!ToSet, Missed, Past
  <2> QED
    BY <1>1, <2>2 DEF WalkOK
<1> QED
  BY <1>1, <1>2, <1>3 DEF Bus!BusSound, Bus!StatsNeverInvent, BusCountsOK

\* One message calls nobody twice, misses nobody who stayed but one for each
\* removal from inside a handler, and the counters fall behind but never ahead
\* of what was queued: for any threads, handlers that subscribe, unsubscribe
\* and publish, and every size of array and queue.
THEOREM MessagesReachSubscribers == Bus!Spec => []Bus!BusSound
BY BusInit, BusNext, BusImplies, PTL DEF Bus!Spec

-----------------------------------------------------------------------------
(* Shared memory: the invariant.                                             *)

\* What a region, a handle and a call are, for any number of regions created.
Region == [in_use : BOOLEAN, name : Names \cup {""}, cut : BOOLEAN, data : Nat, size : Nat, ref_count : Nat,
           is_locked : BOOLEAN, gen : Nat, tainted : BOOLEAN]
Handle == [slot : Shared!Slots, gen : Nat]
CallOps == Shared!LookupOps \cup {"locked", "unlocked"}
Call == {Shared!Idle} \cup [op : CallOps, h : Handle]
                      \cup [op : {"copy"}, h : Handle, at : Nat, offset : Nat, n : Nat]

\* Types, for any number of regions created.
TypeInv ==
  /\ pool_used \in Nat /\ gen \in Nat /\ torn \in BOOLEAN
  /\ sharedRegions \in [Shared!Slots -> Region]
  /\ mutex \in [Shared!Slots -> Callers \cup {NoCaller}]
  /\ pool \in [Shared!Cells -> Nat]
  /\ handles \in [Callers -> SUBSET Handle]
  /\ sharedCall \in [Callers -> Call]

\* Two regions share no cell.
Apart(r, q) == r.data + r.size <= q.data \/ q.data + q.size <= r.data

\* Regions lie apart in the used part of the pool, and a copy that is under way
\* stays inside its region, if that is still the one it looked up.
PoolInv ==
  /\ \A s \in Shared!Slots : sharedRegions[s].data + sharedRegions[s].size <= pool_used /\ sharedRegions[s].gen <= gen
  /\ \A s, u \in Shared!Slots : s # u => Apart(sharedRegions[s], sharedRegions[u])
  /\ \A t \in Callers : sharedCall[t].op = "copy" =>
       /\ sharedCall[t].at <= gen
       /\ sharedRegions[sharedCall[t].h.slot].gen = sharedCall[t].at
            => sharedCall[t].offset + sharedCall[t].n <= sharedRegions[sharedCall[t].h.slot].size
  /\ Shared!Isolated
  /\ Shared!FullNamesAreUnique

\* A thread between taking the mutex and showing it holds it, and one between
\* showing it free and giving it back is the only one that could.
LockInv ==
  /\ \A s \in Shared!Slots : sharedRegions[s].is_locked => mutex[s] # NoCaller
  /\ \A t \in Callers : sharedCall[t].op = "locked" => mutex[sharedCall[t].h.slot] = t
  /\ \A t \in Callers : sharedCall[t].op = "unlocked" /\ mutex[sharedCall[t].h.slot] = t
                          => ~sharedRegions[sharedCall[t].h.slot].is_locked

\* Handles are to regions created so far, and a call keeps its handle.
RefInv ==
  /\ \A t \in Callers : \A h \in handles[t] : h.gen <= gen
  /\ \A t \in Callers : sharedCall[t].op # "idle" => sharedCall[t].h \in handles[t]
  /\ Shared!RefsAreHandles

\* The inductive invariant.
SharedInv == TypeInv /\ PoolInv /\ LockInv /\ RefInv

\* The invariant gives the property.
LEMMA SharedInvImplies == SharedInv => Shared!RegionsSound
BY DEF SharedInv, Shared!RegionsSound, PoolInv, LockInv, RefInv, Shared!LockedIsHeld, Shared!InUse

\* The lowest slot of a set that has one.
LEMMA SharedLowestIn == ASSUME NEW S \in SUBSET Shared!Slots, S # {} PROVE Shared!Lowest(S) \in S
<1> DEFINE Less == {p \in Nat \X Nat : p[1] < p[2]}
<1>1. S \in SUBSET Nat
  BY DEF Shared!Slots
<1>2. IsWellFoundedOn(Less, Nat)
  BY NatLessThanWellFounded DEF OpToRel
<1>3. PICK x \in S : \A y \in S : ~(<<y, x>> \in Less)
  <2> HIDE DEF Less
  <2> QED
    BY <1>1, <1>2, WFMin
<1>4. ASSUME NEW y \in S PROVE x <= y
  <2>1. x \in Nat /\ y \in Nat /\ <<y, x>> \in Nat \X Nat
    BY <1>1
  <2> QED
    BY <1>3, <2>1
<1> QED
  BY <1>4 DEF Shared!Lowest

\* What a call is, by its operation.
LEMMA CallFacts ==
  ASSUME TypeInv, NEW t \in Callers
  PROVE  /\ sharedCall[t] \in Call
         /\ sharedCall[t].op # "idle" => sharedCall[t].h \in Handle /\ sharedCall[t].h.slot \in Shared!Slots
                                         /\ sharedRegions[sharedCall[t].h.slot] \in Region
         /\ sharedCall[t].op \in CallOps => sharedCall[t] \in [op : CallOps, h : Handle]
         /\ sharedCall[t].op = "copy" =>
              sharedCall[t] \in [op : {"copy"}, h : Handle, at : Nat, offset : Nat, n : Nat]
BY DEF TypeInv, Call, CallOps, Shared!LookupOps, Shared!Idle, Handle

-----------------------------------------------------------------------------
(* Shared memory: types.                                                     *)

\* The region a create makes, and where.
NewSlot == Shared!Lowest(Shared!Slots \ Shared!InUse)
NewRegion(name, size) ==
  [Shared!NoRegion EXCEPT !.in_use = TRUE, !.name = Cut[name], !.cut = Cut[name] # name,
                          !.data = pool_used, !.size = size, !.ref_count = 1, !.gen = gen + 1]
NewHandle == [slot |-> NewSlot, gen |-> gen + 1]

\* What a create does.
LEMMA CreateFacts ==
  ASSUME TypeInv, Shared!ConstantsOK, NEW t \in Callers, NEW name \in Names, NEW size \in 1 .. 2, Shared!Create(t, name, size)
  PROVE  /\ NewSlot \in Shared!Slots /\ ~sharedRegions[NewSlot].in_use
         /\ NewRegion(name, size) \in Region /\ NewHandle \in Handle
         /\ sharedRegions' = [sharedRegions EXCEPT ![NewSlot] = NewRegion(name, size)]
         /\ handles' = [handles EXCEPT ![t] = @ \cup {NewHandle}]
         /\ gen' = gen + 1 /\ pool_used' = pool_used + size
         /\ pool' = [c \in Shared!Cells |-> IF pool_used < c /\ c <= pool_used + size THEN gen' ELSE pool[c]]
         /\ UNCHANGED <<mutex, torn, sharedCall>>
         /\ \A u \in Shared!InUse : sharedRegions[u].name # name
         /\ Cut[name] \in Names
<1>1. NewSlot \in Shared!Slots \ Shared!InUse
  BY SharedLowestIn DEF Shared!Create, Shared!InUse, NewSlot
<1>2. gen + 1 \in Nat /\ size \in Nat /\ pool_used \in Nat
  BY DEF TypeInv
<1>5. Cut[name] \in Names
  BY DEF Shared!ConstantsOK
<1>3. NewRegion(name, size) \in Region
  <2> DEFINE g == gen + 1
             one == 1
             n == Cut[name]
             b == (Cut[name] # name)
  <2>1. one \in Nat /\ g \in Nat
    BY <1>2 DEF one, g
  <2>2. Shared!NoRegion \in Region
    BY DEF Shared!NoRegion, Region
  <2>3. NewRegion(name, size) =
          [Shared!NoRegion EXCEPT !.in_use = TRUE, !.name = n, !.cut = b, !.data = pool_used,
                                  !.size = size, !.ref_count = one, !.gen = g]
    BY <1>2 DEF one, g, n, b, NewRegion
  <2>4. n \in Names /\ b \in BOOLEAN
    BY <1>5 DEF n, b
  <2> HIDE DEF one, g, n, b
  <2> QED
    BY <1>2, <2>1, <2>2, <2>3, <2>4, Zenon DEF Region
<1>4. NewHandle \in Handle
  BY <1>1, <1>2 DEF Handle, NewHandle
<1> QED
  BY <1>1, <1>3, <1>4, <1>5 DEF Shared!Create, Shared!Found, Shared!SetRegion, Shared!Hold, Shared!PoolAlloc, Shared!InUse, NewSlot, NewRegion, NewHandle

\* The fields of the region it makes.
LEMMA NewFields ==
  ASSUME NEW name, NEW size
  PROVE  LET r == NewRegion(name, size)
         IN  /\ r.in_use /\ r.name = Cut[name] /\ r.cut = (Cut[name] # name) /\ r.data = pool_used /\ r.size = size
             /\ r.ref_count = 1 /\ ~r.is_locked /\ r.gen = gen + 1 /\ ~r.tainted
BY DEF NewRegion, Shared!NoRegion

\* shmem_create keeps the types.
LEMMA CreateType ==
  ASSUME TypeInv, Shared!ConstantsOK, NEW t \in Callers, NEW name \in Names, NEW size \in 1 .. 2, Shared!Create(t, name, size)
  PROVE  TypeInv'
<1>1. gen' \in Nat /\ pool_used' \in Nat
  BY CreateFacts DEF TypeInv
<1>2. pool' \in [Shared!Cells -> Nat]
  BY <1>1, CreateFacts DEF TypeInv
<1> QED
  BY <1>1, <1>2, CreateFacts DEF TypeInv

\* A call keeps its type.
LEMMA CallType ==
  ASSUME TypeInv, NEW t \in Callers, NEW c \in Call, sharedCall' = [sharedCall EXCEPT ![t] = c],
         UNCHANGED <<sharedRegions, mutex, pool_used, pool, gen, torn, handles>>
  PROVE  TypeInv'
BY DEF TypeInv

\* The calls that leave regions, pool and mutexes alone: what the call becomes.
LEMMA QuietCalls ==
  ASSUME TypeInv, NEW t \in Callers,
         \/ \E op \in Shared!LookupOps, h \in handles[t] : Shared!Lookup(t, op, h)
         \/ Shared!LockTimeout(t)
         \/ \E offset \in 0 .. 1, len \in 1 .. 2 : Shared!WriteSize(t, offset, len)
         \/ \E offset \in 0 .. 1 : Shared!WriteNothing(t, offset)
  PROVE  /\ UNCHANGED <<sharedRegions, mutex, pool_used, pool, gen, torn, handles>>
         /\ \E c \in Call :
              /\ sharedCall' = [sharedCall EXCEPT ![t] = c]
              /\ c.op \notin {"locked", "unlocked"}
              /\ c.op # "idle" => c.h \in handles[t] \/ (sharedCall[t].op # "idle" /\ c.h = sharedCall[t].h)
              /\ c.op = "copy" => /\ c.at = sharedRegions[c.h.slot].gen
                                  /\ c.offset + c.n <= sharedRegions[c.h.slot].size
<1>1. Shared!Idle \in Call /\ Shared!Idle.op = "idle"
  BY DEF Shared!Idle, Call
<1>2. ASSUME NEW op \in Shared!LookupOps, NEW h \in handles[t], Shared!Lookup(t, op, h)
      PROVE  sharedCall' = [sharedCall EXCEPT ![t] = [op |-> op, h |-> h]]
             /\ [op |-> op, h |-> h] \in Call
             /\ UNCHANGED <<sharedRegions, mutex, pool_used, pool, gen, torn, handles>>
  BY <1>2 DEF Shared!Lookup, TypeInv, Call, CallOps
<1>3. ASSUME Shared!LockTimeout(t) \/ (\E offset \in 0 .. 1 : Shared!WriteNothing(t, offset))
      PROVE  sharedCall' = [sharedCall EXCEPT ![t] = Shared!Idle]
             /\ UNCHANGED <<sharedRegions, mutex, pool_used, pool, gen, torn, handles>>
  BY <1>3 DEF Shared!LockTimeout, Shared!WriteNothing, Shared!Return
<1>4. ASSUME NEW offset \in 0 .. 1, NEW len \in 1 .. 2, Shared!WriteSize(t, offset, len)
      PROVE  \E c \in Call :
               /\ sharedCall' = [sharedCall EXCEPT ![t] = c]
               /\ c.op = "copy" /\ sharedCall[t].op # "idle" /\ c.h = sharedCall[t].h
               /\ c.at = sharedRegions[c.h.slot].gen
               /\ c.offset + c.n <= sharedRegions[c.h.slot].size
  <2> DEFINE h == sharedCall[t].h
             r == sharedRegions[h.slot]
             n == Shared!Clamped(r, offset, len)
             c == [op |-> "copy", h |-> h, at |-> r.gen, offset |-> offset, n |-> n]
  <2>1. sharedCall' = [sharedCall EXCEPT ![t] = c] /\ sharedCall[t].op = "write" /\ offset < r.size
    BY <1>4 DEF Shared!WriteSize
  <2>2. h \in Handle /\ r \in Region
    BY <2>1, CallFacts
  <2>3. r.gen \in Nat /\ r.size \in Nat
    BY <2>2, Zenon DEF Region
  <2>4. n \in Nat /\ offset + n <= r.size
    BY <2>1, <2>3 DEF Shared!Clamped, Shared!Available
  <2> HIDE DEF h, n, r
  <2>5. c \in Call
    BY <2>2, <2>3, <2>4 DEF Call
  <2> QED
    BY <2>1, <2>4, <2>5 DEF h, r
<1>5. ASSUME NEW offset \in 0 .. 1, NEW len \in 1 .. 2, Shared!WriteSize(t, offset, len)
      PROVE  UNCHANGED <<sharedRegions, mutex, pool_used, pool, gen, torn, handles>>
  BY <1>5 DEF Shared!WriteSize
<1>6. CASE \E op \in Shared!LookupOps, h \in handles[t] : Shared!Lookup(t, op, h)
  <2>1. PICK op \in Shared!LookupOps, h \in handles[t] : Shared!Lookup(t, op, h)
    BY <1>6
  <2> DEFINE c == [op |-> op, h |-> h]
  <2>2. c.op = op /\ c.h = h /\ op \notin {"locked", "unlocked", "copy", "idle"}
    BY DEF Shared!LookupOps
  <2> HIDE DEF c
  <2> QED
    BY <1>2, <2>1, <2>2 DEF c
<1>7. CASE Shared!LockTimeout(t) \/ (\E offset \in 0 .. 1 : Shared!WriteNothing(t, offset))
  BY <1>1, <1>3, <1>7
<1>8. CASE \E offset \in 0 .. 1, len \in 1 .. 2 : Shared!WriteSize(t, offset, len)
  BY <1>4, <1>5, <1>8
<1> QED
  BY <1>6, <1>7, <1>8

\* Close, destroy, lock and unlock: what they do to the region, its fields that
\* place it in the pool being left alone.
Same(r, q) ==
  /\ r.data = q.data /\ r.size = q.size /\ r.gen = q.gen /\ r.name = q.name /\ r.cut = q.cut
  /\ r.in_use => q.in_use

\* The calls that change one region: what they change.
LEMMA RegionCalls ==
  ASSUME TypeInv, NEW t \in Callers,
         Shared!Close(t) \/ Shared!Destroy(t) \/ Shared!LockMark(t) \/ Shared!UnlockBegin(t)
  PROVE  /\ sharedCall[t].op # "idle" /\ sharedCall[t].h.slot \in Shared!Slots
         /\ UNCHANGED <<mutex, pool_used, pool, gen, torn>>
         /\ \E r \in Region :
              /\ sharedRegions' = [sharedRegions EXCEPT ![sharedCall[t].h.slot] = r]
              /\ Same(r, sharedRegions[sharedCall[t].h.slot])
              /\ r.is_locked => sharedRegions[sharedCall[t].h.slot].is_locked \/ Shared!LockMark(t)
<1> DEFINE s == sharedCall[t].h.slot
           old == sharedRegions[s]
<1>1. sharedCall[t].op # "idle" /\ s \in Shared!Slots /\ old \in Region
  BY CallFacts DEF Shared!Close, Shared!Destroy, Shared!LockMark, Shared!UnlockBegin
<1>2. CASE Shared!Close(t)
  <2> DEFINE r == Shared!Touched(Shared!Closed(old), sharedCall[t].h)
  <2>1. Shared!Closed(old) \in Region /\ Same(Shared!Closed(old), old) /\ Shared!Closed(old).is_locked = old.is_locked
    <3> DEFINE fewer == old.ref_count - 1
    <3>1. old.ref_count \in Nat
      BY <1>1, Zenon DEF Region
    <3>2. CASE old.ref_count <= 1
      <4> DEFINE none == 0
      <4>1. Shared!Closed(old) = [old EXCEPT !.ref_count = none, !.in_use = FALSE] /\ none \in Nat
        BY <3>2 DEF Shared!Closed
      <4> HIDE DEF none
      <4> QED
        BY <1>1, <4>1, Zenon DEF Region, Same
    <3>3. CASE ~(old.ref_count <= 1)
      <4>1. fewer \in Nat
        BY <3>1, <3>3
      <4>2. Shared!Closed(old) = [old EXCEPT !.ref_count = fewer]
        BY <3>3 DEF Shared!Closed
      <4> HIDE DEF fewer
      <4> QED
        BY <1>1, <4>1, <4>2, Zenon DEF Region, Same
    <3> QED
      BY <3>2, <3>3
  <2>2. r \in Region /\ Same(r, Shared!Closed(old)) /\ r.is_locked = Shared!Closed(old).is_locked
    BY <2>1, Zenon DEF Shared!Touched, Region, Same
  <2>3. Same(r, old)
    BY <2>1, <2>2 DEF Same
  <2>4. sharedRegions' = [sharedRegions EXCEPT ![s] = r] /\ UNCHANGED <<mutex, pool_used, pool, gen, torn>>
    BY <1>2 DEF Shared!Close, Shared!SetRegion
  <2> HIDE DEF r
  <2> QED
    BY <1>1, <2>1, <2>2, <2>3, <2>4, Zenon
<1>3. CASE Shared!Destroy(t)
  <2> DEFINE b == [old EXCEPT !.in_use = FALSE]
             r == Shared!Touched(b, sharedCall[t].h)
  <2>1. b \in Region /\ Same(b, old) /\ b.is_locked = old.is_locked
    BY <1>1, Zenon DEF Region, Same
  <2>2. r \in Region /\ Same(r, b) /\ r.is_locked = b.is_locked
    BY <2>1, Zenon DEF Shared!Touched, Region, Same
  <2>3. Same(r, old)
    BY <2>1, <2>2 DEF Same
  <2>4. sharedRegions' = [sharedRegions EXCEPT ![s] = r] /\ UNCHANGED <<mutex, pool_used, pool, gen, torn>>
    BY <1>3 DEF Shared!Destroy, Shared!SetRegion
  <2> HIDE DEF b, r
  <2> QED
    BY <1>1, <2>1, <2>2, <2>3, <2>4
<1>4. CASE Shared!LockMark(t)
  <2> DEFINE r == [old EXCEPT !.is_locked = TRUE]
  <2>1. r \in Region /\ Same(r, old)
    BY <1>1, Zenon DEF Region, Same
  <2>2. sharedRegions' = [sharedRegions EXCEPT ![s] = r] /\ UNCHANGED <<mutex, pool_used, pool, gen, torn>>
    BY <1>4 DEF Shared!LockMark, Shared!SetRegion
  <2> HIDE DEF r
  <2> QED
    BY <1>1, <1>4, <2>1, <2>2
<1>5. CASE Shared!UnlockBegin(t)
  <2> DEFINE r == Shared!UnlockMark(old)
  <2>1. r \in Region /\ Same(r, old) /\ ~r.is_locked
    BY <1>1, Zenon DEF Shared!UnlockMark, Region, Same
  <2>2. sharedRegions' = [sharedRegions EXCEPT ![s] = r] /\ UNCHANGED <<mutex, pool_used, pool, gen, torn>>
    BY <1>5 DEF Shared!UnlockBegin, Shared!SetRegion
  <2> HIDE DEF r
  <2> QED
    BY <1>1, <2>1, <2>2
<1> QED
  BY <1>2, <1>3, <1>4, <1>5


\* A region that a name finds is in a slot.
LEMMA FoundIn ==
  ASSUME NEW name, Shared!Found(name) # {}
  PROVE  Shared!Lowest(Shared!Found(name)) \in Shared!InUse
<1>1. Shared!Found(name) \subseteq Shared!InUse /\ Shared!InUse \subseteq Shared!Slots
  BY DEF Shared!Found, Shared!InUse
<1> QED
  BY <1>1, SharedLowestIn

\* The calls that leave the regions alone keep the types.
LEMMA OtherTypes ==
  ASSUME TypeInv, NEW t \in Callers,
         \/ \E name \in Names : Shared!Open(t, name)
         \/ Shared!LockTake(t) \/ Shared!UnlockEnd(t) \/ Shared!WriteCopy(t)
  PROVE  TypeInv'
<1>1. Shared!Idle \in Call
  BY DEF Call
<1>2. ASSUME NEW name \in Names, Shared!Open(t, name)
      PROVE  TypeInv'
  <2> DEFINE s == Shared!Lowest(Shared!Found(name))
             n == sharedRegions[s].ref_count + 1
             r == [sharedRegions[s] EXCEPT !.ref_count = n]
             h == [slot |-> s, gen |-> sharedRegions[s].gen]
  <2>0. s \in Shared!Slots
    BY <1>2, FoundIn DEF Shared!Open, Shared!InUse
  <2>3. sharedRegions' = [sharedRegions EXCEPT ![s] = r] /\ handles' = [handles EXCEPT ![t] = @ \cup {h}]
        /\ UNCHANGED <<mutex, pool_used, pool, gen, torn, sharedCall>>
    BY <1>2 DEF Shared!Open, Shared!SetRegion, Shared!Hold
  <2> HIDE DEF s
  <2>1. sharedRegions[s] \in Region /\ n \in Nat
    <3>1. sharedRegions[s] \in Region
      BY <2>0 DEF TypeInv
    <3>2. sharedRegions[s].ref_count \in Nat
      BY <3>1, Zenon DEF Region
    <3> QED
      BY <3>1, <3>2
  <2>2. h \in Handle
    BY <2>0, <2>1, Zenon DEF Handle, Region
  <2>4. r \in Region
    <3> HIDE DEF n
    <3> QED
      BY <2>1, Zenon DEF Region
  <2> HIDE DEF r, h
  <2> QED
    BY <2>0, <2>2, <2>3, <2>4 DEF TypeInv
<1>3. CASE Shared!LockTake(t)
  <2> DEFINE c == [sharedCall[t] EXCEPT !.op = "locked"]
  <2>1. c \in Call
    BY <1>3, CallFacts DEF Shared!LockTake, Call, CallOps, Shared!LookupOps
  <2>2. sharedCall' = [sharedCall EXCEPT ![t] = c]
    BY <1>3 DEF Shared!LockTake
  <2> HIDE DEF c
  <2>3. sharedCall[t].h.slot \in Shared!Slots
    BY <1>3, CallFacts DEF Shared!LockTake
  <2> QED
    BY <1>3, <2>1, <2>2, <2>3 DEF Shared!LockTake, TypeInv
<1>4. CASE Shared!UnlockEnd(t)
  BY <1>1, <1>4, CallFacts DEF Shared!UnlockEnd, TypeInv, Shared!Return
<1>5. CASE Shared!WriteCopy(t)
  <2> DEFINE from == sharedRegions[sharedCall[t].h.slot].data + sharedCall[t].offset
             g == sharedRegions[sharedCall[t].h.slot].gen
  <2>1. g \in Nat
    BY <1>5, CallFacts, Zenon DEF Shared!WriteCopy, Region
  <2>2. pool' = [i \in Shared!Cells |-> IF from < i /\ i <= from + sharedCall[t].n THEN g ELSE pool[i]]
    BY <1>5 DEF Shared!WriteCopy
  <2>3. pool' \in [Shared!Cells -> Nat]
    BY <2>1, <2>2 DEF TypeInv
  <2>4. torn' \in BOOLEAN
    BY <1>5 DEF Shared!WriteCopy, TypeInv
  <2> QED
    BY <1>1, <1>5, <2>3, <2>4 DEF Shared!WriteCopy, TypeInv, Shared!Return
<1> QED
  BY <1>2, <1>3, <1>4, <1>5

\* So do those that change one.
LEMMA RegionTypes ==
  ASSUME TypeInv, NEW t \in Callers,
         Shared!Close(t) \/ Shared!Destroy(t) \/ Shared!LockMark(t) \/ Shared!UnlockBegin(t)
  PROVE  TypeInv'
<1>1. Shared!Idle \in Call
  BY DEF Call
<1>2. sharedRegions' \in [Shared!Slots -> Region] /\ UNCHANGED <<mutex, pool_used, pool, gen, torn>>
  BY RegionCalls DEF TypeInv
<1>3. handles' \in [Callers -> SUBSET Handle]
  BY DEF TypeInv, Shared!Close, Shared!Destroy, Shared!LockMark, Shared!UnlockBegin
<1>4. sharedCall' \in [Callers -> Call]
  <2>1. CASE Shared!UnlockBegin(t)
    <3> DEFINE c == [sharedCall[t] EXCEPT !.op = "unlocked"]
    <3>1. c \in Call
      BY <2>1, CallFacts DEF Shared!UnlockBegin, Call, CallOps, Shared!LookupOps
    <3>2. sharedCall' = [sharedCall EXCEPT ![t] = c]
      BY <2>1 DEF Shared!UnlockBegin
    <3> HIDE DEF c
    <3> QED
      BY <3>1, <3>2 DEF TypeInv
  <2>2. CASE Shared!Close(t) \/ Shared!Destroy(t) \/ Shared!LockMark(t)
    BY <1>1, <2>2 DEF Shared!Close, Shared!Destroy, Shared!LockMark, Shared!Return, TypeInv
  <2> QED
    BY <2>1, <2>2
<1> QED
  BY <1>2, <1>3, <1>4 DEF TypeInv


-----------------------------------------------------------------------------
(* Pool and names. *)

\* Steps that leave the regions' places, names and memory alone.
LEMMA PoolSame ==
  ASSUME TypeInv, PoolInv, TypeInv', UNCHANGED <<pool_used, pool, gen, torn>>,
         \A s \in Shared!Slots : Same(sharedRegions'[s], sharedRegions[s]),
         \A t \in Callers : sharedCall'[t].op = "copy" =>
            \/ sharedCall'[t] = sharedCall[t]
            \/ /\ sharedCall'[t].at = sharedRegions[sharedCall'[t].h.slot].gen
               /\ sharedCall'[t].offset + sharedCall'[t].n <= sharedRegions[sharedCall'[t].h.slot].size
  PROVE  PoolInv'
<1>1. \A s \in Shared!Slots : sharedRegions'[s].data + sharedRegions'[s].size <= pool_used' /\ sharedRegions'[s].gen <= gen'
  BY DEF PoolInv, Same
<1>2. \A s, u \in Shared!Slots : s # u => Apart(sharedRegions'[s], sharedRegions'[u])
  BY DEF PoolInv, Same, Apart
<1>3. ASSUME NEW t \in Callers, sharedCall'[t].op = "copy"
      PROVE  /\ sharedCall'[t].at <= gen'
             /\ sharedRegions'[sharedCall'[t].h.slot].gen = sharedCall'[t].at
                  => sharedCall'[t].offset + sharedCall'[t].n <= sharedRegions'[sharedCall'[t].h.slot].size
  <2>1. sharedCall'[t].h.slot \in Shared!Slots
    <3>1. sharedCall'[t] \in Call
      BY DEF TypeInv
    <3> QED
      BY <1>3, <3>1 DEF Call, CallOps, Shared!LookupOps, Shared!Idle, Handle
  <2>2. CASE sharedCall'[t] = sharedCall[t]
    BY <1>3, <2>1, <2>2 DEF PoolInv, Same
  <2>3. CASE /\ sharedCall'[t].at = sharedRegions[sharedCall'[t].h.slot].gen
             /\ sharedCall'[t].offset + sharedCall'[t].n <= sharedRegions[sharedCall'[t].h.slot].size
    BY <2>1, <2>3 DEF PoolInv, Same
  <2> QED
    BY <1>3, <2>2, <2>3
<1>4. Shared!Isolated'
  BY DEF PoolInv, Same, Shared!Isolated, Shared!InUse, Shared!Memory
<1>5. Shared!FullNamesAreUnique'
  BY DEF PoolInv, Same, Shared!FullNamesAreUnique, Shared!InUse
<1> QED
  BY <1>1, <1>2, <1>3, <1>4, <1>5 DEF PoolInv

\* shmem_create takes cells that no region has.
LEMMA CreatePool ==
  ASSUME TypeInv, PoolInv, Shared!ConstantsOK, NEW t \in Callers, NEW name \in Names, NEW size \in 1 .. 2,
         Shared!Create(t, name, size)
  PROVE  PoolInv'
<1> DEFINE r == NewRegion(name, size)
<1>1. /\ NewSlot \in Shared!Slots /\ sharedRegions' = [sharedRegions EXCEPT ![NewSlot] = r]
      /\ gen' = gen + 1 /\ pool_used' = pool_used + size
      /\ pool' = [c \in Shared!Cells |-> IF pool_used < c /\ c <= pool_used + size THEN gen' ELSE pool[c]]
      /\ UNCHANGED <<torn, sharedCall>>
      /\ \A u \in Shared!InUse : sharedRegions[u].name # name
  BY CreateFacts
<1>2. r.in_use /\ r.name = Cut[name] /\ r.cut = (Cut[name] # name) /\ r.data = pool_used /\ r.size = size /\ r.gen = gen + 1
  BY NewFields
<1> HIDE DEF r
<1>3. \A s \in Shared!Slots : /\ sharedRegions[s].data \in Nat /\ sharedRegions[s].size \in Nat /\ sharedRegions[s].gen \in Nat
                              /\ sharedRegions[s] \in Region
  BY Zenon DEF TypeInv, Region
<1>4. gen \in Nat /\ pool_used \in Nat /\ size \in Nat
  BY DEF TypeInv
<1>5. sharedRegions'[NewSlot] = r /\ \A s \in Shared!Slots \ {NewSlot} : sharedRegions'[s] = sharedRegions[s]
  BY <1>1 DEF TypeInv
<1>6. \A s \in Shared!Slots : sharedRegions'[s].data + sharedRegions'[s].size <= pool_used' /\ sharedRegions'[s].gen <= gen'
  <2> TAKE s \in Shared!Slots
  <2>1. CASE s = NewSlot
    BY <2>1, <1>1, <1>2, <1>4, <1>5
  <2>2. CASE s # NewSlot
    BY <2>2, <1>1, <1>3, <1>4, <1>5 DEF PoolInv
  <2> QED
    BY <2>1, <2>2
<1>7. \A s, u \in Shared!Slots : s # u => Apart(sharedRegions'[s], sharedRegions'[u])
  <2> TAKE s, u \in Shared!Slots
  <2> HAVE s # u
  <2>1. CASE s = NewSlot
    BY <2>1, <1>1, <1>2, <1>3, <1>4, <1>5 DEF PoolInv, Apart
  <2>2. CASE u = NewSlot
    BY <2>2, <1>1, <1>2, <1>3, <1>4, <1>5 DEF PoolInv, Apart
  <2>3. CASE s # NewSlot /\ u # NewSlot
    BY <2>3, <1>5 DEF PoolInv
  <2> QED
    BY <2>1, <2>2, <2>3
<1>8. ASSUME NEW u \in Callers, sharedCall'[u].op = "copy"
      PROVE  /\ sharedCall'[u].at <= gen'
             /\ sharedRegions'[sharedCall'[u].h.slot].gen = sharedCall'[u].at
                  => sharedCall'[u].offset + sharedCall'[u].n <= sharedRegions'[sharedCall'[u].h.slot].size
  <2>1. sharedCall'[u] = sharedCall[u]
    BY <1>1
  <2>2. sharedCall[u].h.slot \in Shared!Slots /\ sharedCall[u].at \in Nat
    BY <1>8, <2>1, CallFacts
  <2>3. sharedCall[u].at <= gen
    BY <1>8, <2>1 DEF PoolInv
  <2>4. CASE sharedCall[u].h.slot = NewSlot
    BY <1>1, <1>2, <1>4, <1>5, <2>1, <2>2, <2>3, <2>4
  <2>5. CASE sharedCall[u].h.slot # NewSlot
    BY <1>1, <1>4, <1>5, <1>8, <2>1, <2>2, <2>3, <2>5 DEF PoolInv
  <2> QED
    BY <2>4, <2>5
<1>9. Shared!Isolated'
  <2> SUFFICES ASSUME ~torn, NEW s \in Shared!Slots, sharedRegions'[s].in_use, NEW c \in Shared!Cells,
                      sharedRegions'[s].data < c, c <= sharedRegions'[s].data + sharedRegions'[s].size
               PROVE  pool'[c] = sharedRegions'[s].gen
    BY <1>1 DEF Shared!Isolated, Shared!InUse, Shared!Memory
  <2>1. c \in Int
    BY DEF Shared!Cells
  <2>2. CASE s = NewSlot
    BY <2>2, <1>1, <1>2, <1>5
  <2>3. CASE s # NewSlot
    <3>1. sharedRegions[s].data + sharedRegions[s].size <= pool_used
      BY DEF PoolInv
    <3>2. ~(pool_used < c)
      BY <2>1, <2>3, <3>1, <1>3, <1>4, <1>5
    <3>3. pool'[c] = pool[c]
      BY <3>2, <1>1
    <3>4. pool[c] = sharedRegions[s].gen
      BY <2>3, <1>5 DEF PoolInv, Shared!Isolated, Shared!InUse, Shared!Memory
    <3> QED
      BY <2>3, <3>3, <3>4, <1>5
  <2> QED
    BY <2>2, <2>3
<1>10. Shared!FullNamesAreUnique'
  <2> SUFFICES ASSUME NEW s \in Shared!Slots, NEW u \in Shared!Slots, sharedRegions'[s].in_use, sharedRegions'[u].in_use,
                      s # u, sharedRegions'[s].name = sharedRegions'[u].name,
                      sharedRegions'[s].gen <= sharedRegions'[u].gen
               PROVE  sharedRegions'[u].cut
    BY DEF Shared!FullNamesAreUnique, Shared!InUse
  <2>1. CASE u = NewSlot
    BY <1>1, <1>2, <1>5, <2>1 DEF Shared!InUse
  <2>2. CASE s = NewSlot
    <3>1. sharedRegions[u].gen <= gen
      BY DEF PoolInv
    <3> QED
      BY <1>2, <1>3, <1>4, <1>5, <2>2, <3>1
  <2>3. CASE s # NewSlot /\ u # NewSlot
    BY <1>5, <2>3 DEF PoolInv, Shared!FullNamesAreUnique, Shared!InUse
  <2> QED
    BY <2>1, <2>2, <2>3
<1> QED
  BY <1>6, <1>7, <1>8, <1>9, <1>10 DEF PoolInv

\* A read or write stays inside the region it looked up, or is torn.
LEMMA CopyPool ==
  ASSUME TypeInv, PoolInv, NEW t \in Callers, Shared!WriteCopy(t)
  PROVE  PoolInv'
<1> DEFINE c == sharedCall[t]
           q == sharedRegions[c.h.slot]
           from == q.data + c.offset
<1>1. c.op = "copy" /\ c.h.slot \in Shared!Slots /\ q \in Region
      /\ c.offset \in Nat /\ c.n \in Nat /\ c.at \in Nat
  BY CallFacts DEF Shared!WriteCopy
<1>2. UNCHANGED <<sharedRegions, mutex, pool_used, gen, handles>> /\ (torn' = (torn \/ q.gen # c.at))
      /\ pool' = [i \in Shared!Cells |-> IF from < i /\ i <= from + c.n THEN q.gen ELSE pool[i]]
      /\ sharedCall' = [sharedCall EXCEPT ![t] = Shared!Idle]
  BY DEF Shared!WriteCopy, Shared!Return
<1>3. \A s \in Shared!Slots : sharedRegions[s].data \in Nat /\ sharedRegions[s].size \in Nat
  BY Zenon DEF TypeInv, Region
<1>4. ASSUME NEW u \in Callers, sharedCall'[u].op = "copy"
      PROVE  sharedCall'[u] = sharedCall[u]
  BY <1>2, <1>4 DEF TypeInv, Shared!Idle
<1>5. Shared!Isolated'
  <2> SUFFICES ASSUME ~torn', NEW s \in Shared!Slots, sharedRegions[s].in_use, NEW i \in Shared!Cells,
                      sharedRegions[s].data < i, i <= sharedRegions[s].data + sharedRegions[s].size
               PROVE  pool'[i] = sharedRegions[s].gen
    BY <1>2 DEF Shared!Isolated, Shared!InUse, Shared!Memory
  <2>1. i \in Int
    BY DEF Shared!Cells
  <2>2. ~torn /\ q.gen = c.at
    BY <1>2 DEF TypeInv
  <2>3. c.offset + c.n <= q.size
    BY <1>1, <2>2 DEF PoolInv
  <2>4. CASE s = c.h.slot
    <3>1. pool[i] = sharedRegions[s].gen
      BY <2>2 DEF PoolInv, Shared!Isolated, Shared!InUse, Shared!Memory
    <3> QED
      BY <1>2, <2>4, <3>1
  <2>5. CASE s # c.h.slot
    <3>1. Apart(sharedRegions[s], q)
      BY <1>1, <2>5 DEF PoolInv
    <3>2. q.data \in Nat /\ q.size \in Nat /\ sharedRegions[s].data \in Nat /\ sharedRegions[s].size \in Nat
      BY <1>1, <1>3
    <3> HIDE DEF q, c
    <3>3. ~(from < i /\ i <= from + c.n)
      BY <1>1, <2>1, <2>3, <3>1, <3>2 DEF Apart
    <3>4. pool'[i] = pool[i]
      BY <1>2, <3>3
    <3> QED
      BY <2>2, <3>4 DEF PoolInv, Shared!Isolated, Shared!InUse, Shared!Memory
  <2> QED
    BY <2>4, <2>5
<1>6. Shared!FullNamesAreUnique'
  BY <1>2 DEF PoolInv, Shared!FullNamesAreUnique, Shared!InUse
<1> QED
  BY <1>2, <1>4, <1>5, <1>6 DEF PoolInv


-----------------------------------------------------------------------------
(* Locks. *)

\* Steps that show no lock that was not shown, and are not inside lock or unlock.
LEMMA LockSame ==
  ASSUME TypeInv, TypeInv', LockInv, UNCHANGED mutex,
         \A s \in Shared!Slots : sharedRegions'[s].is_locked => sharedRegions[s].is_locked,
         \A t \in Callers : sharedCall'[t].op \in {"locked", "unlocked"} => sharedCall'[t] = sharedCall[t]
  PROVE  LockInv'
<1>1. ASSUME NEW t \in Callers, sharedCall'[t].op \in {"locked", "unlocked"}
      PROVE  sharedCall'[t] = sharedCall[t] /\ sharedCall[t].h.slot \in Shared!Slots
  BY <1>1, CallFacts
<1> QED
  BY <1>1 DEF LockInv

\* Every step of lock and unlock.
LEMMA LockSteps ==
  ASSUME TypeInv, TypeInv', LockInv, Shared!ConstantsOK, NEW t \in Callers,
         Shared!LockTake(t) \/ Shared!LockMark(t) \/ Shared!UnlockBegin(t) \/ Shared!UnlockEnd(t)
  PROVE  LockInv'
<1> DEFINE s == sharedCall[t].h.slot
<1>1. s \in Shared!Slots /\ sharedRegions[s] \in Region
  BY CallFacts DEF Shared!LockTake, Shared!LockMark, Shared!UnlockBegin, Shared!UnlockEnd
<1>2. \A u \in Callers : sharedCall[u].op \in {"locked", "unlocked"} => sharedCall[u].h.slot \in Shared!Slots
  BY CallFacts
<1>3. t # NoCaller
  BY DEF Shared!ConstantsOK
<1>4. CASE Shared!LockTake(t)
  <2>1. sharedRegions' = sharedRegions /\ mutex[s] = NoCaller /\ mutex' = [mutex EXCEPT ![s] = t]
        /\ sharedCall' = [sharedCall EXCEPT ![t].op = "locked"] /\ sharedCall[t].op = "lock"
    BY <1>4 DEF Shared!LockTake
  <2>2. sharedCall'[t].op = "locked" /\ sharedCall'[t].h = sharedCall[t].h
        /\ \A u \in Callers \ {t} : sharedCall'[u] = sharedCall[u]
    BY <2>1, CallFacts DEF TypeInv, CallOps, Shared!LookupOps
  <2>3. mutex'[s] = t /\ \A u \in Shared!Slots \ {s} : mutex'[u] = mutex[u]
    BY <1>1, <2>1 DEF TypeInv
  <2>4. ~sharedRegions[s].is_locked
    BY <1>1, <2>1 DEF LockInv
  <2>5. \A u \in Shared!Slots : sharedRegions'[u].is_locked => mutex'[u] # NoCaller
    BY <2>1, <2>3, <2>4 DEF LockInv
  <2>6. \A u \in Callers : sharedCall'[u].op = "locked" => mutex'[sharedCall'[u].h.slot] = u
    <3> TAKE u \in Callers
    <3> HAVE sharedCall'[u].op = "locked"
    <3>1. CASE u = t
      BY <2>2, <2>3, <3>1
    <3>2. CASE u # t
      <4>1. sharedCall[u].op = "locked" /\ mutex[sharedCall[u].h.slot] = u /\ u # NoCaller /\ sharedCall'[u] = sharedCall[u]
        BY <2>2, <3>2 DEF LockInv, Shared!ConstantsOK
      <4>2. sharedCall[u].h.slot # s
        BY <2>1, <4>1
      <4> QED
        BY <1>2, <2>3, <4>1, <4>2
    <3> QED
      BY <3>1, <3>2
  <2>7. \A u \in Callers : sharedCall'[u].op = "unlocked" /\ mutex'[sharedCall'[u].h.slot] = u
                             => ~sharedRegions'[sharedCall'[u].h.slot].is_locked
    <3> TAKE u \in Callers
    <3> HAVE sharedCall'[u].op = "unlocked" /\ mutex'[sharedCall'[u].h.slot] = u
    <3>1. u # t /\ sharedCall'[u] = sharedCall[u]
      BY <2>2
    <3>2. sharedCall[u].h.slot \in Shared!Slots /\ sharedCall[u].h.slot # s
      BY <1>2, <2>3, <3>1
    <3> QED
      BY <2>1, <2>3, <3>1, <3>2 DEF LockInv
  <2> QED
    BY <2>5, <2>6, <2>7 DEF LockInv
<1>5. CASE Shared!LockMark(t)
  <2>1. sharedRegions' = [sharedRegions EXCEPT ![s] = [sharedRegions[s] EXCEPT !.is_locked = TRUE]]
        /\ mutex' = mutex /\ sharedCall' = [sharedCall EXCEPT ![t] = Shared!Idle] /\ sharedCall[t].op = "locked"
    BY <1>5 DEF Shared!LockMark, Shared!SetRegion, Shared!Return
  <2>2. sharedCall'[t].op = "idle" /\ \A u \in Callers \ {t} : sharedCall'[u] = sharedCall[u]
    BY <2>1 DEF TypeInv, Shared!Idle
  <2>3. mutex[s] = t
    BY <2>1 DEF LockInv
  <2>4. \A u \in Shared!Slots \ {s} : sharedRegions'[u] = sharedRegions[u]
    BY <2>1 DEF TypeInv
  <2>5. \A u \in Shared!Slots : sharedRegions'[u].is_locked => mutex'[u] # NoCaller
    BY <1>3, <2>1, <2>3, <2>4 DEF LockInv
  <2>6. \A u \in Callers : sharedCall'[u].op = "locked" => mutex'[sharedCall'[u].h.slot] = u
    BY <2>1, <2>2 DEF LockInv
  <2>7. \A u \in Callers : sharedCall'[u].op = "unlocked" /\ mutex'[sharedCall'[u].h.slot] = u
                             => ~sharedRegions'[sharedCall'[u].h.slot].is_locked
    <3> TAKE u \in Callers
    <3> HAVE sharedCall'[u].op = "unlocked" /\ mutex'[sharedCall'[u].h.slot] = u
    <3>1. u # t /\ sharedCall'[u] = sharedCall[u]
      BY <2>2
    <3>2. sharedCall[u].h.slot \in Shared!Slots /\ sharedCall[u].h.slot # s
      BY <1>2, <2>1, <2>3, <3>1
    <3> QED
      BY <2>1, <2>4, <3>1, <3>2 DEF LockInv
  <2> QED
    BY <2>5, <2>6, <2>7 DEF LockInv
<1>6. CASE Shared!UnlockBegin(t)
  <2>1. sharedRegions' = [sharedRegions EXCEPT ![s] = [sharedRegions[s] EXCEPT !.is_locked = FALSE]]
        /\ mutex' = mutex /\ sharedCall' = [sharedCall EXCEPT ![t].op = "unlocked"] /\ sharedCall[t].op = "unlock"
    BY <1>6 DEF Shared!UnlockBegin, Shared!SetRegion, Shared!UnlockMark
  <2>2. sharedCall'[t].op = "unlocked" /\ sharedCall'[t].h = sharedCall[t].h
        /\ \A u \in Callers \ {t} : sharedCall'[u] = sharedCall[u]
    BY <2>1, CallFacts DEF TypeInv, CallOps, Shared!LookupOps
  <2>3. ~sharedRegions'[s].is_locked /\ \A u \in Shared!Slots \ {s} : sharedRegions'[u] = sharedRegions[u]
    BY <1>1, <2>1, Zenon DEF TypeInv, Region
  <2>4. \A u \in Shared!Slots : sharedRegions'[u].is_locked => mutex'[u] # NoCaller
    BY <2>1, <2>3 DEF LockInv
  <2>5. \A u \in Callers : sharedCall'[u].op = "locked" => mutex'[sharedCall'[u].h.slot] = u
    BY <2>1, <2>2 DEF LockInv
  <2>6. \A u \in Callers : sharedCall'[u].op = "unlocked" /\ mutex'[sharedCall'[u].h.slot] = u
                             => ~sharedRegions'[sharedCall'[u].h.slot].is_locked
    BY <1>2, <2>1, <2>2, <2>3 DEF LockInv
  <2> QED
    BY <2>4, <2>5, <2>6 DEF LockInv
<1>7. CASE Shared!UnlockEnd(t)
  <2>1. sharedRegions' = sharedRegions /\ sharedCall' = [sharedCall EXCEPT ![t] = Shared!Idle] /\ sharedCall[t].op = "unlocked"
        /\ mutex' = IF mutex[s] = t THEN [mutex EXCEPT ![s] = NoCaller] ELSE mutex
    BY <1>7 DEF Shared!UnlockEnd, Shared!Return
  <2>2. sharedCall'[t].op = "idle" /\ \A u \in Callers \ {t} : sharedCall'[u] = sharedCall[u]
    BY <2>1 DEF TypeInv, Shared!Idle
  <2>3. CASE mutex[s] # t
    BY <2>1, <2>2, <2>3 DEF LockInv
  <2>4. CASE mutex[s] = t
    <3>1. mutex'[s] = NoCaller /\ \A u \in Shared!Slots \ {s} : mutex'[u] = mutex[u]
      BY <1>1, <2>1, <2>4 DEF TypeInv
    <3>2. ~sharedRegions[s].is_locked
      BY <2>1, <2>4 DEF LockInv
    <3>3. \A u \in Shared!Slots : sharedRegions'[u].is_locked => mutex'[u] # NoCaller
      BY <2>1, <3>1, <3>2 DEF LockInv
    <3>4. \A u \in Callers : sharedCall'[u].op = "locked" => mutex'[sharedCall'[u].h.slot] = u
      <4> TAKE u \in Callers
      <4> HAVE sharedCall'[u].op = "locked"
      <4>1. u # t /\ sharedCall'[u] = sharedCall[u] /\ mutex[sharedCall[u].h.slot] = u
        BY <2>2 DEF LockInv
      <4>2. sharedCall[u].h.slot \in Shared!Slots \ {s}
        BY <1>2, <2>4, <4>1
      <4> QED
        BY <3>1, <4>1, <4>2
    <3>5. \A u \in Callers : sharedCall'[u].op = "unlocked" /\ mutex'[sharedCall'[u].h.slot] = u
                               => ~sharedRegions'[sharedCall'[u].h.slot].is_locked
      <4> TAKE u \in Callers
      <4> HAVE sharedCall'[u].op = "unlocked" /\ mutex'[sharedCall'[u].h.slot] = u
      <4>1. u # t /\ sharedCall'[u] = sharedCall[u] /\ u # NoCaller
        BY <2>2 DEF Shared!ConstantsOK
      <4>2. sharedCall[u].h.slot \in Shared!Slots \ {s}
        BY <1>2, <3>1, <4>1
      <4> QED
        BY <2>1, <3>1, <4>1, <4>2 DEF LockInv
    <3> QED
      BY <3>3, <3>4, <3>5 DEF LockInv
  <2> QED
    BY <2>3, <2>4
<1> QED
  BY <1>4, <1>5, <1>6, <1>7


-----------------------------------------------------------------------------
(* References. *)

\* The holders of a region are finite in number.
LEMMA HoldersFinite ==
  ASSUME Shared!ConstantsOK, NEW s PROVE IsFiniteSet(Shared!Holders(s))
BY FS_Subset DEF Shared!ConstantsOK, Shared!Holders, Shared!IsFiniteSet, IsFiniteSet

\* What the invariant says of the references of a region in use.
LEMMA RefsCounted ==
  ASSUME RefInv, NEW s \in Shared!Slots, sharedRegions[s].in_use, ~sharedRegions[s].tainted
  PROVE  sharedRegions[s].ref_count = Cardinality(Shared!Holders(s)) /\ Shared!Holders(s) # {}
BY DEF RefInv, Shared!RefsAreHandles, Shared!Cardinality, Cardinality, Shared!InUse

\* Steps that leave handles, generations and counts alone.
LEMMA RefSame ==
  ASSUME TypeInv, RefInv, UNCHANGED <<handles, gen>>,
         \A s \in Shared!Slots : /\ sharedRegions'[s].in_use = sharedRegions[s].in_use
                                /\ sharedRegions'[s].gen = sharedRegions[s].gen
                                /\ sharedRegions'[s].ref_count = sharedRegions[s].ref_count
                                /\ sharedRegions'[s].tainted = sharedRegions[s].tainted,
         \A t \in Callers : sharedCall'[t].op # "idle" => sharedCall'[t].h \in handles[t]
  PROVE  RefInv'
<1>1. \A s \in Shared!Slots : Shared!Holders(s)' = Shared!Holders(s)
  BY DEF Shared!Holders
<1>2. Shared!RefsAreHandles'
  BY <1>1 DEF RefInv, Shared!RefsAreHandles, Shared!InUse
<1> QED
  BY <1>2 DEF RefInv

\* A new region has one reference and one handle.
LEMMA CreateRef ==
  ASSUME TypeInv, RefInv, Shared!ConstantsOK, NEW t \in Callers, NEW name \in Names, NEW size \in 1 .. 2,
         Shared!Create(t, name, size)
  PROVE  RefInv'
<1> DEFINE r == NewRegion(name, size)
           g == gen + 1
<1>1. /\ NewSlot \in Shared!Slots /\ sharedRegions' = [sharedRegions EXCEPT ![NewSlot] = r]
      /\ handles' = [handles EXCEPT ![t] = handles[t] \cup {NewHandle}]
      /\ gen' = g /\ sharedCall' = sharedCall
  BY CreateFacts
<1>2. r.ref_count = 1 /\ r.gen = g
  BY NewFields
<1>3. gen \in Nat /\ g \in Nat /\ \A n \in Nat : n <= gen => n <= g /\ n # g
  BY DEF TypeInv
<1>4. NewHandle.slot = NewSlot /\ NewHandle.gen = g /\ NewHandle = [slot |-> NewSlot, gen |-> g]
  BY DEF NewHandle
<1> HIDE DEF r, g
<1>5. \A u \in Callers : \A h \in handles[u] : h \in Handle /\ h.gen \in Nat /\ h.gen <= gen
  BY DEF TypeInv, RefInv, Handle
<1>6. \A u \in Callers : handles'[u] = IF u = t THEN handles[u] \cup {NewHandle} ELSE handles[u]
  BY <1>1 DEF TypeInv
<1>7. \A u \in Callers : \A h \in handles'[u] : h.gen <= gen'
  BY <1>1, <1>3, <1>4, <1>5, <1>6
<1>8. \A u \in Callers : sharedCall'[u].op # "idle" => sharedCall'[u].h \in handles'[u]
  BY <1>1, <1>6 DEF RefInv
<1>9. sharedRegions'[NewSlot] = r /\ \A s \in Shared!Slots \ {NewSlot} : sharedRegions'[s] = sharedRegions[s]
  BY <1>1 DEF TypeInv
<1>10. Shared!RefsAreHandles'
  <2> SUFFICES ASSUME NEW s \in Shared!Slots, sharedRegions'[s].in_use, ~sharedRegions'[s].tainted
               PROVE  sharedRegions'[s].ref_count = Cardinality(Shared!Holders(s)') /\ Shared!Holders(s)' # {}
    BY DEF Shared!RefsAreHandles, Shared!Cardinality, Cardinality, Shared!InUse
  <2>1. CASE s = NewSlot
    <3>1. \A u \in Callers : [slot |-> s, gen |-> g] \notin handles[u]
      BY <1>3, <1>5
    <3>2. Shared!Holders(s)' = {t}
      BY <1>2, <1>4, <1>6, <1>9, <2>1, <3>1 DEF Shared!Holders
    <3> QED
      BY <1>2, <1>9, <2>1, <3>2, FS_Singleton
  <2>2. CASE s # NewSlot
    <3>1. [slot |-> s, gen |-> sharedRegions[s].gen] # NewHandle
      BY <1>4, <2>2
    <3>2. Shared!Holders(s)' = Shared!Holders(s)
      BY <1>6, <1>9, <2>2, <3>1 DEF Shared!Holders
    <3> QED
      BY <1>9, <2>2, <3>2, RefsCounted
  <2> QED
    BY <2>1, <2>2
<1> QED
  BY <1>7, <1>8, <1>10 DEF RefInv

\* shmem_open adds a reference and a handle.
LEMMA OpenRef ==
  ASSUME TypeInv, RefInv, PoolInv, Shared!ConstantsOK, NEW t \in Callers, NEW name \in Names, Shared!Open(t, name)
  PROVE  RefInv'
<1>0. PICK s \in Shared!InUse : s = Shared!Lowest(Shared!Found(name))
  BY FoundIn DEF Shared!Open
<1> DEFINE h == [slot |-> s, gen |-> sharedRegions[s].gen]
           n == sharedRegions[s].ref_count + 1
<1>1. /\ sharedRegions' = [sharedRegions EXCEPT ![s] = [sharedRegions[s] EXCEPT !.ref_count = n]]
      /\ handles' = [handles EXCEPT ![t] = handles[t] \cup {h}]
      /\ gen' = gen /\ sharedCall' = sharedCall /\ h \notin handles[t] /\ s \in Shared!InUse
      /\ s \in Shared!Slots
  BY <1>0 DEF Shared!Open, Shared!SetRegion, Shared!Hold, Shared!InUse
<1>2. h.gen <= gen
  BY <1>1 DEF PoolInv
<1>3. \A u \in Callers : handles'[u] = IF u = t THEN handles[u] \cup {h} ELSE handles[u]
  BY <1>1 DEF TypeInv
<1>4. sharedRegions[s] \in Region
  BY <1>1 DEF TypeInv
<1> HIDE DEF n
<1>5. /\ sharedRegions'[s].in_use = sharedRegions[s].in_use /\ sharedRegions'[s].gen = sharedRegions[s].gen
      /\ sharedRegions'[s].tainted = sharedRegions[s].tainted /\ sharedRegions'[s].ref_count = n
      /\ \A u \in Shared!Slots \ {s} : sharedRegions'[u] = sharedRegions[u]
  BY <1>1, <1>4, Zenon DEF TypeInv, Region
<1>6. \A u \in Callers : \A k \in handles'[u] : k.gen <= gen'
  BY <1>1, <1>2, <1>3 DEF RefInv
<1>7. \A u \in Callers : sharedCall'[u].op # "idle" => sharedCall'[u].h \in handles'[u]
  BY <1>1, <1>3 DEF RefInv
<1>8. Shared!RefsAreHandles'
  <2> SUFFICES ASSUME NEW u \in Shared!Slots, sharedRegions'[u].in_use, ~sharedRegions'[u].tainted
               PROVE  sharedRegions'[u].ref_count = Cardinality(Shared!Holders(u)') /\ Shared!Holders(u)' # {}
    BY DEF Shared!RefsAreHandles, Shared!Cardinality, Cardinality, Shared!InUse
  <2>1. CASE u = s
    <3>1. Shared!Holders(s)' = Shared!Holders(s) \cup {t} /\ t \notin Shared!Holders(s)
      BY <1>1, <1>3, <1>5 DEF Shared!Holders
    <3>2. Cardinality(Shared!Holders(s)') = Cardinality(Shared!Holders(s)) + 1
      BY <3>1, HoldersFinite, FS_AddElement
    <3>3. sharedRegions[s].ref_count = Cardinality(Shared!Holders(s))
      BY <1>1, <1>5, <2>1, RefsCounted
    <3> QED
      BY <1>5, <2>1, <3>1, <3>2, <3>3 DEF n
  <2>2. CASE u # s
    <3>1. [slot |-> u, gen |-> sharedRegions[u].gen] # h
      BY <2>2
    <3>2. Shared!Holders(u)' = Shared!Holders(u)
      <4> HIDE DEF h
      <4> QED
        BY <1>3, <1>5, <2>2, <3>1 DEF Shared!Holders
    <3> QED
      BY <1>5, <2>2, <3>2, RefsCounted
  <2> QED
    BY <2>1, <2>2
<1> QED
  BY <1>6, <1>7, <1>8 DEF RefInv

\* shmem_close drops a reference and a handle.
LEMMA CloseRef ==
  ASSUME TypeInv, RefInv, Shared!ConstantsOK, NEW t \in Callers, Shared!Close(t) \/ Shared!Destroy(t)
  PROVE  RefInv'
<1> DEFINE h == sharedCall[t].h
           s == h.slot
           old == sharedRegions[s]
           b == IF Shared!Close(t) THEN Shared!Closed(old) ELSE [old EXCEPT !.in_use = FALSE]
           r == Shared!Touched(b, h)
<1>1. sharedCall[t].op # "idle" /\ s \in Shared!Slots /\ old \in Region /\ h \in Handle
  BY CallFacts DEF Shared!Close, Shared!Destroy
<1>2. h \in handles[t]
  BY <1>1 DEF RefInv
<1>3. /\ sharedRegions' = [sharedRegions EXCEPT ![s] = r]
      /\ handles' = [handles EXCEPT ![t] = handles[t] \ {h}]
      /\ sharedCall' = [sharedCall EXCEPT ![t] = Shared!Idle] /\ gen' = gen
  BY DEF Shared!Close, Shared!Destroy, Shared!SetRegion, Shared!Return
<1>4. /\ r.gen = old.gen
      /\ r.in_use /\ ~r.tainted =>
           /\ old.in_use /\ ~old.tainted /\ old.gen = h.gen
           /\ old.ref_count > 1 /\ r.ref_count = old.ref_count - 1
  <2>1. old.ref_count \in Nat /\ old.tainted \in BOOLEAN
    BY <1>1, Zenon DEF Region
  <2> DEFINE fewer == old.ref_count - 1
  <2>2. CASE Shared!Close(t) /\ old.ref_count > 1
    <3>1. b = [old EXCEPT !.ref_count = fewer]
      BY <2>1, <2>2 DEF Shared!Closed
    <3> HIDE DEF fewer, b
    <3>2. b.gen = old.gen /\ b.in_use = old.in_use /\ b.tainted = old.tainted /\ b.ref_count = fewer
      BY <1>1, <3>1, Zenon DEF Region
    <3>3. r = [b EXCEPT !.tainted = b.tainted \/ b.gen # h.gen]
      BY DEF Shared!Touched
    <3>4. r.gen = b.gen /\ r.in_use = b.in_use /\ r.ref_count = b.ref_count
          /\ r.tainted = (b.tainted \/ b.gen # h.gen)
      BY <1>1, <3>1, <3>3, Zenon DEF Region
    <3> QED
      BY <2>2, <3>2, <3>4 DEF fewer
  <2>3. CASE ~(Shared!Close(t) /\ old.ref_count > 1)
    <3>1. b.gen = old.gen /\ ~b.in_use /\ b \in Region
      <4>1. CASE ~Shared!Close(t)
        BY <1>1, <4>1, Zenon DEF Region
      <4>2. CASE Shared!Close(t)
        <5> DEFINE none == 0
        <5>1. b = [old EXCEPT !.ref_count = none, !.in_use = FALSE] /\ none \in Nat
          BY <2>1, <2>3, <4>2 DEF Shared!Closed
        <5> HIDE DEF none, b
        <5> QED
          BY <1>1, <5>1, Zenon DEF Region
      <4> QED
        BY <4>1, <4>2
    <3> HIDE DEF b
    <3>2. r.gen = b.gen /\ r.in_use = b.in_use
      BY <3>1, Zenon DEF Shared!Touched, Region
    <3> QED
      BY <3>1, <3>2
  <2> QED
    BY <2>2, <2>3
<1> HIDE DEF r, b
<1>5. \A u \in Callers : handles'[u] = IF u = t THEN handles[u] \ {h} ELSE handles[u]
  BY <1>3 DEF TypeInv
<1>6. sharedRegions'[s] = r /\ \A u \in Shared!Slots \ {s} : sharedRegions'[u] = sharedRegions[u]
  BY <1>1, <1>3 DEF TypeInv
<1>7. \A u \in Callers : \A k \in handles'[u] : k.gen <= gen'
  BY <1>3, <1>5 DEF RefInv
<1>8. \A u \in Callers : sharedCall'[u].op # "idle" => sharedCall'[u].h \in handles'[u]
  <2>1. sharedCall'[t].op = "idle" /\ \A u \in Callers \ {t} : sharedCall'[u] = sharedCall[u]
    BY <1>3 DEF TypeInv, Shared!Idle
  <2> QED
    BY <1>5, <2>1 DEF RefInv
<1>9. Shared!RefsAreHandles'
  <2> SUFFICES ASSUME NEW u \in Shared!Slots, sharedRegions'[u].in_use, ~sharedRegions'[u].tainted
               PROVE  sharedRegions'[u].ref_count = Cardinality(Shared!Holders(u)') /\ Shared!Holders(u)' # {}
    BY DEF Shared!RefsAreHandles, Shared!Cardinality, Cardinality, Shared!InUse
  <2>1. CASE u = s
    <3>1. old.in_use /\ ~old.tainted /\ old.gen = h.gen /\ r.gen = old.gen
          /\ old.ref_count > 1 /\ r.ref_count = old.ref_count - 1
      BY <1>4, <1>6, <2>1
    <3>2. h = [slot |-> u, gen |-> sharedRegions[u].gen] /\ sharedRegions'[u].gen = sharedRegions[u].gen
      BY <1>1, <1>6, <2>1, <3>1 DEF Handle
    <3>3. Shared!Holders(u)' = Shared!Holders(u) \ {t} /\ t \in Shared!Holders(u)
      <4> HIDE DEF h
      <4> QED
        BY <1>2, <1>5, <3>2 DEF Shared!Holders
    <3>4. old.ref_count = Cardinality(Shared!Holders(u))
      BY <1>1, <2>1, <3>1, RefsCounted
    <3>5. Cardinality(Shared!Holders(u)') = Cardinality(Shared!Holders(u)) - 1
      BY <3>3, HoldersFinite, FS_RemoveElement, Zenon
    <3>6. old.ref_count \in Nat
      BY <1>1, Zenon DEF Region
    <3>7. Cardinality(Shared!Holders(u)') # 0
      BY <3>1, <3>4, <3>5, <3>6
    <3>8. Shared!Holders(u)' # {}
      BY <3>7, FS_EmptySet
    <3> QED
      BY <1>6, <2>1, <3>1, <3>4, <3>5, <3>8
  <2>2. CASE u # s
    <3>1. [slot |-> u, gen |-> sharedRegions[u].gen] # h
      BY <2>2
    <3>2. Shared!Holders(u)' = Shared!Holders(u)
      BY <1>5, <1>6, <2>2, <3>1 DEF Shared!Holders
    <3> QED
      BY <1>6, <2>2, <3>2, RefsCounted
  <2> QED
    BY <2>1, <2>2
<1> QED
  BY <1>7, <1>8, <1>9 DEF RefInv


-----------------------------------------------------------------------------
(* The invariant. *)

\* There are no regions at first.
LEMMA SharedInit == ASSUME Shared!ConstantsOK, Shared!Init PROVE SharedInv
<1> USE DEF Shared!Init
<1>1. Shared!NoRegion \in Region
  BY Zenon DEF Shared!NoRegion, Region
<1>2. /\ ~Shared!NoRegion.in_use /\ Shared!NoRegion.data = 0 /\ Shared!NoRegion.size = 0 /\ Shared!NoRegion.gen = 0
      /\ ~Shared!NoRegion.is_locked
  BY Zenon DEF Shared!NoRegion
<1> DEFINE none == 0
<1>3. TypeInv
  <2>1. none \in Nat /\ pool_used = none /\ pool = [c \in Shared!Cells |-> none] /\ gen = none
    BY DEF none
  <2> HIDE DEF none
  <2>2. Shared!Idle \in Call
    BY DEF Call
  <2> QED
    BY <1>1, <2>1, <2>2 DEF TypeInv
<1>4. \A s \in Shared!Slots : sharedRegions[s] = Shared!NoRegion
  OBVIOUS
<1>5. \A t \in Callers : sharedCall[t].op = "idle" /\ handles[t] = {}
  BY DEF Shared!Idle
<1>6. Shared!InUse = {}
  BY <1>2, <1>4 DEF Shared!InUse
<1>7. PoolInv
  BY <1>2, <1>4, <1>5, <1>6 DEF PoolInv, Apart, Shared!Isolated, Shared!FullNamesAreUnique
<1>8. LockInv
  BY <1>2, <1>4, <1>5 DEF LockInv
<1>9. RefInv
  BY <1>5, <1>6 DEF RefInv, Shared!RefsAreHandles
<1> QED
  BY <1>3, <1>7, <1>8, <1>9 DEF SharedInv

\* Every step keeps the invariant.
LEMMA SharedNext == ASSUME Shared!ConstantsOK, SharedInv, [Shared!Next]_(Shared!vars) PROVE SharedInv'
<1> USE DEF SharedInv
<1>1. ASSUME NEW t \in Callers, NEW name \in Names, NEW size \in 1 .. 2, Shared!Create(t, name, size)
      PROVE  SharedInv'
  <2>1. \A s \in Shared!Slots : sharedRegions'[s].is_locked => sharedRegions[s].is_locked
    BY <1>1, CreateFacts, NewFields DEF TypeInv
  <2>2. UNCHANGED <<mutex, sharedCall>>
    BY <1>1, CreateFacts
  <2>3. TypeInv' /\ PoolInv' /\ RefInv'
    BY <1>1, CreateType, CreatePool, CreateRef
  <2>4. LockInv'
    BY <2>1, <2>2, <2>3, LockSame
  <2> QED
    BY <2>3, <2>4
<1>2. ASSUME NEW t \in Callers, NEW name \in Names, Shared!Open(t, name)
      PROVE  SharedInv'
  <2> DEFINE s == Shared!Lowest(Shared!Found(name))
  <2>1. TypeInv' /\ RefInv'
    BY <1>2, OtherTypes, OpenRef
  <2>2. /\ UNCHANGED <<mutex, pool_used, pool, gen, torn, sharedCall>>
        /\ sharedRegions' = [sharedRegions EXCEPT ![s] = [sharedRegions[s] EXCEPT !.ref_count = sharedRegions[s].ref_count + 1]]
        /\ s \in Shared!Slots
    BY <1>2, FoundIn DEF Shared!Open, Shared!SetRegion, Shared!InUse
  <2> HIDE DEF s
  <2>3. \A u \in Shared!Slots : Same(sharedRegions'[u], sharedRegions[u]) /\ sharedRegions'[u].is_locked = sharedRegions[u].is_locked
    <3>1. PICK r \in Region : r = sharedRegions[s]
      BY <2>2 DEF TypeInv
    <3>2. PICK e : e = [r EXCEPT !.ref_count = r.ref_count + 1]
      OBVIOUS
    <3>3. sharedRegions' = [sharedRegions EXCEPT ![s] = e]
      BY <2>2, <3>1, <3>2
    <3>4. sharedRegions \in [Shared!Slots -> Region]
      BY DEF TypeInv
    <3>5. sharedRegions'[s] = e /\ \A u \in Shared!Slots \ {s} : sharedRegions'[u] = sharedRegions[u]
      BY <2>2, <3>3, <3>4
    <3>6. Same(e, r) /\ e.is_locked = r.is_locked
      BY <3>1, <3>2, Zenon DEF Region, Same
    <3>7. ASSUME NEW u \in Shared!Slots
          PROVE  Same(sharedRegions'[u], sharedRegions[u]) /\ sharedRegions'[u].is_locked = sharedRegions[u].is_locked
      <4>1. CASE u = s
        BY <3>1, <3>5, <3>6, <4>1
      <4>2. CASE u # s
        BY <3>5, <4>2 DEF Same
      <4> QED
        BY <4>1, <4>2
    <3> QED
      BY <3>7
  <2>4. PoolInv'
    BY <2>1, <2>2, <2>3, PoolSame
  <2>5. LockInv'
    BY <2>1, <2>2, <2>3, LockSame
  <2> QED
    BY <2>1, <2>4, <2>5
<1>3. ASSUME NEW t \in Callers, Shared!Close(t) \/ Shared!Destroy(t) \/ Shared!LockMark(t) \/ Shared!UnlockBegin(t)
      PROVE  SharedInv'
  <2> DEFINE s == sharedCall[t].h.slot
             old == sharedRegions[s]
  <2>1. s \in Shared!Slots /\ old \in Region /\ sharedCall[t].op # "idle"
        /\ UNCHANGED <<mutex, pool_used, pool, gen, torn>>
    BY <1>3, RegionCalls DEF TypeInv
  <2>2. PICK r \in Region : /\ sharedRegions' = [sharedRegions EXCEPT ![s] = r] /\ Same(r, old)
                            /\ r.is_locked => old.is_locked \/ Shared!LockMark(t)
    BY <1>3, RegionCalls
  <2>3. TypeInv'
    BY <1>3, RegionTypes
  <2>4. \A u \in Shared!Slots : Same(sharedRegions'[u], sharedRegions[u])
    BY <2>1, <2>2 DEF TypeInv, Same
  <2>5. sharedCall'[t].op \notin {"copy", "locked"} /\ (~Shared!UnlockBegin(t) => sharedCall'[t].op = "idle")
        /\ \A u \in Callers \ {t} : sharedCall'[u] = sharedCall[u]
    <3>1. CASE Shared!UnlockBegin(t)
      <4> DEFINE c == [sharedCall[t] EXCEPT !.op = "unlocked"]
      <4>1. sharedCall' = [sharedCall EXCEPT ![t] = c] /\ sharedCall[t].op = "unlock"
        BY <3>1 DEF Shared!UnlockBegin
      <4>2. c.op = "unlocked"
        BY <4>1, CallFacts DEF CallOps, Shared!LookupOps
      <4> HIDE DEF c
      <4> QED
        BY <3>1, <4>1, <4>2 DEF TypeInv
    <3>2. CASE ~Shared!UnlockBegin(t)
      BY <1>3, <3>2 DEF Shared!Close, Shared!Destroy, Shared!LockMark, Shared!Return, TypeInv, Shared!Idle
    <3> QED
      BY <3>1, <3>2
  <2>6. PoolInv'
    BY <2>1, <2>3, <2>4, <2>5, PoolSame
  <2>7. CASE Shared!Close(t) \/ Shared!Destroy(t)
    <3>1. ~Shared!LockMark(t) /\ ~Shared!UnlockBegin(t)
      BY <2>7 DEF Shared!Close, Shared!Destroy, Shared!LockMark, Shared!UnlockBegin
    <3>2. \A u \in Shared!Slots : sharedRegions'[u].is_locked => sharedRegions[u].is_locked
      BY <2>1, <2>2, <3>1 DEF TypeInv
    <3>3. LockInv'
      BY <2>1, <2>3, <2>5, <3>1, <3>2, LockSame
    <3> QED
      BY <2>3, <2>6, <2>7, <3>3, CloseRef
  <2>8. CASE Shared!LockMark(t) \/ Shared!UnlockBegin(t)
    <3>1. LockInv'
      BY <2>3, <2>8, LockSteps
    <3>2. UNCHANGED <<handles, gen>>
      BY <2>8 DEF Shared!LockMark, Shared!UnlockBegin
    <3>3. \A u \in Shared!Slots : /\ sharedRegions'[u].in_use = sharedRegions[u].in_use
                                  /\ sharedRegions'[u].gen = sharedRegions[u].gen
                                  /\ sharedRegions'[u].ref_count = sharedRegions[u].ref_count
                                  /\ sharedRegions'[u].tainted = sharedRegions[u].tainted
      <4>1. PICK b \in BOOLEAN : sharedRegions' = [sharedRegions EXCEPT ![s] = [old EXCEPT !.is_locked = b]]
        BY <2>8 DEF Shared!LockMark, Shared!UnlockBegin, Shared!UnlockMark, Shared!SetRegion
      <4>2. sharedRegions \in [Shared!Slots -> Region]
        BY DEF TypeInv
      <4> HIDE DEF s, old, SharedInv
      <4>3. LET marked == [old EXCEPT !.is_locked = b]
            IN  /\ marked.in_use = old.in_use /\ marked.gen = old.gen
                /\ marked.ref_count = old.ref_count /\ marked.tainted = old.tainted
        BY <2>1, Zenon DEF Region
      <4> QED
        BY <2>1, <4>1, <4>2, <4>3 DEF old
    <3>4. \A u \in Callers : sharedCall'[u].op # "idle" => sharedCall'[u].h \in handles[u]
      <4>1. CASE Shared!UnlockBegin(t)
        <5>1. sharedCall' = [sharedCall EXCEPT ![t].op = "unlocked"] /\ sharedCall[t] \in [op : CallOps, h : Handle]
          BY <4>1, CallFacts DEF Shared!UnlockBegin, CallOps, Shared!LookupOps
        <5>2. sharedCall'[t].h = sharedCall[t].h
          BY <5>1 DEF TypeInv
        <5> QED
          BY <2>1, <2>5, <5>2 DEF RefInv
      <4>2. CASE ~Shared!UnlockBegin(t)
        BY <2>5, <4>2 DEF RefInv
      <4> QED
        BY <4>1, <4>2
    <3>5. RefInv'
      BY <3>2, <3>3, <3>4, RefSame
    <3> QED
      BY <2>3, <2>6, <3>1, <3>5
  <2> QED
    BY <1>3, <2>7, <2>8
<1>4. ASSUME NEW t \in Callers, Shared!LockTake(t) \/ Shared!UnlockEnd(t)
      PROVE  SharedInv'
  <2>1. TypeInv'
    BY <1>4, OtherTypes
  <2>2. LockInv'
    BY <1>4, <2>1, LockSteps
  <2>3. UNCHANGED <<sharedRegions, pool_used, pool, gen, torn, handles>> /\ sharedCall[t].op # "idle"
    BY <1>4 DEF Shared!LockTake, Shared!UnlockEnd
  <2>4. sharedCall'[t].op # "copy" /\ (sharedCall'[t].op # "idle" => sharedCall'[t].h = sharedCall[t].h)
        /\ \A u \in Callers \ {t} : sharedCall'[u] = sharedCall[u]
    <3>1. CASE Shared!LockTake(t)
      <4>1. sharedCall' = [sharedCall EXCEPT ![t].op = "locked"] /\ sharedCall[t] \in [op : CallOps, h : Handle]
        BY <3>1, CallFacts DEF Shared!LockTake, CallOps, Shared!LookupOps
      <4> QED
        BY <4>1 DEF TypeInv
    <3>2. CASE Shared!UnlockEnd(t)
      BY <3>2 DEF Shared!UnlockEnd, Shared!Return, TypeInv, Shared!Idle
    <3> QED
      BY <1>4, <3>1, <3>2
  <2>5. PoolInv'
    BY <2>1, <2>3, <2>4, PoolSame DEF Same
  <2>6. \A u \in Callers : sharedCall'[u].op # "idle" => sharedCall'[u].h \in handles[u]
    BY <2>3, <2>4 DEF RefInv
  <2>7. RefInv'
    BY <2>3, <2>6, RefSame
  <2> QED
    BY <2>1, <2>2, <2>5, <2>7
<1>5. ASSUME NEW t \in Callers, Shared!WriteCopy(t)
      PROVE  SharedInv'
  <2>1. TypeInv' /\ PoolInv'
    BY <1>5, OtherTypes, CopyPool
  <2>2. UNCHANGED <<sharedRegions, mutex, gen, handles>> /\ sharedCall' = [sharedCall EXCEPT ![t] = Shared!Idle]
    BY <1>5 DEF Shared!WriteCopy, Shared!Return
  <2>3. sharedCall'[t].op = "idle" /\ \A u \in Callers \ {t} : sharedCall'[u] = sharedCall[u]
    BY <2>2 DEF TypeInv, Shared!Idle
  <2>4. LockInv'
    BY <2>1, <2>2, <2>3, LockSame
  <2>5. \A u \in Callers : sharedCall'[u].op # "idle" => sharedCall'[u].h \in handles[u]
    BY <2>3 DEF RefInv
  <2>6. RefInv'
    BY <2>2, <2>5, RefSame
  <2> QED
    BY <2>1, <2>4, <2>6
<1>6. ASSUME NEW t \in Callers,
             \/ \E op \in Shared!LookupOps, h \in handles[t] : Shared!Lookup(t, op, h)
             \/ Shared!LockTimeout(t)
             \/ \E offset \in 0 .. 1, len \in 1 .. 2 : Shared!WriteSize(t, offset, len)
             \/ \E offset \in 0 .. 1 : Shared!WriteNothing(t, offset)
      PROVE  SharedInv'
  <2>1. UNCHANGED <<sharedRegions, mutex, pool_used, pool, gen, torn, handles>>
    BY <1>6, QuietCalls
  <2>2. PICK c \in Call :
          /\ sharedCall' = [sharedCall EXCEPT ![t] = c]
          /\ c.op \notin {"locked", "unlocked"}
          /\ c.op # "idle" => c.h \in handles[t] \/ (sharedCall[t].op # "idle" /\ c.h = sharedCall[t].h)
          /\ c.op = "copy" => /\ c.at = sharedRegions[c.h.slot].gen
                              /\ c.offset + c.n <= sharedRegions[c.h.slot].size
    BY <1>6, QuietCalls
  <2>3. TypeInv'
    BY <2>1, <2>2, CallType
  <2>4. sharedCall'[t] = c /\ \A u \in Callers \ {t} : sharedCall'[u] = sharedCall[u]
    BY <2>2 DEF TypeInv
  <2>5. PoolInv'
    BY <2>1, <2>2, <2>3, <2>4, PoolSame DEF Same
  <2>6. LockInv'
    BY <2>1, <2>2, <2>3, <2>4, LockSame
  <2>7. \A u \in Callers : sharedCall'[u].op # "idle" => sharedCall'[u].h \in handles[u]
    BY <2>2, <2>4 DEF RefInv
  <2>8. RefInv'
    BY <2>1, <2>7, RefSame
  <2> QED
    BY <2>3, <2>5, <2>6, <2>8
<1>7. CASE UNCHANGED Shared!vars
  <2> USE <1>7 DEF Shared!vars
  <2>1. TypeInv'
    BY DEF TypeInv
  <2>2. PoolInv'
    BY DEF PoolInv, Shared!Isolated, Shared!FullNamesAreUnique, Shared!InUse
  <2>3. LockInv'
    BY DEF LockInv
  <2>4. RefInv'
    BY DEF RefInv, Shared!RefsAreHandles, Shared!Holders, Shared!InUse
  <2> QED
    BY <2>1, <2>2, <2>3, <2>4
<1> QED
  BY <1>1, <1>2, <1>3, <1>4, <1>5, <1>6, <1>7 DEF Shared!Next

\* For any number of threads, regions, names and calls, and memory of any size: a
\* region has as many references as holders, until a stale handle reaches it; it has the
\* name of an older region only if shmem_create cut its own down to it; it is shown
\* as locked only while its mutex is held; its memory holds what was written through
\* it, unless an access was torn (shared_memory.c).
THEOREM SharedRegionsSound == ASSUME Shared!ConstantsOK PROVE Shared!Spec => []Shared!RegionsSound
<1>1. Shared!Init => SharedInv
  BY SharedInit
<1>2. SharedInv /\ [Shared!Next]_(Shared!vars) => SharedInv'
  BY SharedNext
<1>3. SharedInv => Shared!RegionsSound
  BY SharedInvImplies
<1> QED
  BY <1>1, <1>2, <1>3, PTL DEF Shared!Spec

-----------------------------------------------------------------------------
(* The kernel's components side by side: what is proved of one component      *)
(* holds of it beside the others, with which it shares no variable.           *)

kernelVars ==
  <<focus, vars, serviceVars, timerVars, memoryVars, busVars, sharedVars,
    schedVars, resourceVars>>

\* A step of the kernel is a step of each component, or leaves it alone.
LEMMA KernelSteps ==
  ASSUME [KernelNext]_kernelVars
  PROVE  /\ [Next]_vars
         /\ [Service!Next]_(Service!vars)
         /\ [Timer!Next]_(Timer!vars)
         /\ [Bus!Next]_(Bus!vars)
         /\ [Shared!Next]_(Shared!vars)
         /\ [Memory!Next]_(Memory!vars)
<1>1. [Next]_vars
  BY DEF KernelNext, kernelVars
<1>2. [Timer!Next]_(Timer!vars)
  BY DEF KernelNext, kernelVars, timerVars, Timer!vars
<1>3. [Bus!Next]_(Bus!vars)
  BY DEF KernelNext, kernelVars, busVars, Bus!vars
<1>4. [Shared!Next]_(Shared!vars)
  BY DEF KernelNext, kernelVars, sharedVars, Shared!vars
<1>5. [Service!Next]_(Service!vars)
  BY DEF KernelNext, kernelVars, serviceVars, Service!vars
<1>6. [Memory!Next]_(Memory!vars)
  BY DEF KernelNext, kernelVars, memoryVars, Memory!vars
<1> QED
  BY <1>1, <1>2, <1>3, <1>4, <1>5, <1>6

\* Services keep their handles and their dependencies, but for those that were
\* unregistered while they ran, and a walk that nobody disturbed leaves none out,
\* in the kernel too (service.c).
THEOREM KernelServices == KernelSpec => []ServicesSound
<1>1. KernelInit => Service!Init
  BY DEF KernelInit
<1>2. [KernelNext]_kernelVars => [Service!Next]_(Service!vars)
  BY KernelSteps
<1>3. Service!ServicesSound => ServicesSound
  BY DEF ServicesSound
<1>4. Service!Spec => []Service!ServicesSound
  BY ServicesCorrect, PTL
<1> QED
  BY <1>1, <1>2, <1>3, <1>4, PTL DEF KernelSpec, kernelVars, Service!Spec

\* A timer that its owner sees stopped, paused, expired or destroyed stays
\* quiet in the kernel too (timer.c).
THEOREM KernelTimers == KernelSpec => []TimersSound
<1>1. KernelInit => Timer!Init
  BY DEF KernelInit
<1>2. [KernelNext]_kernelVars => [Timer!Next]_(Timer!vars)
  BY KernelSteps
<1>3. Timer!TimersSound => TimersSound
  BY DEF TimersSound
<1>4. Timer!Spec => []Timer!TimersSound
  BY StoppedTimersAreQuiet
<1> QED
  BY <1>1, <1>2, <1>3, <1>4, PTL DEF KernelSpec, kernelVars, Timer!Spec

\* Every block of the kernel's heap is in one place, with a caller, in a region or
\* under a pool, or was the buffer of a PSRAM pool that is destroyed; the leak check
\* never invents a leak, and a fixed pool counts what its users hold (memory.c,
\* psram.c).
THEOREM KernelHeap == KernelSpec => []MemorySound
<1>1. KernelInit => Memory!Init
  BY DEF KernelInit
<1>2. [KernelNext]_kernelVars => [Memory!Next]_(Memory!vars)
  BY KernelSteps
<1>3. Memory!MemorySound => MemorySound
  BY DEF MemorySound
<1>4. Memory!Spec => []Memory!MemorySound
  BY MemoryIsKept
<1> QED
  BY <1>1, <1>2, <1>3, <1>4, PTL DEF KernelSpec, kernelVars, Memory!Spec

\* A message calls nobody twice and misses nobody but by a removal, and shared
\* regions keep their references, full names, locks and memory, in the kernel too
\* (message_bus.c, shared_memory.c).
THEOREM KernelIpc == KernelSpec => []IpcSound
<1>0. Shared!ConstantsOK
  BY RegionsAssumption
<1>1. KernelInit => Bus!Init /\ Shared!Init
  BY DEF KernelInit
<1>2. [KernelNext]_kernelVars => [Bus!Next]_(Bus!vars) /\ [Shared!Next]_(Shared!vars)
  BY KernelSteps
<1>3. Bus!BusSound /\ Shared!RegionsSound => IpcSound
  BY DEF IpcSound
<1>4. Bus!Spec => []Bus!BusSound
  BY MessagesReachSubscribers
<1>5. Shared!Spec => []Shared!RegionsSound
  BY <1>0, SharedRegionsSound
<1> QED
  BY <1>1, <1>2, <1>3, <1>4, <1>5, PTL DEF KernelSpec, kernelVars, Bus!Spec, Shared!Spec
=============================================================================
