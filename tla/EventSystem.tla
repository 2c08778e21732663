----------------------------- MODULE EventSystem -----------------------------
(***************************************************************************)
(* The event system (src/akira/kernel/event.c): subscriptions, synchronous *)
(* delivery and the queue of posted events.                                *)
(*                                                                         *)
(* The mutex is Zephyr's recursive one and stays locked while handlers     *)
(* run, so a handler may call the API again and other threads may not.  A  *)
(* call that runs no handler is one step; a delivery is a frame that       *)
(* advances from handler to handler, with the frames of the calls made by  *)
(* handlers on top.  The semaphore is outside the mutex: akira_event_post  *)
(* gives it after unlocking, akira_event_wait takes it before locking.     *)
(*                                                                         *)
(* A posted event carries its number, a delivered one only its type.       *)
(* pending, removed and missed are history.  Operations whose name ends in *)
(* Bug are mutations.  The proofs follow the properties.                   *)
(***************************************************************************)
EXTENDS Integers, Sequences, FiniteSets, SequenceTheorems, FiniteSetTheorems,
        NaturalsInduction, TLAPS

CONSTANTS
  Threads,
  NoThread,    \* nobody holds the mutex
  Types,       \* event types, numbers as in akira_event_type_t
  MaxHandlers, \* AKIRA_MAX_EVENT_HANDLERS
  QueueSize,   \* AKIRA_EVENT_QUEUE_SIZE
  MaxPosts,    \* bound: events posted
  MaxDepth     \* bound: deliveries nested in handlers

ASSUME ThreadsAssumption == NoThread \notin Threads /\ IsFiniteSet(Threads)
ASSUME TypesAssumption == Types \subseteq Nat
ASSUME SizesAssumption == MaxHandlers \in Nat \ {0} /\ QueueSize \in Nat \ {0}
ASSUME BoundsAssumption == MaxPosts \in Nat /\ MaxDepth \in Nat

VARIABLES
  subscriptions, subscription_count,
  queue, queue_head, queue_tail, queue_count,
  queue_sem,
  owner,    \* the thread that has the mutex between two steps
  frames,   \* its deliveries, innermost last
  thread,   \* where each thread is outside the mutex, and what it waits for
  posted,   \* number of the last posted event
  pending,  \* history: events accepted by post, not yet taken, oldest first
  removed,  \* history: a wait took an event since the queue was last cleared
  missed    \* history: a wait used a token and found nothing since then

queueVars == <<queue, queue_head, queue_tail, queue_count>>
historyVars == <<pending, removed, missed>>
vars == <<subscriptions, subscription_count, queueVars, queue_sem, owner,
          frames, thread, posted, historyVars>>

Slots == 1 .. MaxHandlers
NoSlot == 0
Cells == 0 .. QueueSize - 1

Event == [type: Types, number: 1 .. MaxPosts]
NoEvent == [type |-> 0, number |-> 0]  \* a cell that was never written
Unsubscribed == [in_use |-> FALSE, type_min |-> 0, type_max |-> 0]

At(i) == (queue_head + i) % QueueSize
Contents == [i \in 1 .. queue_count |-> queue[At(i - 1)]]

InUse == {s \in Slots : subscriptions[s].in_use}
Lowest(S) == CHOOSE s \in S : \A t \in S : s <= t

Matches(type, s) ==
  /\ s \in InUse
  /\ type \in subscriptions[s].type_min .. subscriptions[s].type_max

-----------------------------------------------------------------------------
(* Deliveries.  next is the loop's index, slot the handler that runs.  due *)
(* and dropped are history: the subscriptions that were there when the     *)
(* delivery began, still are and were not called, and whether the handler  *)
(* that runs was unsubscribed in the meantime by the delivery itself.      *)

Delivery(type) ==
  [type |-> type, next |-> 1, slot |-> NoSlot,
   due |-> {s \in Slots : Matches(type, s)}, dropped |-> FALSE]

Top == frames[Len(frames)]
Below == SubSeq(frames, 1, Len(frames) - 1)
Advance(f) == frames' = Append(Below, f)

\* The slots deliver_event still has to look at.
RemainingBug(f) == {s \in f.next .. subscription_count : Matches(f.type, s)}
Remaining(f) == {s \in f.next .. MaxHandlers : Matches(f.type, s)}

\* Frames after slot s was unsubscribed.
Dropped(s) ==
  [i \in DOMAIN frames |-> [frames[i] EXCEPT
     !.due = @ \ {s}, !.dropped = @ \/ frames[i].slot = s]]

\* t calls the API: from its own code with the mutex free, or from a handler.
InHandler(t) == owner = t /\ Top.slot # NoSlot
CanLock(t) == \/ owner = NoThread /\ thread[t].pc = "idle"
              \/ InHandler(t)

Idle == [pc |-> "idle", type |-> 0]

-----------------------------------------------------------------------------
Subscribe(t, lo, hi) ==
  /\ CanLock(t) /\ InUse # Slots
  /\ LET s == Lowest(Slots \ InUse)
     IN  subscriptions' = [subscriptions EXCEPT ![s] =
           [in_use |-> TRUE, type_min |-> lo, type_max |-> hi]]
  /\ subscription_count' = subscription_count + 1
  /\ UNCHANGED <<queueVars, queue_sem, owner, frames, thread, posted, historyVars>>

UnsubscribeLock(t) == CanLock(t)

\* Only the thread that delivers may find itself dropped by its own handlers.
Unsubscribe(t, s) ==
  /\ UnsubscribeLock(t) /\ s \in InUse
  /\ subscriptions' = [subscriptions EXCEPT ![s] = Unsubscribed]
  /\ subscription_count' = subscription_count - 1
  /\ frames' = IF owner = t THEN Dropped(s) ELSE frames
  /\ UNCHANGED <<queueVars, queue_sem, owner, thread, posted, historyVars>>

\* akira_event_publish and akira_event_emit.
Publish(t, type) ==
  /\ CanLock(t) /\ Len(frames) < MaxDepth
  /\ frames' = Append(frames, Delivery(type))
  /\ owner' = t
  /\ UNCHANGED <<subscriptions, subscription_count, queueVars, queue_sem,
                 thread, posted, historyVars>>

\* k_sem_give; the limit of the semaphore is the size of the queue.
Given == IF queue_sem < QueueSize THEN queue_sem + 1 ELSE queue_sem

NextTailBug == (queue_tail + 1) % (QueueSize + 1)
NextTail == (queue_tail + 1) % QueueSize

\* A handler's post gives the semaphore with the mutex still held by the
\* delivery around it: nobody can tell that from one step.
Post(t, type) ==
  LET event == [type |-> type, number |-> posted + 1]
  IN  /\ CanLock(t) /\ posted < MaxPosts
      /\ queue_count < QueueSize
      /\ queue' = [queue EXCEPT ![queue_tail] = event]
      /\ queue_tail' = NextTail
      /\ queue_count' = queue_count + 1
      /\ posted' = posted + 1
      /\ pending' = Append(pending, event)
      /\ IF InHandler(t)
         THEN queue_sem' = Given /\ UNCHANGED thread
         ELSE thread' = [thread EXCEPT ![t].pc = "give"] /\ UNCHANGED queue_sem
      /\ UNCHANGED <<subscriptions, subscription_count, queue_head, owner,
                     frames, removed, missed>>

\* The event is dropped: the queue is full.
PostRefused(t) ==
  /\ CanLock(t) /\ queue_count >= QueueSize
  /\ UNCHANGED vars

GiveToken == Given

Give(t) ==
  /\ thread[t].pc = "give"
  /\ queue_sem' = GiveToken
  /\ thread' = [thread EXCEPT ![t] = Idle]
  /\ UNCHANGED <<subscriptions, subscription_count, queueVars, owner, frames,
                 posted, historyVars>>

\* The pending events without this one.
Without(i) == SubSeq(pending, 1, i - 1) \o SubSeq(pending, i + 1, Len(pending))
Taken(event) ==
  IF \E i \in DOMAIN pending : pending[i] = event
    THEN Without(CHOOSE i \in DOMAIN pending : pending[i] = event)
    ELSE pending

\* One round of akira_event_process: dequeue, and deliver under the mutex.
Process(t) ==
  LET event == queue[queue_head]
  IN  /\ owner = NoThread /\ thread[t].pc \in {"idle", "process"}
      /\ queue_count > 0
      /\ queue_head' = (queue_head + 1) % QueueSize
      /\ queue_count' = queue_count - 1
      /\ frames' = <<Delivery(event.type)>>
      /\ owner' = t
      /\ thread' = [thread EXCEPT ![t].pc = "process"]
      /\ pending' = Taken(event)
      /\ UNCHANGED <<subscriptions, subscription_count, queue, queue_tail,
                     queue_sem, posted, removed, missed>>

ProcessEnd(t) ==
  /\ owner = NoThread /\ thread[t].pc = "process"
  /\ queue_count = 0
  /\ thread' = [thread EXCEPT ![t] = Idle]
  /\ UNCHANGED <<subscriptions, subscription_count, queueVars, queue_sem,
                 owner, frames, posted, historyVars>>

HeadAfterClearBug == queue_head
HeadAfterClear == 0

\* akira_event_clear_queue.  k_sem_reset makes every k_sem_take fail, and
\* akira_event_wait then returns as if its time were over.
Clear(t) ==
  /\ CanLock(t)
  /\ queue_head' = HeadAfterClear /\ queue_tail' = 0 /\ queue_count' = 0
  /\ queue_sem' = 0
  /\ thread' = [u \in Threads |-> IF thread[u].pc = "wait" THEN Idle ELSE thread[u]]
  /\ pending' = <<>> /\ removed' = FALSE /\ missed' = FALSE
  /\ UNCHANGED <<subscriptions, subscription_count, queue, owner, frames, posted>>

-----------------------------------------------------------------------------
(* deliver_event. *)

\* The next matching handler starts.
Call ==
  /\ owner # NoThread /\ Top.slot = NoSlot
  /\ Remaining(Top) # {}
  /\ LET s == Lowest(Remaining(Top))
     IN  Advance([Top EXCEPT !.slot = s, !.next = s + 1, !.due = @ \ {s}])
  /\ UNCHANGED <<subscriptions, subscription_count, queueVars, queue_sem,
                 owner, thread, posted, historyVars>>

\* It returns 0: the loop goes on.
Continue ==
  /\ owner # NoThread /\ Top.slot # NoSlot
  /\ Advance([Top EXCEPT !.slot = NoSlot, !.dropped = FALSE])
  /\ UNCHANGED <<subscriptions, subscription_count, queueVars, queue_sem,
                 owner, thread, posted, historyVars>>

\* The loop is over.
Exhausted ==
  /\ owner # NoThread /\ Top.slot = NoSlot
  /\ Remaining(Top) = {} /\ Top.next <= MaxHandlers
  /\ Advance([Top EXCEPT !.next = MaxHandlers + 1])
  /\ UNCHANGED <<subscriptions, subscription_count, queueVars, queue_sem,
                 owner, thread, posted, historyVars>>

\* End of the delivery, after the loop or because a handler returned non-zero;
\* the outermost one unlocks.
Leave ==
  /\ owner # NoThread
  /\ Top.slot # NoSlot \/ Top.next > MaxHandlers
  /\ frames' = Below
  /\ owner' = IF Below = <<>> THEN NoThread ELSE owner
  /\ UNCHANGED <<subscriptions, subscription_count, queueVars, queue_sem,
                 thread, posted, historyVars>>

-----------------------------------------------------------------------------
(* akira_event_wait, called outside handlers. *)

Wait(t, type) ==
  /\ owner # t /\ thread[t].pc = "idle"
  /\ thread' = [thread EXCEPT ![t] = [pc |-> "wait", type |-> type]]
  /\ UNCHANGED <<subscriptions, subscription_count, queueVars, queue_sem,
                 owner, frames, posted, historyVars>>

TakeToken(t) ==
  /\ thread[t].pc = "wait" /\ queue_sem > 0
  /\ queue_sem' = queue_sem - 1
  /\ thread' = [thread EXCEPT ![t].pc = "woken"]
  /\ UNCHANGED <<subscriptions, subscription_count, queueVars, owner, frames,
                 posted, historyVars>>

WaitTimeout(t) ==
  /\ thread[t].pc = "wait"
  /\ thread' = [thread EXCEPT ![t] = Idle]
  /\ UNCHANGED <<subscriptions, subscription_count, queueVars, queue_sem,
                 owner, frames, posted, historyVars>>

Found(type) == {i \in 0 .. queue_count - 1 : queue[At(i)].type = type}

\* The first event of the type is taken and the later ones move up;
\* queue_tail stays where it is.
WaitFound(t) ==
  LET i == Lowest(Found(thread[t].type))
  IN  /\ thread[t].pc = "woken" /\ owner = NoThread
      /\ Found(thread[t].type) # {}
      /\ queue' = [c \in Cells |->
           IF \E j \in i .. queue_count - 2 : c = At(j)
             THEN queue[(c + 1) % QueueSize] ELSE queue[c]]
      /\ queue_count' = queue_count - 1
      /\ pending' = Taken(queue[At(i)])
      /\ removed' = TRUE
      /\ thread' = [thread EXCEPT ![t] = Idle]
      /\ UNCHANGED <<subscriptions, subscription_count, queue_head, queue_tail,
                     queue_sem, owner, frames, posted, missed>>

\* No such event: wait again, unless the time is over.
WaitMissed(t) ==
  /\ thread[t].pc = "woken" /\ owner = NoThread
  /\ Found(thread[t].type) = {}
  /\ missed' = TRUE
  /\ \/ thread' = [thread EXCEPT ![t].pc = "wait"]
     \/ thread' = [thread EXCEPT ![t] = Idle]
  /\ UNCHANGED <<subscriptions, subscription_count, queueVars, queue_sem,
                 owner, frames, posted, pending, removed>>

-----------------------------------------------------------------------------
Init ==
  /\ subscriptions = [s \in Slots |-> Unsubscribed]
  /\ subscription_count = 0
  /\ queue = [c \in Cells |-> NoEvent]
  /\ queue_head = 0 /\ queue_tail = 0 /\ queue_count = 0
  /\ queue_sem = 0
  /\ owner = NoThread
  /\ frames = <<>>
  /\ thread = [t \in Threads |-> Idle]
  /\ posted = 0
  /\ pending = <<>> /\ removed = FALSE /\ missed = FALSE

ApiCall(t) ==
  \/ \E lo \in Types, hi \in Types : lo <= hi /\ Subscribe(t, lo, hi)
  \/ \E s \in Slots : Unsubscribe(t, s)
  \/ \E type \in Types : Publish(t, type) \/ Post(t, type) \/ Wait(t, type)
  \/ PostRefused(t)
  \/ Process(t)
  \/ Clear(t)

Resume(t) ==
  Give(t) \/ ProcessEnd(t) \/ TakeToken(t) \/ WaitTimeout(t) \/ WaitFound(t) \/ WaitMissed(t)

Deliver == Call \/ Continue \/ Exhausted \/ Leave

Next == (\E t \in Threads : ApiCall(t) \/ Resume(t)) \/ Deliver

Spec == Init /\ [][Next]_vars

-----------------------------------------------------------------------------
Frame == [type: Types, next: 1 .. MaxHandlers + 1, slot: Slots \cup {NoSlot},
          due: SUBSET Slots, dropped: BOOLEAN]

Subscription == [in_use: BOOLEAN, type_min: Types \cup {0}, type_max: Types \cup {0}]

Thread == [pc: {"idle", "give", "process", "wait", "woken"}, type: Types \cup {0}]

\* Every variable keeps its type; the mutex is held exactly while events are
\* delivered, by a thread that is not in the middle of another call.
TypeOK ==
  /\ subscriptions \in [Slots -> Subscription]
  /\ subscription_count \in 0 .. MaxHandlers
  /\ queue \in [Cells -> Event \cup {NoEvent}]
  /\ queue_head \in Cells /\ queue_tail \in Cells /\ queue_count \in 0 .. QueueSize
  /\ queue_sem \in 0 .. QueueSize
  /\ owner \in Threads \cup {NoThread}
  /\ frames \in Seq(Frame)
  /\ owner = NoThread <=> frames = <<>>
  /\ thread \in [Threads -> Thread]
  /\ owner \in Threads => thread[owner].pc \in {"idle", "process"}
  /\ posted \in 0 .. MaxPosts
  /\ pending \in Seq(Event) /\ removed \in BOOLEAN /\ missed \in BOOLEAN

\* The ring holds exactly the events that were accepted and not yet taken,
\* in the order of akira_event_post, whatever handlers post and clear while
\* an event is delivered; as long as no akira_event_wait took one.
QueueHoldsPending == ~removed => Contents = pending

\* The same without the exception ("Queues event for delivery by the event
\* processing thread").
QueueAlwaysHoldsPending == Contents = pending

\* Every subscription that matched when a delivery began, and that nobody
\* removed since, has been called when the loop has gone past it, whatever
\* its handlers subscribe, unsubscribe and publish in between; only a
\* handler that stops the propagation keeps the event from it.
DeliveryComplete ==
  \A i \in DOMAIN frames :
    \A s \in frames[i].due : s >= frames[i].next

\* A handler that runs is subscribed, unless a handler of the same delivery
\* removed it: once akira_event_unsubscribe has returned in another thread,
\* the handler and its user_data are no longer used.
RunningIsSubscribed ==
  \A i \in DOMAIN frames :
    LET f == frames[i] IN f.slot # NoSlot => f.slot \in InUse \/ f.dropped

\* A delivery misses nobody and calls nobody who left.
DeliveriesSound == DeliveryComplete /\ RunningIsSubscribed

InPhase(pc) == {t \in Threads : thread[t].pc = pc}

\* As long as no waiter used up a token on an event of another type, there is
\* a token for every queued event, in the semaphore, about to be given or just
\* taken: nobody sleeps in akira_event_wait while its event is in the queue.
TokensCoverEvents ==
  ~missed => queue_sem + Cardinality(InPhase("give")) + Cardinality(InPhase("woken")) >= queue_count

\* The ring and its semaphore agree with what was posted.
QueueSound == QueueHoldsPending /\ TokensCoverEvents

-----------------------------------------------------------------------------
(* Proofs: deliveries.                                                     *)

\* Frames as they are for any history of the queue: a stale cell may be delivered.
AnyFrame == [type: Types \cup {0}, next: 1 .. MaxHandlers + 1, slot: Slots \cup {NoSlot},
             due: SUBSET Slots, dropped: BOOLEAN]

\* What is still due matches and lies ahead; the handler that runs is subscribed
\* or was dropped by the delivery itself.
FrameOK(f) ==
  /\ \A s \in f.due : s >= f.next /\ Matches(f.type, s)
  /\ f.slot # NoSlot => f.slot \in InUse \/ f.dropped

\* The invariant of deliveries: every frame is right, and what it may be filled
\* with is of its type.
DeliveryInv ==
  /\ subscriptions \in [Slots -> Subscription]
  /\ queue \in [Cells -> Event \cup {NoEvent}] /\ queue_head \in Cells
  /\ posted \in Nat
  /\ owner \in Threads \cup {NoThread}
  /\ frames \in Seq(AnyFrame)
  /\ owner = NoThread <=> frames = <<>>
  /\ \A i \in DOMAIN frames : FrameOK(frames[i])

\* The invariant of deliveries gives the property.
LEMMA DeliveryInvImplies == DeliveryInv => DeliveriesSound
BY DEF DeliveryInv, FrameOK, DeliveriesSound, DeliveryComplete, RunningIsSubscribed

\* The order of slots, for the well-founded induction on them.
LessThan == {p \in Nat \X Nat : p[1] < p[2]}

\* The search of a slot finds the lowest one.
LEMMA LowestIsLeast ==
  ASSUME NEW S \in SUBSET Nat, S # {}
  PROVE  Lowest(S) \in S /\ \A t \in S : Lowest(S) <= t
<1>1. IsWellFoundedOn(LessThan, Nat)
  BY NatLessThanWellFounded DEF LessThan, OpToRel
<1>2. PICK x \in S : \A y \in S : ~(<<y, x>> \in LessThan)
  BY <1>1, WFMin
<1>3. ASSUME NEW y \in S PROVE x <= y
  <2>1. x \in Nat /\ y \in Nat /\ <<y, x>> \in Nat \X Nat
    OBVIOUS
  <2>2. ~(y < x)
    BY <1>2, <2>1 DEF LessThan
  <2> QED
    BY <2>1, <2>2
<1> QED
  BY <1>3 DEF Lowest

\* The innermost delivery and those around it.
LEMMA TopFacts ==
  ASSUME frames \in Seq(AnyFrame), frames # <<>>
  PROVE  /\ Top \in AnyFrame /\ Len(frames) \in DOMAIN frames
         /\ Below \in Seq(AnyFrame) /\ Len(Below) = Len(frames) - 1
         /\ \A i \in DOMAIN Below : i \in DOMAIN frames /\ Below[i] = frames[i]
<1>1. Len(frames) \in Nat /\ Len(frames) >= 1 /\ DOMAIN frames = 1 .. Len(frames)
  OBVIOUS
<1> QED
  BY <1>1 DEF Top, Below

\* One more delivery on top.
LEMMA PushOK ==
  ASSUME NEW F \in Seq(AnyFrame), NEW f \in AnyFrame, FrameOK(f)',
         \A i \in DOMAIN F : FrameOK(F[i])'
  PROVE  /\ Append(F, f) \in Seq(AnyFrame) /\ Append(F, f) # <<>>
         /\ \A i \in DOMAIN Append(F, f) : FrameOK(Append(F, f)[i])'
BY DEF Top

\* A delivery starts with every subscription that matches still due (deliver_event).
LEMMA DeliveryOK ==
  ASSUME NEW type \in Types \cup {0}
  PROVE  Delivery(type) \in AnyFrame /\ FrameOK(Delivery(type))
BY SizesAssumption DEF Delivery, AnyFrame, FrameOK, Slots, NoSlot, Matches, InUse

-----------------------------------------------------------------------------
(* Deliveries, operation by operation. *)

\* A subscription takes a free slot, so no delivery has it due or running.
LEMMA SubscribeInv ==
  ASSUME DeliveryInv, NEW t \in Threads, NEW lo \in Types, NEW hi \in Types, Subscribe(t, lo, hi)
  PROVE  DeliveryInv'
<1> DEFINE s == Lowest(Slots \ InUse)
<1>1. s \in Slots \ InUse
  BY LowestIsLeast DEF Subscribe, Slots, InUse
<1>2. subscriptions' = [subscriptions EXCEPT ![s] = [in_use |-> TRUE, type_min |-> lo, type_max |-> hi]]
  BY DEF Subscribe
<1>3. subscriptions' \in [Slots -> Subscription]
  BY <1>2 DEF DeliveryInv, Subscription
<1>4. \A u \in InUse : u \in InUse' /\ subscriptions'[u] = subscriptions[u]
  BY <1>1, <1>2 DEF DeliveryInv, InUse
<1>5. ASSUME NEW i \in DOMAIN frames PROVE FrameOK(frames[i])'
  BY <1>4, <1>5 DEF DeliveryInv, FrameOK, Matches, Subscribe
<1> QED
  BY <1>3, <1>5 DEF DeliveryInv, Subscribe, queueVars

\* A subscription that goes is taken out of the deliveries that have it due, and
\* marks those that run its handler.
LEMMA UnsubscribeInv ==
  ASSUME DeliveryInv, NEW t \in Threads, NEW s \in Slots, Unsubscribe(t, s)
  PROVE  DeliveryInv'
<1>1. subscriptions' \in [Slots -> Subscription]
  BY DEF DeliveryInv, Unsubscribe, Unsubscribed, Subscription
<1>2. \A u \in InUse : u # s => u \in InUse' /\ subscriptions'[u] = subscriptions[u]
  BY DEF DeliveryInv, InUse, Unsubscribe
<1>3. CASE owner = t
  <2>1. frames' = Dropped(s)
    BY <1>3 DEF Unsubscribe
  <2> DEFINE cut(i) == [frames[i] EXCEPT !.due = @ \ {s}, !.dropped = @ \/ frames[i].slot = s]
  <2>2. ASSUME NEW i \in DOMAIN frames
        PROVE  /\ cut(i) \in AnyFrame
               /\ cut(i).due = frames[i].due \ {s} /\ cut(i).type = frames[i].type
               /\ cut(i).next = frames[i].next /\ cut(i).slot = frames[i].slot
               /\ cut(i).dropped <=> frames[i].dropped \/ frames[i].slot = s
    <3>1. frames[i] \in AnyFrame
      BY DEF DeliveryInv
    <3> DEFINE d == frames[i].dropped \/ frames[i].slot = s
    <3>2. d \in BOOLEAN
      OBVIOUS
    <3>3. cut(i) = [frames[i] EXCEPT !.due = frames[i].due \ {s}, !.dropped = d]
      BY Zenon
    <3> HIDE DEF d, cut
    <3>4. cut(i) \in AnyFrame /\ cut(i).dropped = d
      BY <3>1, <3>2, <3>3 DEF AnyFrame
    <3>5. /\ cut(i).due = frames[i].due \ {s} /\ cut(i).type = frames[i].type
          /\ cut(i).next = frames[i].next /\ cut(i).slot = frames[i].slot
      BY <3>1, <3>3 DEF AnyFrame
    <3> USE DEF d
    <3> QED
      BY <3>4, <3>5, Zenon
  <2>3. frames' = [i \in DOMAIN frames |-> cut(i)]
    BY <2>1, Zenon DEF Dropped
  <2> HIDE DEF cut
  <2>5. frames' \in Seq(AnyFrame) /\ DOMAIN frames' = DOMAIN frames
    <3>1. frames \in Seq(AnyFrame)
      BY DEF DeliveryInv
    <3>2. DOMAIN frames = 1 .. Len(frames) /\ Len(frames) \in Nat
      BY <3>1
    <3> QED
      BY <2>2, <2>3, <3>2
  <2>6. ASSUME NEW i \in DOMAIN frames PROVE FrameOK(frames[i])'
    <3>1. frames'[i] = cut(i)
      BY <2>3
    <3>2. FrameOK(frames[i])
      BY DEF DeliveryInv
    <3>3. ASSUME NEW u \in frames'[i].due
          PROVE  u >= frames'[i].next /\ Matches(frames[i].type, u)'
      <4>1. u \in frames[i].due /\ u # s
        BY <2>2, <3>1
      <4>2. u >= frames[i].next /\ Matches(frames[i].type, u)
        BY <3>2, <4>1 DEF FrameOK
      <4>3. frames'[i].next = frames[i].next /\ frames'[i].type = frames[i].type
        BY <2>2, <3>1
      <4>4. u \in InUse' /\ subscriptions'[u] = subscriptions[u]
        BY <1>2, <4>1, <4>2 DEF Matches
      <4> QED
        BY <4>2, <4>3, <4>4 DEF Matches
    <3>4. frames'[i].slot # NoSlot => frames'[i].slot \in InUse' \/ frames'[i].dropped
      BY <1>2, <2>2, <3>1, <3>2 DEF FrameOK
    <3> QED
      BY <3>3, <3>4, Zenon DEF FrameOK
  <2>4. frames' = <<>> <=> frames = <<>>
    BY <2>5 DEF DeliveryInv
  <2>7. queue' = queue /\ queue_head' = queue_head /\ owner' = owner /\ posted' = posted
    BY DEF Unsubscribe, queueVars
  <2> QED
    BY <1>1, <2>4, <2>5, <2>6, <2>7 DEF DeliveryInv, Subscription
<1>4. CASE owner # t
  <2>1. frames = <<>> /\ frames' = <<>>
    BY <1>4 DEF Unsubscribe, UnsubscribeLock, CanLock, InHandler, DeliveryInv
  <2>2. queue' = queue /\ queue_head' = queue_head /\ owner' = owner /\ posted' = posted
    BY DEF Unsubscribe, queueVars
  <2>3. frames' \in Seq(AnyFrame) /\ DOMAIN frames' = {} /\ DOMAIN frames = {}
    BY <2>1
  <2>4. subscriptions' \in [Slots -> Subscription]' /\ owner' \in Threads \cup {NoThread}
    BY <1>1, <2>2 DEF DeliveryInv, Subscription
  <2> QED
    BY <2>1, <2>2, <2>3, <2>4 DEF DeliveryInv
<1> QED
  BY <1>3, <1>4

\* akira_event_publish starts a delivery on top of those that run.
LEMMA PublishInv ==
  ASSUME DeliveryInv, NEW t \in Threads, NEW type \in Types, Publish(t, type)
  PROVE  DeliveryInv'
<1>1. Delivery(type) \in AnyFrame /\ FrameOK(Delivery(type))
  BY DeliveryOK
<1>2. \A f : FrameOK(f) => FrameOK(f)'
  BY DEF Publish, FrameOK, Matches, InUse
<1>3. frames' = Append(frames, Delivery(type)) /\ owner' = t
  BY DEF Publish
<1>4. frames' \in Seq(AnyFrame) /\ frames' # <<>> /\ \A i \in DOMAIN frames' : FrameOK(frames'[i])
  BY <1>1, <1>3 DEF DeliveryInv
<1> QED
  BY <1>2, <1>3, <1>4, ThreadsAssumption DEF DeliveryInv, Publish, queueVars

\* The operations of the ring leave deliveries alone.
LEMMA QueueChange ==
  ASSUME DeliveryInv, UNCHANGED <<subscriptions, owner, frames>>,
         queue' \in [Cells -> Event \cup {NoEvent}], queue_head' \in Cells, posted' \in Nat
  PROVE  DeliveryInv'
<1>1. \A f : FrameOK(f) => FrameOK(f)'
  BY DEF FrameOK, Matches, InUse
<1> QED
  BY <1>1 DEF DeliveryInv

\* akira_event_post writes a cell of the ring.
LEMMA PostInv ==
  ASSUME DeliveryInv, NEW t \in Threads, NEW type \in Types,
         Post(t, type)
  PROVE  DeliveryInv'
<1>1. [type |-> type, number |-> posted + 1] \in Event
  BY BoundsAssumption DEF Post, Event, DeliveryInv
<1>2. queue' \in [Cells -> Event \cup {NoEvent}]
  BY <1>1 DEF Post, DeliveryInv
<1> QED
  BY <1>2, QueueChange DEF Post, DeliveryInv

\* akira_event_process delivers what the head of the ring holds, stale or not.
LEMMA ProcessInv ==
  ASSUME DeliveryInv, NEW t \in Threads, Process(t)
  PROVE  DeliveryInv'
<1>1. queue[queue_head].type \in Types \cup {0}
  BY DEF DeliveryInv, Event, NoEvent
<1> DEFINE f == Delivery(queue[queue_head].type)
<1>2. f \in AnyFrame /\ FrameOK(f)
  BY <1>1, DeliveryOK
<1>3. frames' = <<f>> /\ owner' = t
  BY DEF Process
<1>4. \A g : FrameOK(g) => FrameOK(g)'
  BY DEF Process, FrameOK, Matches, InUse
<1>5. queue_head' \in Cells
  BY SizesAssumption DEF Process, DeliveryInv, Cells
<1>6. frames' \in Seq(AnyFrame) /\ frames' # <<>> /\ \A i \in DOMAIN frames' : FrameOK(frames'[i])
  BY <1>2, <1>3
<1>7. \A i \in DOMAIN frames' : FrameOK(frames[i])'
  BY <1>4, <1>6
<1>8. subscriptions' = subscriptions /\ queue' = queue /\ posted' = posted
  BY DEF Process
<1> QED
  BY <1>3, <1>5, <1>6, <1>7, <1>8, ThreadsAssumption DEF DeliveryInv, Subscription

\* akira_event_wait moves cells of the ring up.
LEMMA WaitFoundInv ==
  ASSUME DeliveryInv, NEW t \in Threads, WaitFound(t)
  PROVE  DeliveryInv'
<1>1. ASSUME NEW c \in Cells PROVE queue'[c] \in Event \cup {NoEvent}
  <2>1. (c + 1) % QueueSize \in Cells
    BY SizesAssumption DEF Cells
  <2>2. queue[c] \in Event \cup {NoEvent} /\ queue[(c + 1) % QueueSize] \in Event \cup {NoEvent}
    BY <2>1 DEF DeliveryInv
  <2>3. queue'[c] = queue[c] \/ queue'[c] = queue[(c + 1) % QueueSize]
    BY DEF WaitFound
  <2> QED
    BY <2>2, <2>3
<1>2. queue' \in [Cells -> Event \cup {NoEvent}]
  BY <1>1 DEF WaitFound
<1> QED
  BY <1>2, QueueChange DEF WaitFound, DeliveryInv

\* A frame on top is replaced by one that is right, or taken away.
LEMMA TopChange ==
  ASSUME DeliveryInv, owner # NoThread, UNCHANGED <<subscriptions, queue, queue_head, owner, posted>>,
         NEW f \in AnyFrame, FrameOK(f), frames' = Append(Below, f)
  PROVE  DeliveryInv'
<1>1. frames # <<>> /\ frames \in Seq(AnyFrame)
  BY DEF DeliveryInv
<1>2. Below \in Seq(AnyFrame) /\ \A i \in DOMAIN Below : FrameOK(Below[i])
  BY <1>1, TopFacts DEF DeliveryInv
<1>3. \A g : FrameOK(g) => FrameOK(g)'
  BY DEF FrameOK, Matches, InUse
<1>4. frames' \in Seq(AnyFrame) /\ frames' # <<>> /\ \A i \in DOMAIN frames' : FrameOK(frames'[i])
  BY <1>2
<1> QED
  BY <1>3, <1>4 DEF DeliveryInv, Subscription

\* The next handler is the lowest one left: whoever is still due comes later.
LEMMA CallInv == ASSUME DeliveryInv, Call PROVE DeliveryInv'
<1> DEFINE s == Lowest(Remaining(Top))
           f == [Top EXCEPT !.slot = s, !.next = s + 1, !.due = @ \ {s}]
<1>1. frames # <<>> /\ frames \in Seq(AnyFrame)
  BY DEF Call, DeliveryInv
<1>2. Top \in AnyFrame /\ FrameOK(Top) /\ \A i \in DOMAIN Below : FrameOK(Below[i])
  BY <1>1, TopFacts DEF DeliveryInv, Top
<1>3. Remaining(Top) \subseteq Nat
  BY <1>2, SizesAssumption DEF Remaining, AnyFrame
<1>4. s \in Remaining(Top) /\ \A u \in Remaining(Top) : s <= u
  BY <1>3, LowestIsLeast DEF Call
<1>5. s \in Slots /\ s \in InUse /\ Matches(Top.type, s)
  BY <1>4 DEF Remaining, Matches, InUse
<1>6. f \in AnyFrame
  <2>1. s + 1 \in 1 .. MaxHandlers + 1
    BY <1>5, SizesAssumption DEF Slots
  <2> HIDE DEF s
  <2> QED
    BY <1>2, <1>5, <2>1 DEF AnyFrame
<1>7. FrameOK(f)
  <2>1. f.slot = s /\ f.due = Top.due \ {s} /\ f.next = s + 1 /\ f.type = Top.type
    BY <1>2 DEF AnyFrame
  <2>2. ASSUME NEW u \in f.due PROVE u >= f.next /\ Matches(f.type, u)
    <3>1. u \in Top.due /\ u # s
      BY <2>1
    <3>2. u >= Top.next /\ Matches(Top.type, u) /\ u \in Slots
      BY <1>2, <3>1 DEF FrameOK, AnyFrame
    <3>3. u \in Remaining(Top)
      BY <1>2, <3>2, SizesAssumption DEF Remaining, Slots, AnyFrame
    <3>4. s <= u /\ s \in Nat /\ u \in Nat
      BY <1>3, <1>4, <3>3
    <3> QED
      BY <2>1, <3>1, <3>2, <3>4
  <2> QED
    BY <1>5, <2>1, <2>2, Zenon DEF FrameOK
<1>8. frames' = Append(Below, f)
  BY Zenon DEF Call, Advance
<1> HIDE DEF f
<1> QED
  BY <1>6, <1>7, <1>8, TopChange DEF Call, queueVars

\* The end of a delivery leaves those around it as they were.
LEMMA LeaveInv == ASSUME DeliveryInv, Leave PROVE DeliveryInv'
<1>1. frames # <<>> /\ frames \in Seq(AnyFrame)
  BY DEF Leave, DeliveryInv
<1>2. Below \in Seq(AnyFrame) /\ \A i \in DOMAIN Below : FrameOK(Below[i])
  BY <1>1, TopFacts DEF DeliveryInv
<1>3. \A g : FrameOK(g) => FrameOK(g)'
  BY DEF Leave, FrameOK, Matches, InUse
<1>4. frames' = Below /\ owner' = IF Below = <<>> THEN NoThread ELSE owner
  BY DEF Leave
<1>5. UNCHANGED <<subscriptions, queue, queue_head, posted>> /\ owner # NoThread
  BY DEF Leave, queueVars
<1>6. frames' \in Seq(AnyFrame) /\ \A i \in DOMAIN frames' : FrameOK(frames'[i])
  BY <1>2, <1>4
<1>7. owner' = NoThread <=> frames' = <<>>
  BY <1>4, <1>5
<1>8. owner' \in Threads \cup {NoThread}
  BY <1>4 DEF DeliveryInv
<1> QED
  BY <1>3, <1>5, <1>6, <1>7, <1>8 DEF DeliveryInv, Subscription

\* After a handler, and when no slot is left, what is due lies ahead.
LEMMA ContinueInv == ASSUME DeliveryInv, Continue \/ Exhausted PROVE DeliveryInv'
<1>1. frames # <<>> /\ frames \in Seq(AnyFrame) /\ owner # NoThread
  BY DEF Continue, Exhausted, DeliveryInv
<1>2. Top \in AnyFrame /\ FrameOK(Top)
  BY <1>1, TopFacts DEF DeliveryInv, Top
<1>3. UNCHANGED <<subscriptions, queue, queue_head, owner, posted>>
  BY DEF Continue, Exhausted, queueVars
<1>4. CASE Continue
  <2> DEFINE f == [Top EXCEPT !.slot = NoSlot, !.dropped = FALSE]
  <2>1. f \in AnyFrame /\ f.due = Top.due /\ f.next = Top.next /\ f.type = Top.type /\ f.slot = NoSlot
    BY <1>2 DEF AnyFrame
  <2>2. FrameOK(f)
    BY <1>2, <2>1 DEF FrameOK
  <2>3. frames' = Append(Below, f)
    BY <1>4, Zenon DEF Continue, Advance
  <2> HIDE DEF f
  <2> QED
    BY <1>1, <1>3, <2>1, <2>2, <2>3, TopChange
<1>5. CASE Exhausted
  <2> DEFINE f == [Top EXCEPT !.next = MaxHandlers + 1]
  <2>1. f \in AnyFrame /\ f.due = Top.due /\ f.type = Top.type /\ f.slot = Top.slot
    BY <1>2, SizesAssumption DEF AnyFrame
  <2>2. ASSUME NEW u \in Top.due PROVE FALSE
    <3>1. u >= Top.next /\ Matches(Top.type, u) /\ u \in Slots
      BY <1>2 DEF FrameOK, AnyFrame
    <3>2. u \in Remaining(Top)
      BY <1>2, <3>1, SizesAssumption DEF Remaining, Slots, AnyFrame
    <3> QED
      BY <1>5, <3>2 DEF Exhausted
  <2>3. FrameOK(f)
    BY <1>5, <2>1, <2>2 DEF FrameOK, Exhausted
  <2>4. frames' = Append(Below, f)
    BY <1>5, Zenon DEF Exhausted, Advance
  <2> HIDE DEF f
  <2> QED
    BY <1>1, <1>3, <2>1, <2>3, <2>4, TopChange
<1> QED
  BY <1>4, <1>5

\* No delivery, no subscription.
LEMMA InitDelivery == Init => DeliveryInv
BY SizesAssumption DEF Init, DeliveryInv, Unsubscribed, Subscription, Cells, NoEvent

\* Every step keeps the invariant of deliveries.
LEMMA NextDelivery == DeliveryInv /\ [Next]_vars => DeliveryInv'
<1> SUFFICES ASSUME DeliveryInv, [Next]_vars PROVE DeliveryInv'
  OBVIOUS
<1>1. ASSUME NEW t \in Threads, ApiCall(t) PROVE DeliveryInv'
  <2>1. CASE PostRefused(t)
    BY <2>1, QueueChange DEF PostRefused, vars, queueVars, DeliveryInv
  <2>2. CASE Clear(t)
    BY <2>2, QueueChange, SizesAssumption DEF Clear, Cells, HeadAfterClear, DeliveryInv
  <2>3. ASSUME NEW type \in Types, Wait(t, type) PROVE DeliveryInv'
    BY <2>3, QueueChange DEF Wait, queueVars, DeliveryInv
  <2> QED
    BY <1>1, <2>1, <2>2, <2>3, SubscribeInv, UnsubscribeInv, PublishInv, PostInv, ProcessInv DEF ApiCall
<1>2. ASSUME NEW t \in Threads, Resume(t) PROVE DeliveryInv'
  <2>1. CASE Give(t) \/ ProcessEnd(t) \/ TakeToken(t) \/ WaitTimeout(t) \/ WaitMissed(t)
    BY <2>1, QueueChange DEF Give, ProcessEnd, TakeToken, WaitTimeout, WaitMissed, queueVars, DeliveryInv
  <2> QED
    BY <1>2, <2>1, WaitFoundInv DEF Resume
<1>3. CASE Deliver
  BY <1>3, CallInv, ContinueInv, LeaveInv DEF Deliver
<1>4. CASE UNCHANGED vars
  BY <1>4, QueueChange DEF vars, queueVars, DeliveryInv
<1> QED
  BY <1>1, <1>2, <1>3, <1>4 DEF Next

\* A delivery misses nobody and calls nobody who left (deliver_event and
\* akira_event_unsubscribe), for any number of threads, handlers and cells and
\* any depth of deliveries nested in handlers.
THEOREM DeliveriesReachSubscribers == Spec => []DeliveriesSound
<1>1. Spec => []DeliveryInv
  BY InitDelivery, NextDelivery, PTL DEF Spec
<1> QED
  BY <1>1, DeliveryInvImplies, PTL

-----------------------------------------------------------------------------
(* Tokens. *)

\* The invariant of the tokens.
TokenInv ==
  /\ thread \in [Threads -> Thread]
  /\ queue_sem \in 0 .. QueueSize /\ queue_count \in 0 .. QueueSize
  /\ TokensCoverEvents

\* How many threads are about to give a token, and how many have just taken one.
Giving == Cardinality(InPhase("give"))
Woken == Cardinality(InPhase("woken"))

\* Both numbers are naturals.
LEMMA PhaseCounts == Giving \in Nat /\ Woken \in Nat
<1>1. InPhase("give") \subseteq Threads /\ InPhase("woken") \subseteq Threads
  BY DEF InPhase
<1> QED
  BY <1>1, ThreadsAssumption, FS_Subset, FS_CardinalityType DEF Giving, Woken

\* The property of the tokens, in these numbers.
LEMMA TokensInCounts ==
  /\ TokensCoverEvents <=> (~missed => queue_sem + Giving + Woken >= queue_count)
  /\ TokensCoverEvents' <=> (~missed' => queue_sem' + Giving' + Woken' >= queue_count')
BY DEF TokensCoverEvents, Giving, Woken

\* The number of elements after one thread was put into a set or taken out.
LEMMA CountAfter ==
  ASSUME NEW A \in SUBSET Threads, NEW t \in Threads, NEW in \in BOOLEAN
  PROVE  LET B == IF in THEN A \cup {t} ELSE A \ {t}
         IN  Cardinality(B) = Cardinality(A) + (IF in THEN 1 ELSE 0) - (IF t \in A THEN 1 ELSE 0)
<1>1. IsFiniteSet(A) /\ Cardinality(A) \in Nat
  BY ThreadsAssumption, FS_Subset, FS_CardinalityType
<1>2. CASE in /\ t \in A
  <2>1. A \cup {t} = A
    BY <1>2
  <2> QED
    BY <1>1, <1>2, <2>1
<1>3. CASE in /\ t \notin A
  <2>1. Cardinality(A \cup {t}) = Cardinality(A) + 1
    BY <1>1, <1>3, FS_AddElement
  <2> QED
    BY <1>1, <1>3, <2>1
<1>4. CASE ~in /\ t \in A
  <2>1. Cardinality(A \ {t}) = Cardinality(A) - 1
    BY <1>1, <1>4, FS_RemoveElement
  <2> QED
    BY <1>1, <1>4, <2>1
<1>5. CASE ~in /\ t \notin A
  <2>1. A \ {t} = A
    BY <1>5
  <2>2. Cardinality(A \ {t}) = Cardinality(A)
    BY <2>1, Zenon
  <2> QED
    BY <1>1, <1>5, <2>2
<1> QED
  BY <1>2, <1>3, <1>4, <1>5

\* One thread goes from one phase to another.
LEMMA PhaseMoves ==
  ASSUME thread \in [Threads -> Thread], NEW t \in Threads, NEW r \in Thread,
         thread' = [thread EXCEPT ![t] = r]
  PROVE  /\ thread' \in [Threads -> Thread]
         /\ Giving' = Giving + (IF r.pc = "give" THEN 1 ELSE 0) - (IF thread[t].pc = "give" THEN 1 ELSE 0)
         /\ Woken' = Woken + (IF r.pc = "woken" THEN 1 ELSE 0) - (IF thread[t].pc = "woken" THEN 1 ELSE 0)
<1>1. InPhase("give") \in SUBSET Threads /\ InPhase("woken") \in SUBSET Threads
  BY DEF InPhase
<1>2. /\ t \in InPhase("give") <=> thread[t].pc = "give"
      /\ t \in InPhase("woken") <=> thread[t].pc = "woken"
  BY DEF InPhase
<1>3. InPhase("give")' = IF r.pc = "give" THEN InPhase("give") \cup {t} ELSE InPhase("give") \ {t}
  BY DEF InPhase
<1>4. InPhase("woken")' = IF r.pc = "woken" THEN InPhase("woken") \cup {t} ELSE InPhase("woken") \ {t}
  BY DEF InPhase
<1>5. Giving' = Giving + (IF r.pc = "give" THEN 1 ELSE 0) - (IF t \in InPhase("give") THEN 1 ELSE 0)
  <2> DEFINE in == r.pc = "give"
             A == InPhase("give")
             B == IF in THEN A \cup {t} ELSE A \ {t}
  <2>1. in \in BOOLEAN /\ A \in SUBSET Threads
    BY <1>1
  <2>2. Cardinality(B) = Cardinality(A) + (IF in THEN 1 ELSE 0) - (IF t \in A THEN 1 ELSE 0)
    <3> HIDE DEF in, A
    <3> QED
      BY <2>1, CountAfter
  <2>3. Giving = Cardinality(A) /\ Giving' = Cardinality(B)
    BY <1>3 DEF Giving
  <2> QED
    BY <2>2, <2>3
<1>6. Woken' = Woken + (IF r.pc = "woken" THEN 1 ELSE 0) - (IF t \in InPhase("woken") THEN 1 ELSE 0)
  <2> DEFINE in == r.pc = "woken"
             A == InPhase("woken")
             B == IF in THEN A \cup {t} ELSE A \ {t}
  <2>1. in \in BOOLEAN /\ A \in SUBSET Threads
    BY <1>1
  <2>2. Cardinality(B) = Cardinality(A) + (IF in THEN 1 ELSE 0) - (IF t \in A THEN 1 ELSE 0)
    <3> HIDE DEF in, A
    <3> QED
      BY <2>1, CountAfter
  <2>3. Woken = Cardinality(A) /\ Woken' = Cardinality(B)
    BY <1>4 DEF Woken
  <2> QED
    BY <2>2, <2>3
<1>7. thread' \in [Threads -> Thread]
  OBVIOUS
<1> QED
  BY <1>2, <1>5, <1>6, <1>7

\* The steps that touch neither tokens nor the number of events.
LEMMA TokenChange ==
  ASSUME TokenInv, UNCHANGED <<thread, queue_sem, queue_count, missed>>
  PROVE  TokenInv'
BY DEF TokenInv, TokensCoverEvents, InPhase

\* No token, no event.
LEMMA InitTokens == Init => TokenInv
<1> SUFFICES ASSUME Init PROVE TokenInv
  OBVIOUS
<1>1. InPhase("give") = {} /\ InPhase("woken") = {}
  BY DEF Init, Idle, InPhase
<1>2. Cardinality({}) = 0
  BY FS_EmptySet
<1>3. thread \in [Threads -> Thread]
  BY DEF Init, Idle, Thread
<1>4. Giving = 0 /\ Woken = 0
  BY <1>1, <1>2 DEF Giving, Woken
<1>5. queue_sem = 0 /\ queue_count = 0
  BY DEF Init
<1> QED
  BY <1>3, <1>4, <1>5, TokensInCounts, SizesAssumption DEF TokenInv

\* akira_event_post adds an event and a token, or the promise of one.
LEMMA PostTokens ==
  ASSUME TokenInv, NEW t \in Threads, NEW type \in Types, Post(t, type)
  PROVE  TokenInv'
<1>1. queue_count' = queue_count + 1 /\ queue_count' \in 0 .. QueueSize /\ missed' = missed
  BY SizesAssumption DEF Post, TokenInv
<1>2. CASE InHandler(t)
  <2>1. queue_sem' = Given /\ thread' = thread
    BY <1>2 DEF Post
  <2>2. Giving' = Giving /\ Woken' = Woken
    BY <2>1 DEF Giving, Woken, InPhase
  <2> QED
    BY TokensInCounts, <1>1, <2>1, <2>2, PhaseCounts, SizesAssumption DEF Given, TokenInv
<1>3. CASE ~InHandler(t)
  <2>1. thread[t].pc = "idle" /\ queue_sem' = queue_sem
    BY <1>3 DEF Post, CanLock
  <2> DEFINE r == [thread[t] EXCEPT !.pc = "give"]
  <2>2. thread' = [thread EXCEPT ![t] = r]
    BY <1>3 DEF Post
  <2>3. r \in Thread /\ r.pc = "give"
    BY DEF TokenInv, Thread
  <2> HIDE DEF r
  <2>4. thread' \in [Threads -> Thread] /\ Giving' = Giving + 1 /\ Woken' = Woken
    <3>1. thread \in [Threads -> Thread] /\ r \in Thread /\ thread' = [thread EXCEPT ![t] = r]
      BY <2>2, <2>3 DEF TokenInv
    <3>2. /\ thread' \in [Threads -> Thread]
          /\ Giving' = Giving + (IF r.pc = "give" THEN 1 ELSE 0) - (IF thread[t].pc = "give" THEN 1 ELSE 0)
          /\ Woken' = Woken + (IF r.pc = "woken" THEN 1 ELSE 0) - (IF thread[t].pc = "woken" THEN 1 ELSE 0)
      BY <3>1, PhaseMoves
    <3>3. thread[t].pc = "idle" /\ r.pc = "give"
      BY <2>1, <2>3
    <3> QED
      BY <3>2, <3>3, PhaseCounts
  <2> QED
    BY TokensInCounts, <1>1, <2>1, <2>4, PhaseCounts DEF TokenInv
<1> QED
  BY <1>2, <1>3

\* A thread outside the API.
LEMMA IdleThread == Idle \in Thread /\ Idle.pc = "idle"
BY DEF Idle, Thread

\* A thread goes on: it gives the token, takes one, finds an event or not, or its
\* time is over.
LEMMA ResumeTokens ==
  ASSUME TokenInv, NEW t \in Threads, Resume(t)
  PROVE  TokenInv'
<1>0. thread[t] \in Thread
  BY DEF TokenInv
<1>1. CASE Give(t)
  <2>1. Giving' = Giving - 1 /\ Woken' = Woken /\ thread' \in [Threads -> Thread]
    <3>1. thread \in [Threads -> Thread] /\ Idle \in Thread /\ thread' = [thread EXCEPT ![t] = Idle]
      BY <1>1, IdleThread DEF Give, TokenInv
    <3>2. /\ thread' \in [Threads -> Thread]
         /\ Giving' = Giving + (IF Idle.pc = "give" THEN 1 ELSE 0) - (IF thread[t].pc = "give" THEN 1 ELSE 0)
         /\ Woken' = Woken + (IF Idle.pc = "woken" THEN 1 ELSE 0) - (IF thread[t].pc = "woken" THEN 1 ELSE 0)
      BY <3>1, PhaseMoves
    <3>3. thread[t].pc = "give" /\ Idle.pc = "idle"
      BY <1>1, IdleThread DEF Give
    <3> QED
      BY <3>2, <3>3, PhaseCounts
  <2>2. queue_count' = queue_count /\ missed' = missed
    BY <1>1 DEF Give, queueVars, historyVars
  <2>3. queue_sem' = IF queue_sem < QueueSize THEN queue_sem + 1 ELSE queue_sem
    BY <1>1 DEF Give, GiveToken, Given
  <2>4. queue_sem' \in 0 .. QueueSize
    BY <2>3, SizesAssumption DEF TokenInv
  <2>5. ~missed' => queue_sem' + Giving' + Woken' >= queue_count'
    <3> SUFFICES ASSUME ~missed' PROVE queue_sem' + Giving' + Woken' >= queue_count'
      OBVIOUS
    <3>1. queue_sem + Giving + Woken >= queue_count
      BY <2>2, TokensInCounts DEF TokenInv
    <3>2. queue_sem \in 0 .. QueueSize /\ queue_count \in 0 .. QueueSize
      BY DEF TokenInv
    <3>3. CASE queue_sem < QueueSize
      <4>1. queue_sem' = queue_sem + 1
        BY <2>3, <3>3
      <4> QED
        BY <2>1, <2>2, <3>1, <3>2, <4>1, PhaseCounts, SizesAssumption
    <3>4. CASE queue_sem = QueueSize
      <4>1. queue_sem' = QueueSize
        BY <2>3, <3>4, SizesAssumption
      <4>2. Giving \in Nat /\ Giving' \in Nat /\ Woken' \in Nat
        <5>1. InPhase("give")' \subseteq Threads /\ InPhase("woken")' \subseteq Threads
          BY DEF InPhase
        <5> QED
          BY <5>1, PhaseCounts, ThreadsAssumption, FS_Subset, FS_CardinalityType DEF Giving, Woken
      <4> DEFINE g == Giving'
                 w == Woken'
      <4>3. QueueSize + g + w >= queue_count
        <5>1. g \in Nat /\ w \in Nat
          BY <4>2
        <5> HIDE DEF g, w
        <5> QED
          BY <3>2, <5>1, SizesAssumption
      <4> QED
        BY <2>2, <4>1, <4>3
    <3> QED
      BY <3>2, <3>3, <3>4, SizesAssumption
  <2>6. queue_count' \in 0 .. QueueSize
    BY <2>2 DEF TokenInv
  <2> QED
    BY TokensInCounts, <2>1, <2>4, <2>5, <2>6 DEF TokenInv
<1>2. CASE ProcessEnd(t) \/ WaitTimeout(t)
  <2>1. Giving' = Giving /\ Woken' = Woken /\ thread' \in [Threads -> Thread]
    <3>1. thread \in [Threads -> Thread] /\ Idle \in Thread /\ thread' = [thread EXCEPT ![t] = Idle]
      BY <1>2, IdleThread DEF ProcessEnd, WaitTimeout, TokenInv
    <3>2. /\ thread' \in [Threads -> Thread]
          /\ Giving' = Giving + (IF Idle.pc = "give" THEN 1 ELSE 0) - (IF thread[t].pc = "give" THEN 1 ELSE 0)
          /\ Woken' = Woken + (IF Idle.pc = "woken" THEN 1 ELSE 0) - (IF thread[t].pc = "woken" THEN 1 ELSE 0)
      BY <3>1, PhaseMoves
    <3>3. thread[t].pc \in {"process", "wait"} /\ Idle.pc = "idle"
      BY <1>2, IdleThread DEF ProcessEnd, WaitTimeout
    <3> QED
      BY <3>2, <3>3, PhaseCounts
  <2> QED
    BY TokensInCounts, <1>2, <2>1 DEF ProcessEnd, WaitTimeout, queueVars, historyVars, TokenInv
<1>3. CASE TakeToken(t)
  <2> DEFINE r == [thread[t] EXCEPT !.pc = "woken"]
  <2>1. r \in Thread /\ r.pc = "woken" /\ thread' = [thread EXCEPT ![t] = r]
    BY <1>0, <1>3 DEF Thread, TakeToken
  <2> HIDE DEF r
  <2>2. Giving' = Giving /\ Woken' = Woken + 1 /\ thread' \in [Threads -> Thread]
    <3>1. thread \in [Threads -> Thread] /\ r \in Thread /\ thread' = [thread EXCEPT ![t] = r]
      BY <2>1 DEF TokenInv
    <3>2. /\ thread' \in [Threads -> Thread]
          /\ Giving' = Giving + (IF r.pc = "give" THEN 1 ELSE 0) - (IF thread[t].pc = "give" THEN 1 ELSE 0)
          /\ Woken' = Woken + (IF r.pc = "woken" THEN 1 ELSE 0) - (IF thread[t].pc = "woken" THEN 1 ELSE 0)
      BY <3>1, PhaseMoves
    <3>3. thread[t].pc = "wait" /\ r.pc = "woken"
      BY <1>3, <2>1 DEF TakeToken
    <3> QED
      BY <3>2, <3>3, PhaseCounts
  <2> QED
    BY TokensInCounts, <1>3, <2>2, PhaseCounts, SizesAssumption
    DEF TakeToken, queueVars, historyVars, TokenInv
<1>4. CASE WaitFound(t)
  <2>1. Giving' = Giving /\ Woken' = Woken - 1 /\ thread' \in [Threads -> Thread]
    <3>1. thread \in [Threads -> Thread] /\ Idle \in Thread /\ thread' = [thread EXCEPT ![t] = Idle]
      BY <1>4, IdleThread DEF WaitFound, TokenInv
    <3>2. /\ thread' \in [Threads -> Thread]
          /\ Giving' = Giving + (IF Idle.pc = "give" THEN 1 ELSE 0) - (IF thread[t].pc = "give" THEN 1 ELSE 0)
          /\ Woken' = Woken + (IF Idle.pc = "woken" THEN 1 ELSE 0) - (IF thread[t].pc = "woken" THEN 1 ELSE 0)
      BY <3>1, PhaseMoves
    <3>3. thread[t].pc = "woken" /\ Idle.pc = "idle"
      BY <1>4, IdleThread DEF WaitFound
    <3> QED
      BY <3>2, <3>3, PhaseCounts
  <2>2. PICK i \in 0 .. queue_count - 1 : TRUE
    BY <1>4 DEF WaitFound, Found
  <2>3. queue_count >= 1
    BY <2>2 DEF TokenInv
  <2>4. queue_count' = queue_count - 1 /\ queue_sem' = queue_sem /\ missed' = missed
    BY <1>4 DEF WaitFound
  <2> QED
    BY TokensInCounts, <2>1, <2>3, <2>4, PhaseCounts, SizesAssumption DEF TokenInv
<1>5. CASE WaitMissed(t)
  <2>1. [thread[t] EXCEPT !.pc = "wait"] \in Thread
    BY <1>0 DEF Thread
  <2>2. thread' \in [Threads -> Thread]
    BY <1>5, <2>1, IdleThread DEF WaitMissed, TokenInv
  <2> QED
    BY <1>5, <2>2 DEF WaitMissed, queueVars, TokenInv, TokensCoverEvents
<1> QED
  BY <1>1, <1>2, <1>3, <1>4, <1>5 DEF Resume

\* A thread calls the API.
LEMMA ApiTokens ==
  ASSUME TokenInv, NEW t \in Threads, ApiCall(t)
  PROVE  TokenInv'
<1>0. thread[t] \in Thread
  BY DEF TokenInv
<1>1. ASSUME NEW lo \in Types, NEW hi \in Types, Subscribe(t, lo, hi) PROVE TokenInv'
  BY <1>1, TokenChange DEF Subscribe, queueVars, historyVars
<1>2. ASSUME NEW s \in Slots, Unsubscribe(t, s) PROVE TokenInv'
  BY <1>2, TokenChange DEF Unsubscribe, queueVars, historyVars
<1>3. ASSUME NEW type \in Types, Publish(t, type) PROVE TokenInv'
  BY <1>3, TokenChange DEF Publish, queueVars, historyVars
<1>4. ASSUME NEW type \in Types, Wait(t, type) PROVE TokenInv'
  <2> DEFINE r == [pc |-> "wait", type |-> type]
  <2>1. r \in Thread /\ r.pc = "wait" /\ thread' = [thread EXCEPT ![t] = r]
    BY <1>4 DEF Thread, Wait
  <2> HIDE DEF r
  <2>2. Giving' = Giving /\ Woken' = Woken /\ thread' \in [Threads -> Thread]
    <3>1. thread \in [Threads -> Thread] /\ r \in Thread /\ thread' = [thread EXCEPT ![t] = r]
      BY <2>1 DEF TokenInv
    <3>2. /\ thread' \in [Threads -> Thread]
          /\ Giving' = Giving + (IF r.pc = "give" THEN 1 ELSE 0) - (IF thread[t].pc = "give" THEN 1 ELSE 0)
          /\ Woken' = Woken + (IF r.pc = "woken" THEN 1 ELSE 0) - (IF thread[t].pc = "woken" THEN 1 ELSE 0)
      BY <3>1, PhaseMoves
    <3>3. thread[t].pc = "idle" /\ r.pc = "wait"
      BY <1>4, <2>1 DEF Wait
    <3> QED
      BY <3>2, <3>3, PhaseCounts
  <2> QED
    BY TokensInCounts, <1>4, <2>2 DEF Wait, queueVars, historyVars, TokenInv
<1>5. CASE PostRefused(t)
  BY <1>5, TokenChange DEF PostRefused, vars, queueVars, historyVars
<1>6. CASE Process(t)
  <2> DEFINE r == [thread[t] EXCEPT !.pc = "process"]
  <2>1. r \in Thread /\ r.pc = "process" /\ thread' = [thread EXCEPT ![t] = r]
    BY <1>0, <1>6 DEF Thread, Process
  <2> HIDE DEF r
  <2>2. Giving' = Giving /\ Woken' = Woken /\ thread' \in [Threads -> Thread]
    <3>1. thread \in [Threads -> Thread] /\ r \in Thread /\ thread' = [thread EXCEPT ![t] = r]
      BY <2>1 DEF TokenInv
    <3>2. /\ thread' \in [Threads -> Thread]
          /\ Giving' = Giving + (IF r.pc = "give" THEN 1 ELSE 0) - (IF thread[t].pc = "give" THEN 1 ELSE 0)
          /\ Woken' = Woken + (IF r.pc = "woken" THEN 1 ELSE 0) - (IF thread[t].pc = "woken" THEN 1 ELSE 0)
      BY <3>1, PhaseMoves
    <3>3. thread[t].pc \in {"idle", "process"} /\ r.pc = "process"
      BY <1>6, <2>1 DEF Process
    <3> QED
      BY <3>2, <3>3, PhaseCounts
  <2>3. queue_count' = queue_count - 1 /\ queue_count > 0 /\ queue_sem' = queue_sem /\ missed' = missed
    BY <1>6 DEF Process
  <2> QED
    BY TokensInCounts, <2>2, <2>3, PhaseCounts, SizesAssumption DEF TokenInv
<1>7. CASE Clear(t)
  <2>1. thread' \in [Threads -> Thread]
    BY <1>7, IdleThread DEF Clear, TokenInv
  <2>2. queue_sem' = 0 /\ queue_count' = 0
    BY <1>7 DEF Clear
  <2>3. Giving' \in Nat /\ Woken' \in Nat
    <3>1. InPhase("give")' \subseteq Threads /\ InPhase("woken")' \subseteq Threads
      BY DEF InPhase
    <3> QED
      BY <3>1, ThreadsAssumption, FS_Subset, FS_CardinalityType DEF Giving, Woken
  <2>4. queue_sem' \in 0 .. QueueSize /\ queue_count' \in 0 .. QueueSize
    BY <2>2, SizesAssumption
  <2> DEFINE g == Giving'
             w == Woken'
  <2>5. queue_sem' + g + w >= queue_count'
    <3>1. g \in Nat /\ w \in Nat
      BY <2>3
    <3> HIDE DEF g, w
    <3>2. 0 + g + w >= 0
      BY <3>1
    <3> QED
      BY <2>2, <3>2
  <2> QED
    BY TokensInCounts, <2>1, <2>4, <2>5 DEF TokenInv
<1> QED
  BY <1>1, <1>2, <1>3, <1>4, <1>5, <1>6, <1>7, PostTokens DEF ApiCall

\* Every step keeps the invariant of the tokens.
LEMMA NextTokens == TokenInv /\ [Next]_vars => TokenInv'
<1> SUFFICES ASSUME TokenInv, [Next]_vars PROVE TokenInv'
  OBVIOUS
<1>1. CASE Deliver
  BY <1>1, TokenChange DEF Deliver, Call, Continue, Exhausted, Leave, queueVars, historyVars
<1>2. CASE UNCHANGED vars
  BY <1>2, TokenChange DEF vars, queueVars, historyVars
<1> QED
  BY <1>1, <1>2, ApiTokens, ResumeTokens DEF Next

\* As long as no waiter used up a token on an event of another type, every queued
\* event has a token that is in queue_sem, about to be given by akira_event_post
\* or just taken by akira_event_wait, for any number of threads, events and cells.
THEOREM NobodySleepsOnAnEvent == Spec => []TokensCoverEvents
<1>1. Spec => []TokenInv
  BY InitTokens, NextTokens, PTL DEF Spec
<1>2. TokenInv => TokensCoverEvents
  BY DEF TokenInv
<1> QED
  BY <1>1, <1>2, PTL

-----------------------------------------------------------------------------
(* The ring. *)

\* Events are accepted in the order of their numbers.
InOrder(s) == \A i, j \in DOMAIN s : i < j => s[i].number < s[j].number

\* What the ring and the record of pending events have to do with each other.
RingInv ==
  /\ queue \in [Cells -> Event \cup {NoEvent}]
  /\ queue_head \in Cells /\ queue_tail \in Cells /\ queue_count \in 0 .. QueueSize
  /\ posted \in 0 .. MaxPosts
  /\ pending \in Seq(Event) /\ InOrder(pending) /\ removed \in BOOLEAN
  /\ \A i \in DOMAIN pending : pending[i].number <= posted
  /\ ~removed =>
       /\ queue_tail = At(queue_count)
       /\ Len(pending) = queue_count
       /\ \A i \in 1 .. queue_count : queue[At(i - 1)] = pending[i]

\* The cells that were written: all of them, or those before the tail.
WrittenInv ==
  \/ \A c \in Cells : queue[c] \in Event
  \/ /\ queue_head + queue_count <= queue_tail
     /\ \A c \in 0 .. queue_tail - 1 : queue[c] \in Event

\* An index of the ring.
Wrap(x) == x % QueueSize

\* An index wraps at most once, because nothing is further away than the ring is long.
LEMMA Wrapped ==
  ASSUME NEW x \in 0 .. 2 * QueueSize - 1
  PROVE  Wrap(x) = IF x < QueueSize THEN x ELSE x - QueueSize
<1>1. QueueSize \in Nat \ {0}
  BY SizesAssumption
<1>2. CASE x < QueueSize
  BY <1>1, <1>2 DEF Wrap
<1>3. CASE ~(x < QueueSize)
  BY <1>1, <1>3 DEF Wrap
<1> QED
  BY <1>2, <1>3

\* Taking one pending event away leaves the others in their order.
LEMMA WithoutOK ==
  ASSUME NEW i \in DOMAIN pending, pending \in Seq(Event), InOrder(pending),
         \A j \in DOMAIN pending : pending[j].number <= posted
  PROVE  /\ Without(i) \in Seq(Event) /\ InOrder(Without(i))
         /\ \A j \in DOMAIN Without(i) : Without(i)[j].number <= posted
         /\ i = 1 => Without(i) = Tail(pending)
<1> DEFINE p == SubSeq(pending, 1, i - 1)
           q == SubSeq(pending, i + 1, Len(pending))
<1>1. i \in 1 .. Len(pending) /\ Len(pending) \in Nat
  OBVIOUS
<1>2. p \in Seq(Event) /\ Len(p) = i - 1 /\ \A j \in 1 .. i - 1 : p[j] = pending[j]
  BY <1>1
<1>3. q \in Seq(Event) /\ Len(q) = Len(pending) - i
        /\ \A j \in 1 .. Len(pending) - i : q[j] = pending[i + j]
  BY <1>1
<1> HIDE DEF p, q
<1> DEFINE r == p \o q
<1>4. r \in Seq(Event) /\ Len(r) = Len(pending) - 1
  BY <1>1, <1>2, <1>3
<1>5. \A j \in 1 .. Len(pending) - 1 : r[j] = IF j < i THEN pending[j] ELSE pending[j + 1]
  <2>1. TAKE j \in 1 .. Len(pending) - 1
  <2>2. CASE j < i
    BY <1>1, <1>2, <1>3, <2>2
  <2>3. CASE ~(j < i)
    <3>1. r[j] = q[j - (i - 1)]
      BY <1>1, <1>2, <1>3, <2>3, SMTT(30)
    <3>2. j - (i - 1) \in 1 .. Len(pending) - i /\ i + (j - (i - 1)) = j + 1
      BY <1>1, <2>3
    <3> QED
      BY <1>3, <2>3, <3>1, <3>2
  <2> QED
    BY <2>2, <2>3
<1>6. Without(i) = r
  BY DEF Without, p, q
<1> HIDE DEF r
<1>7. DOMAIN r = 1 .. Len(pending) - 1
  BY <1>4
<1>8. InOrder(r)
  <2> SUFFICES ASSUME NEW j \in 1 .. Len(pending) - 1, NEW k \in 1 .. Len(pending) - 1, j < k
               PROVE  r[j].number < r[k].number
    BY <1>7 DEF InOrder
  <2>2. r[k] \in {pending[k], pending[k + 1]} /\ (k < i => r[k] = pending[k])
          /\ (~(k < i) => r[k] = pending[k + 1])
    BY <1>5
  <2>3. j \in DOMAIN pending /\ k \in DOMAIN pending
          /\ j + 1 \in DOMAIN pending /\ k + 1 \in DOMAIN pending
    BY <1>1
  <2>4. \A a, b \in DOMAIN pending : a < b => pending[a].number < pending[b].number
    BY DEF InOrder
  <2>5. CASE j < i
    <3>1. r[j] = pending[j]
      BY <1>5, <2>5
    <3>2. j < k /\ j < k + 1
      BY <1>1
    <3> QED
      BY <2>2, <2>3, <2>4, <3>1, <3>2
  <2>6. CASE ~(j < i)
    BY <1>1, <1>5, <2>2, <2>3, <2>4, <2>6, SMTT(30)
  <2> QED
    BY <2>5, <2>6
<1>9. \A j \in DOMAIN r : r[j].number <= posted
  BY <1>1, <1>5, <1>7
<1>10. i = 1 => r = Tail(pending)
  <2> SUFFICES ASSUME i = 1 PROVE r = Tail(pending)
    OBVIOUS
  <2>1. Tail(pending) \in Seq(Event) /\ Len(Tail(pending)) = Len(pending) - 1
    BY <1>1
  <2>2. \A j \in 1 .. Len(pending) - 1 : Tail(pending)[j] = pending[j + 1]
    BY <1>1
  <2> QED
    BY <1>4, <1>5, <1>1, <2>1, <2>2, SeqEqual
<1> QED
  BY <1>4, <1>6, <1>8, <1>9, <1>10

\* What is taken was pending or not; the first one taken leaves the rest.
LEMMA TakenOK ==
  ASSUME NEW e, pending \in Seq(Event), InOrder(pending),
         \A j \in DOMAIN pending : pending[j].number <= posted
  PROVE  /\ Taken(e) \in Seq(Event) /\ InOrder(Taken(e))
         /\ \A j \in DOMAIN Taken(e) : Taken(e)[j].number <= posted
         /\ pending # <<>> /\ e = pending[1] => Taken(e) = Tail(pending)
<1>1. CASE ~\E i \in DOMAIN pending : pending[i] = e
  BY <1>1 DEF Taken
<1>2. CASE \E i \in DOMAIN pending : pending[i] = e
  <2> DEFINE i == CHOOSE k \in DOMAIN pending : pending[k] = e
  <2>1. i \in DOMAIN pending /\ pending[i] = e
    BY <1>2
  <2>2. Taken(e) = Without(i)
    BY <1>2 DEF Taken
  <2> HIDE DEF i
  <2>3. pending # <<>> /\ e = pending[1] => i = 1
    <3>1. \A a, b \in DOMAIN pending : a < b => pending[a].number < pending[b].number
      BY DEF InOrder
    <3>2. \A a \in DOMAIN pending : pending[a] \in Event
      OBVIOUS
    <3>3. \A a \in DOMAIN pending : pending[a].number \in Int
      BY <3>2, BoundsAssumption DEF Event
    <3> QED
      BY <2>1, <3>1, <3>3
  <2> QED
    BY <2>1, <2>2, <2>3, WithoutOK
<1> QED
  BY <1>1, <1>2

\* Steps that touch neither the ring nor the record.
LEMMA RingKept ==
  ASSUME RingInv, WrittenInv, UNCHANGED <<queueVars, posted, pending, removed>>
  PROVE  RingInv' /\ WrittenInv'
BY DEF RingInv, WrittenInv, queueVars, At, InOrder

\* The i-th cell after the head.
LEMMA AtStep ==
  ASSUME queue_head \in Cells, NEW i \in 0 .. QueueSize
  PROVE  /\ At(i) \in Cells
         /\ At(i) = IF queue_head + i < QueueSize THEN queue_head + i ELSE queue_head + i - QueueSize
<1>1. queue_head + i \in 0 .. 2 * QueueSize - 1
  BY SizesAssumption DEF Cells
<1>2. At(i) = IF queue_head + i < QueueSize THEN queue_head + i ELSE queue_head + i - QueueSize
  <2>1. At(i) = Wrap(queue_head + i)
    BY DEF At, Wrap
  <2> QED
    BY <1>1, <2>1, Wrapped, SizesAssumption DEF Cells
<1> QED
  BY <1>2, SizesAssumption DEF Cells

\* akira_event_post writes the cell behind the last one.
LEMMA PostRing ==
  ASSUME RingInv, WrittenInv, NEW t \in Threads, NEW type \in Types, Post(t, type)
  PROVE  RingInv' /\ WrittenInv'
<1> DEFINE e == [type |-> type, number |-> posted + 1]
<1> DEFINE n == posted + 1
<1>0. QueueSize \in Nat \ {0} /\ MaxPosts \in Nat
  BY SizesAssumption, BoundsAssumption
<1>1. /\ queue' = [queue EXCEPT ![queue_tail] = e] /\ queue_head' = queue_head
      /\ queue_tail' = (queue_tail + 1) % QueueSize
      /\ queue_count' = queue_count + 1 /\ queue_count < QueueSize
      /\ posted' = n /\ posted < MaxPosts
      /\ pending' = Append(pending, e) /\ removed' = removed
  BY DEF Post, NextTail
<1>2. n \in 1 .. MaxPosts /\ n > posted
  BY <1>0, <1>1 DEF RingInv
<1> HIDE DEF n
<1>3. e \in Event /\ e.number = n
  BY <1>2 DEF Event, n
<1> HIDE DEF e
<1>4. /\ queue \in [Cells -> Event \cup {NoEvent}] /\ queue_head \in Cells /\ queue_tail \in Cells
      /\ queue_count \in 0 .. QueueSize - 1 /\ pending \in Seq(Event) /\ posted \in 0 .. MaxPosts
  BY <1>0, <1>1 DEF RingInv
<1>5. queue_tail' \in Cells
       /\ queue_tail' = IF queue_tail + 1 < QueueSize THEN queue_tail + 1 ELSE 0
  <2>1. queue_tail + 1 \in 0 .. 2 * QueueSize - 1 /\ queue_tail + 1 <= QueueSize
    BY <1>0, <1>4 DEF Cells
  <2>2. Wrap(queue_tail + 1) = IF queue_tail + 1 < QueueSize
           THEN queue_tail + 1 ELSE queue_tail + 1 - QueueSize
    BY <1>0, <2>1, Wrapped DEF RingInv, Cells
  <2> QED
    BY <2>1, <2>2, <1>0, <1>1, <1>4 DEF Cells, Wrap
<1>6. queue' \in [Cells -> Event \cup {NoEvent}]
  BY <1>1, <1>3, <1>4
<1>7. pending' \in Seq(Event) /\ Len(pending') = Len(pending) + 1
        /\ (\A i \in DOMAIN pending : pending'[i] = pending[i]) /\ pending'[Len(pending) + 1] = e
  BY <1>1, <1>3, <1>4
<1>8. InOrder(pending')
  <2> SUFFICES ASSUME NEW i \in DOMAIN pending', NEW j \in DOMAIN pending', i < j
               PROVE  pending'[i].number < pending'[j].number
    BY DEF InOrder
  <2>1. i \in DOMAIN pending /\ pending[i].number <= posted
    BY <1>4, <1>7 DEF RingInv
  <2>2. pending[i] \in Event
    BY <2>1, <1>4
  <2>3. pending[i].number \in Int
    BY <2>2, <1>0 DEF Event
  <2>4. CASE j = Len(pending) + 1
    BY <2>1, <2>3, <2>4, <1>2, <1>3, <1>4, <1>7
  <2>5. CASE j # Len(pending) + 1
    <3>1. j \in DOMAIN pending
      BY <2>5, <1>4, <1>7
    <3> QED
      BY <3>1, <2>1, <1>7 DEF RingInv, InOrder
  <2> QED
    BY <2>4, <2>5
<1>9. \A i \in DOMAIN pending' : pending'[i].number <= posted'
  <2> SUFFICES ASSUME NEW i \in DOMAIN pending' PROVE pending'[i].number <= n
    BY <1>1
  <2>1. CASE i = Len(pending) + 1
    BY <2>1, <1>2, <1>3, <1>7
  <2>2. CASE i # Len(pending) + 1
    <3>1. i \in DOMAIN pending
      BY <2>2, <1>4, <1>7
    <3>2. pending[i] \in Event /\ pending[i].number <= posted
      BY <3>1, <1>4 DEF RingInv
    <3>3. pending[i].number \in Int
      BY <3>2, <1>0 DEF Event
    <3> QED
      BY <3>1, <3>2, <3>3, <1>2, <1>4, <1>7
  <2> QED
    BY <2>1, <2>2
<1>10. ~removed' =>
         /\ queue_tail' = At(queue_count)'
         /\ Len(pending') = queue_count'
         /\ \A i \in 1 .. queue_count' : queue'[At(i - 1)'] = pending'[i]
  <2> SUFFICES ASSUME ~removed
               PROVE  /\ queue_tail' = At(queue_count)'
                      /\ Len(pending') = queue_count'
                      /\ \A i \in 1 .. queue_count' : queue'[At(i - 1)'] = pending'[i]
    BY <1>1
  <2>1. queue_tail = At(queue_count) /\ Len(pending) = queue_count
          /\ \A i \in 1 .. queue_count : queue[At(i - 1)] = pending[i]
    BY DEF RingInv
  <2>2. \A i : At(i)' = (queue_head + i) % QueueSize
    BY <1>0, <1>1 DEF At
  <2>3. queue_tail' = At(queue_count)'
    <3>1. queue_count + 1 \in 0 .. QueueSize /\ queue_count \in 0 .. QueueSize
      BY <1>0, <1>4
    <3>2. At(queue_count)' = At(queue_count + 1)
      BY <1>1 DEF At
    <3>3. At(queue_count + 1) = IF queue_head + (queue_count + 1) < QueueSize
             THEN queue_head + (queue_count + 1) ELSE queue_head + (queue_count + 1) - QueueSize
      BY <3>1, <1>4, AtStep, Zenon
    <3>4. At(queue_count) = IF queue_head + queue_count < QueueSize
             THEN queue_head + queue_count ELSE queue_head + queue_count - QueueSize
      BY <3>1, <1>4, AtStep
    <3> QED
      BY <3>2, <3>3, <3>4, <2>1, <1>5, <1>4, <1>0 DEF Cells
  <2>4. ASSUME NEW i \in 1 .. queue_count + 1
        PROVE  queue'[At(i - 1)'] = pending'[i]
    <3>1. i - 1 \in 0 .. QueueSize /\ queue_count \in 0 .. QueueSize /\ At(i - 1)' = At(i - 1)
      BY <1>0, <1>1, <1>4 DEF At
    <3>2. CASE i = queue_count + 1
      BY <3>1, <3>2, <2>1, <1>1, <1>4, <1>7
    <3>3. CASE i # queue_count + 1
      <4>1. i \in 1 .. queue_count /\ i \in DOMAIN pending
        BY <3>3, <2>1, <1>4
      <4>2. At(i - 1) \in Cells /\ At(i - 1) = IF queue_head + (i - 1) < QueueSize
               THEN queue_head + (i - 1) ELSE queue_head + (i - 1) - QueueSize
        BY <3>1, <1>4, AtStep, Zenon
      <4>3. At(queue_count) = IF queue_head + queue_count < QueueSize
               THEN queue_head + queue_count ELSE queue_head + queue_count - QueueSize
        BY <3>1, <1>4, AtStep, Zenon
      <4>4. At(i - 1) # At(queue_count)
        BY <4>1, <4>2, <4>3, <1>4, <1>0 DEF Cells
      <4> QED
        BY <4>1, <4>2, <4>4, <3>1, <2>1, <1>1, <1>4, <1>7
    <3> QED
      BY <3>2, <3>3
  <2> QED
    BY <2>1, <2>3, <2>4, <1>1, <1>7
<1>11. WrittenInv'
  <2>1. CASE \A c \in Cells : queue[c] \in Event
    BY <2>1, <1>1, <1>3, <1>4 DEF WrittenInv
  <2>2. CASE /\ queue_head + queue_count <= queue_tail
             /\ \A c \in 0 .. queue_tail - 1 : queue[c] \in Event
    <3>1. \A c \in 0 .. queue_tail : c \in Cells /\ queue'[c] \in Event
      BY <2>2, <1>0, <1>1, <1>3, <1>4 DEF Cells
    <3>2. CASE queue_tail + 1 < QueueSize
      BY <3>1, <3>2, <2>2, <1>0, <1>1, <1>4, <1>5 DEF WrittenInv, Cells
    <3>3. CASE ~(queue_tail + 1 < QueueSize)
      BY <3>1, <3>3, <1>0, <1>4 DEF WrittenInv, Cells
    <3> QED
      BY <3>2, <3>3
  <2> QED
    BY <2>1, <2>2 DEF WrittenInv
<1>12. posted' \in 0 .. MaxPosts /\ queue_head' \in Cells /\ removed' \in BOOLEAN
         /\ queue_count' \in 0 .. QueueSize
  BY <1>0, <1>1, <1>2, <1>4 DEF RingInv
<1>13. RingInv'
  BY <1>5, <1>6, <1>7, <1>8, <1>9, <1>10, <1>12 DEF RingInv
<1> QED
  BY <1>11, <1>13

\* akira_event_process takes the cell at the head, which is the oldest event.
LEMMA ProcessRing ==
  ASSUME RingInv, WrittenInv, NEW t \in Threads, Process(t)
  PROVE  RingInv' /\ WrittenInv'
<1> DEFINE e == queue[queue_head]
<1>0. QueueSize \in Nat \ {0} /\ MaxPosts \in Nat
  BY SizesAssumption, BoundsAssumption
<1>1. /\ queue' = queue /\ queue_tail' = queue_tail
      /\ queue_head' = (queue_head + 1) % QueueSize
      /\ queue_count' = queue_count - 1 /\ queue_count > 0
      /\ pending' = Taken(e) /\ posted' = posted /\ removed' = removed
  BY DEF Process
<1>2. /\ queue \in [Cells -> Event \cup {NoEvent}] /\ queue_head \in Cells /\ queue_tail \in Cells
      /\ queue_count \in 1 .. QueueSize /\ pending \in Seq(Event) /\ posted \in 0 .. MaxPosts
      /\ InOrder(pending) /\ removed \in BOOLEAN
      /\ \A i \in DOMAIN pending : pending[i].number <= posted
  BY <1>0, <1>1 DEF RingInv
<1>3. queue_head' = IF queue_head + 1 < QueueSize THEN queue_head + 1 ELSE 0
  <2>1. queue_head + 1 \in 0 .. 2 * QueueSize - 1 /\ queue_head + 1 <= QueueSize
    BY <1>0, <1>2 DEF Cells
  <2>2. Wrap(queue_head + 1) = IF queue_head + 1 < QueueSize
           THEN queue_head + 1 ELSE queue_head + 1 - QueueSize
    BY <1>0, <2>1, Wrapped, SMTT(30) DEF RingInv, Cells
  <2> QED
    BY <2>1, <2>2, <1>0, <1>1, <1>2, SMTT(30) DEF Cells, Wrap
<1>4. queue_head' \in Cells /\ queue_count' \in 0 .. QueueSize
  BY <1>0, <1>1, <1>2, <1>3 DEF Cells
<1>5. /\ pending' \in Seq(Event) /\ InOrder(pending')
      /\ \A i \in DOMAIN pending' : pending'[i].number <= posted'
      /\ pending # <<>> /\ e = pending[1] => pending' = Tail(pending)
  BY <1>1, <1>2, TakenOK
<1>6. ~removed' =>
         /\ queue_tail' = At(queue_count)'
         /\ Len(pending') = queue_count'
         /\ \A i \in 1 .. queue_count' : queue'[At(i - 1)'] = pending'[i]
  <2> SUFFICES ASSUME ~removed
               PROVE  /\ queue_tail' = At(queue_count)'
                      /\ Len(pending') = queue_count'
                      /\ \A i \in 1 .. queue_count' : queue'[At(i - 1)'] = pending'[i]
    BY <1>1
  <2>1. queue_tail = At(queue_count) /\ Len(pending) = queue_count
          /\ \A i \in 1 .. queue_count : queue[At(i - 1)] = pending[i]
    BY DEF RingInv
  <2>2. ASSUME NEW i \in 0 .. queue_count - 1 PROVE Wrap(queue_head' + i) = At(i + 1)
    <3>1. i + 1 \in 0 .. QueueSize /\ i \in 0 .. QueueSize
      BY <1>0, <1>2
    <3>2. queue_head' + i \in 0 .. 2 * QueueSize - 1
      BY <1>0, <1>1, <1>2, <1>3 DEF Cells
    <3>3. Wrap(queue_head' + i) = IF queue_head' + i < QueueSize
             THEN queue_head' + i ELSE queue_head' + i - QueueSize
      BY <1>0, <1>2, <1>3, <3>1, <3>2, Wrapped DEF Cells
    <3>4. At(i + 1) = IF queue_head + (i + 1) < QueueSize
             THEN queue_head + (i + 1) ELSE queue_head + (i + 1) - QueueSize
      BY <3>1, <1>2, AtStep, Zenon
    <3> QED
      BY <3>1, <3>3, <3>4, <1>0, <1>2, <1>3 DEF Cells, Wrap
  <2>3. queue_tail' = At(queue_count)'
    <3>1. At(queue_count)' = Wrap(queue_head' + (queue_count - 1))
      BY <1>1 DEF At, Wrap
    <3>2. queue_count - 1 \in 0 .. queue_count - 1 /\ queue_count - 1 + 1 = queue_count
      BY <1>2
    <3> QED
      BY <3>1, <3>2, <2>1, <2>2, <1>1
  <2>4. pending # <<>> /\ e = pending[1]
    <3>1. At(0) = queue_head
      BY <1>0, <1>2, AtStep DEF Cells
    <3>2. 1 \in 1 .. queue_count /\ 1 - 1 = 0
      BY <1>0, <1>2
    <3> QED
      BY <2>1, <3>1, <3>2
  <2>5. pending' = Tail(pending)
    BY <2>4, <1>5
  <2>6. Len(pending') = queue_count - 1 /\ \A i \in 1 .. queue_count - 1 : pending'[i] = pending[i + 1]
    BY <2>1, <2>4, <2>5, <1>2
  <2>7. ASSUME NEW i \in 1 .. queue_count - 1 PROVE queue'[At(i - 1)'] = pending'[i]
    <3>1. At(i - 1)' = Wrap(queue_head' + (i - 1))
      BY DEF At, Wrap
    <3>2. i - 1 \in 0 .. queue_count - 1 /\ i - 1 + 1 = i
      BY <1>2
    <3>3. At(i - 1)' = At(i)
      BY <3>1, <3>2, <2>2
    <3>4. i + 1 \in 1 .. queue_count /\ i + 1 - 1 = i
      BY <1>2
    <3> QED
      BY <3>3, <3>4, <2>1, <2>6, <1>1
  <2> QED
    BY <2>3, <2>6, <2>7, <1>1
<1>7. WrittenInv'
  <2>1. CASE \A c \in Cells : queue[c] \in Event
    BY <2>1, <1>1 DEF WrittenInv
  <2>2. CASE /\ queue_head + queue_count <= queue_tail
             /\ \A c \in 0 .. queue_tail - 1 : queue[c] \in Event
    <3>1. queue_head + 1 < QueueSize
      BY <2>2, <1>0, <1>2 DEF Cells
    <3> QED
      BY <3>1, <2>2, <1>0, <1>1, <1>2, <1>3 DEF WrittenInv, Cells
  <2> QED
    BY <2>1, <2>2 DEF WrittenInv
<1>8. RingInv'
  BY <1>1, <1>2, <1>4, <1>5, <1>6 DEF RingInv
<1> QED
  BY <1>7, <1>8

\* akira_event_wait closes the gap; every cell it moves was written.
LEMMA WaitFoundRing ==
  ASSUME RingInv, WrittenInv, NEW t \in Threads, WaitFound(t)
  PROVE  RingInv' /\ WrittenInv'
<1> DEFINE first == Lowest(Found(thread[t].type))
           e == queue[At(first)]
           Moved(c) == \E j \in first .. queue_count - 2 : c = At(j)
<1>0. QueueSize \in Nat \ {0} /\ MaxPosts \in Nat
  BY SizesAssumption, BoundsAssumption
<1>1. /\ queue' = [c \in Cells |-> IF Moved(c) THEN queue[(c + 1) % QueueSize] ELSE queue[c]]
      /\ queue_head' = queue_head /\ queue_tail' = queue_tail
      /\ queue_count' = queue_count - 1 /\ pending' = Taken(e)
      /\ posted' = posted /\ removed' = TRUE /\ Found(thread[t].type) # {}
  BY DEF WaitFound
<1>2. /\ queue \in [Cells -> Event \cup {NoEvent}] /\ queue_head \in Cells /\ queue_tail \in Cells
      /\ queue_count \in 0 .. QueueSize /\ pending \in Seq(Event) /\ posted \in 0 .. MaxPosts
      /\ InOrder(pending) /\ \A i \in DOMAIN pending : pending[i].number <= posted
  BY <1>0, <1>1 DEF RingInv
<1>3. first \in 0 .. queue_count - 1
  <2>1. Found(thread[t].type) \in SUBSET Nat
    BY <1>2 DEF Found
  <2>2. first \in Found(thread[t].type)
    BY <1>1, <2>1, LowestIsLeast
  <2> QED
    BY <2>2 DEF Found
<1>4. queue_count' \in 0 .. QueueSize
  BY <1>0, <1>1, <1>2, <1>3
<1> HIDE DEF first, e
<1>5. pending' \in Seq(Event) /\ InOrder(pending')
        /\ \A i \in DOMAIN pending' : pending'[i].number <= posted'
  BY <1>1, <1>2, TakenOK
<1>6. ASSUME NEW c \in Cells PROVE (c + 1) % QueueSize \in Cells
  BY <1>0 DEF Cells
<1> HIDE DEF Moved
<1>7. queue' \in [Cells -> Event \cup {NoEvent}]
  BY <1>1, <1>2, <1>6
<1>8. RingInv'
  BY <1>1, <1>2, <1>4, <1>5, <1>7 DEF RingInv
<1>9. WrittenInv'
  <2>1. CASE \A c \in Cells : queue[c] \in Event
    BY <2>1, <1>1, <1>2, <1>6 DEF WrittenInv
  <2>2. CASE /\ queue_head + queue_count <= queue_tail
             /\ \A c \in 0 .. queue_tail - 1 : queue[c] \in Event
    <3>1. ASSUME NEW c \in 0 .. queue_tail - 1 PROVE queue'[c] \in Event
      <4>1. c \in Cells
        BY <1>0, <1>2 DEF Cells
      <4>2. CASE ~Moved(c)
        BY <4>1, <4>2, <2>2, <1>1
      <4>3. CASE Moved(c)
        <5>1. PICK j \in first .. queue_count - 2 : c = At(j)
          BY <4>3 DEF Moved
        <5>2. j \in 0 .. QueueSize /\ queue_head + j < queue_tail - 1
          BY <5>1, <2>2, <1>0, <1>2, <1>3, SMTT(30) DEF Cells
        <5>3. c = queue_head + j
          <6>1. At(j) = IF queue_head + j < QueueSize
                   THEN queue_head + j ELSE queue_head + j - QueueSize
            BY <5>2, <1>2, AtStep
          <6> QED
            BY <5>1, <5>2, <6>1, <1>0, <1>2 DEF Cells
        <5>4. c + 1 \in 0 .. queue_tail - 1 /\ c + 1 < QueueSize
          BY <5>2, <5>3, <1>0, <1>2 DEF Cells
        <5>5. (c + 1) % QueueSize = c + 1
          <6>1. c + 1 \in 0 .. 2 * QueueSize - 1
            BY <5>4, <1>0, <1>2 DEF Cells
          <6>2. Wrap(c + 1) = c + 1
            BY <6>1, <5>4, <1>0, <1>2, Wrapped DEF Cells
          <6> QED
            BY <6>2 DEF Wrap
        <5> QED
          BY <4>1, <4>3, <5>4, <5>5, <2>2, <1>1
      <4> QED
        BY <4>2, <4>3
    <3>2. queue_head' + queue_count' <= queue_tail'
      BY <2>2, <1>0, <1>1, <1>2 DEF Cells
    <3>3. \A c \in 0 .. queue_tail' - 1 : queue'[c] \in Event
      BY <3>1, <1>1
    <3> QED
      BY <3>2, <3>3 DEF WrittenInv
  <2> QED
    BY <2>1, <2>2 DEF WrittenInv
<1> QED
  BY <1>8, <1>9

\* akira_event_clear_queue empties ring and record.
LEMMA ClearRing ==
  ASSUME RingInv, WrittenInv, NEW t \in Threads, Clear(t)
  PROVE  RingInv' /\ WrittenInv'
<1>0. QueueSize \in Nat \ {0}
  BY SizesAssumption
<1>1. /\ queue' = queue /\ queue_head' = 0 /\ queue_tail' = 0 /\ queue_count' = 0
      /\ pending' = <<>> /\ removed' = FALSE /\ posted' = posted
  BY DEF Clear, HeadAfterClear
<1>2. 0 \in Cells /\ 0 \in 0 .. QueueSize
  BY <1>0 DEF Cells
<1>3. At(queue_count)' = 0
  BY <1>0, <1>1 DEF At
<1>4. pending' \in Seq(Event) /\ Len(pending') = 0 /\ DOMAIN pending' = {}
  BY <1>1
<1>5. InOrder(pending') /\ \A i \in DOMAIN pending' : pending'[i].number <= posted'
  BY <1>4 DEF InOrder
<1>6. /\ queue_tail' = At(queue_count)' /\ Len(pending') = queue_count'
      /\ \A i \in 1 .. queue_count' : queue'[At(i - 1)'] = pending'[i]
  BY <1>1, <1>3, <1>4
<1>7. RingInv'
  BY <1>1, <1>2, <1>4, <1>5, <1>6 DEF RingInv
<1>8. WrittenInv'
  BY <1>0, <1>1 DEF RingInv, WrittenInv
<1> QED
  BY <1>7, <1>8

\* The ring is empty at first.
LEMMA InitRing == Init => RingInv /\ WrittenInv
<1> SUFFICES ASSUME Init PROVE RingInv /\ WrittenInv
  OBVIOUS
<1>0. QueueSize \in Nat \ {0} /\ MaxPosts \in Nat
  BY SizesAssumption, BoundsAssumption
<1>1. 0 \in Cells /\ 0 \in 0 .. QueueSize /\ 0 \in 0 .. MaxPosts
  BY <1>0 DEF Cells
<1>2. At(0) = 0
  BY <1>0 DEF At, Init
<1>3. RingInv
  BY <1>1, <1>2 DEF Init, RingInv, InOrder
<1>4. WrittenInv
  BY DEF Init, WrittenInv
<1> QED
  BY <1>3, <1>4

\* Every step keeps ring and record together.
LEMMA NextRing == RingInv /\ WrittenInv /\ [Next]_vars => RingInv' /\ WrittenInv'
<1> SUFFICES ASSUME RingInv, WrittenInv, [Next]_vars PROVE RingInv' /\ WrittenInv'
  OBVIOUS
<1>1. CASE UNCHANGED vars
  BY <1>1, RingKept DEF vars, historyVars
<1>2. CASE Deliver
  BY <1>2, RingKept DEF Deliver, Call, Continue, Exhausted, Leave, historyVars
<1>3. ASSUME NEW t \in Threads, Resume(t) PROVE RingInv' /\ WrittenInv'
  <2>1. CASE WaitFound(t)
    BY <2>1, WaitFoundRing
  <2>2. CASE Give(t) \/ ProcessEnd(t) \/ TakeToken(t) \/ WaitTimeout(t) \/ WaitMissed(t)
    BY <2>2, RingKept DEF Give, ProcessEnd, TakeToken, WaitTimeout, WaitMissed, historyVars
  <2> QED
    BY <1>3, <2>1, <2>2 DEF Resume
<1>4. ASSUME NEW t \in Threads, ApiCall(t) PROVE RingInv' /\ WrittenInv'
  <2>1. CASE \E lo \in Types, hi \in Types : lo <= hi /\ Subscribe(t, lo, hi)
    BY <2>1, RingKept DEF Subscribe, historyVars
  <2>2. CASE \E s \in Slots : Unsubscribe(t, s)
    BY <2>2, RingKept DEF Unsubscribe, historyVars
  <2>3. CASE \E type \in Types : Publish(t, type) \/ Wait(t, type)
    BY <2>3, RingKept DEF Publish, Wait, historyVars
  <2>4. CASE \E type \in Types : Post(t, type)
    BY <2>4, PostRing
  <2>5. CASE PostRefused(t)
    BY <2>5, RingKept DEF PostRefused, vars, historyVars
  <2>6. CASE Process(t)
    BY <2>6, ProcessRing
  <2>7. CASE Clear(t)
    BY <2>7, ClearRing
  <2> QED
    BY <1>4, <2>1, <2>2, <2>3, <2>4, <2>5, <2>6, <2>7 DEF ApiCall
<1> QED
  BY <1>1, <1>2, <1>3, <1>4 DEF Next

\* The ring agrees with the record.
LEMMA RingInvImplies == RingInv => QueueHoldsPending
<1> SUFFICES ASSUME RingInv, ~removed PROVE Contents = pending
  BY DEF QueueHoldsPending
<1>1. Len(pending) = queue_count /\ \A i \in 1 .. queue_count : queue[At(i - 1)] = pending[i]
  BY DEF RingInv
<1>2. pending \in Seq(Event) /\ queue_count \in Nat
  BY SizesAssumption DEF RingInv
<1>3. \A i \in 1 .. queue_count : pending[i] \in Event
  BY <1>1, <1>2
<1>4. Contents \in Seq(Event) /\ Len(Contents) = queue_count
  BY <1>1, <1>2, <1>3 DEF Contents
<1>5. \A i \in 1 .. queue_count : Contents[i] = pending[i]
  BY <1>1 DEF Contents
<1> QED
  BY <1>1, <1>2, <1>4, <1>5, SeqEqual

\* The ring holds exactly the events that akira_event_post accepted and nobody took,
\* in their order, until akira_event_wait takes one out of the middle, and every queued
\* event has its token, for any size of the ring and any number of threads and posts.
THEOREM QueueAgrees == Spec => []QueueSound
<1>1. RingInv => QueueHoldsPending
  BY RingInvImplies
<1>2. Init => RingInv /\ WrittenInv
  BY InitRing
<1>3. RingInv /\ WrittenInv /\ [Next]_vars => (RingInv /\ WrittenInv)'
  BY NextRing
<1>4. QueueHoldsPending /\ TokensCoverEvents => QueueSound
  BY DEF QueueSound
<1> QED
  BY <1>1, <1>2, <1>3, <1>4, NobodySleepsOnAnEvent, PTL DEF Spec

-----------------------------------------------------------------------------
(* Types. *)

\* The thread that has the mutex between two steps is in the middle of no other call.
HolderIdle == owner \in Threads => thread[owner].pc \in {"idle", "process"}

\* subscription_count counts the slots in use.
SlotsCounted == subscription_count = Cardinality(InUse)

\* Only events that were posted or published are delivered.
FramesTyped == \A i \in DOMAIN frames : frames[i].type \in Types

\* Sets of slots are finite, with at most MaxHandlers elements.
LEMMA SlotCounts ==
  ASSUME NEW S \in SUBSET Slots
  PROVE  IsFiniteSet(S) /\ Cardinality(S) \in 0 .. MaxHandlers
<1>1. IsFiniteSet(Slots) /\ Cardinality(Slots) = MaxHandlers
  BY SizesAssumption, FS_Interval DEF Slots
<1>2. IsFiniteSet(S) /\ Cardinality(S) <= Cardinality(Slots)
  BY <1>1, FS_Subset
<1>3. Cardinality(S) \in Nat
  BY <1>2, FS_CardinalityType
<1> QED
  BY <1>1, <1>2, <1>3, SizesAssumption

\* Steps that touch no subscription.
LEMMA CountKept ==
  ASSUME SlotsCounted, UNCHANGED <<subscriptions, subscription_count>>
  PROVE  SlotsCounted'
<1>1. InUse' = InUse
  BY DEF InUse
<1> QED
  BY <1>1 DEF SlotsCounted

\* One slot more is in use.
LEMMA SubscribeCounted ==
  ASSUME DeliveryInv, SlotsCounted, NEW t \in Threads, NEW lo \in Types, NEW hi \in Types,
         Subscribe(t, lo, hi)
  PROVE  SlotsCounted'
<1> DEFINE s == Lowest(Slots \ InUse)
<1>1. s \in Slots \ InUse
  BY LowestIsLeast DEF Subscribe, Slots, InUse
<1>2. subscriptions' = [subscriptions EXCEPT ![s] = [in_use |-> TRUE, type_min |-> lo, type_max |-> hi]]
        /\ subscription_count' = subscription_count + 1
  BY DEF Subscribe
<1> HIDE DEF s
<1>3. InUse' = InUse \cup {s}
  BY <1>1, <1>2 DEF DeliveryInv, InUse
<1>4. IsFiniteSet(InUse) /\ s \notin InUse
  BY <1>1, SlotCounts DEF InUse
<1> QED
  BY <1>2, <1>3, <1>4, FS_AddElement DEF SlotsCounted

\* One slot less is in use.
LEMMA UnsubscribeCounted ==
  ASSUME DeliveryInv, SlotsCounted, NEW t \in Threads, NEW s \in Slots, Unsubscribe(t, s)
  PROVE  SlotsCounted'
<1>1. subscriptions' = [subscriptions EXCEPT ![s] = Unsubscribed]
        /\ subscription_count' = subscription_count - 1 /\ s \in InUse
  BY DEF Unsubscribe
<1>2. InUse' = InUse \ {s}
  BY <1>1 DEF DeliveryInv, InUse, Unsubscribed
<1>3. IsFiniteSet(InUse)
  BY SlotCounts DEF InUse
<1> QED
  BY <1>1, <1>2, <1>3, FS_RemoveElement DEF SlotsCounted

\* Every step keeps the count.
LEMMA NextCounted == DeliveryInv /\ SlotsCounted /\ [Next]_vars => SlotsCounted'
<1> SUFFICES ASSUME DeliveryInv, SlotsCounted, [Next]_vars PROVE SlotsCounted'
  OBVIOUS
<1>1. CASE UNCHANGED vars
  BY <1>1, CountKept DEF vars
<1>2. CASE Deliver
  BY <1>2, CountKept DEF Deliver, Call, Continue, Exhausted, Leave
<1>3. ASSUME NEW t \in Threads, Resume(t) PROVE SlotsCounted'
  BY <1>3, CountKept DEF Resume, Give, ProcessEnd, TakeToken, WaitTimeout, WaitFound, WaitMissed
<1>4. ASSUME NEW t \in Threads, ApiCall(t) PROVE SlotsCounted'
  <2>1. CASE \E type \in Types : Publish(t, type) \/ Post(t, type) \/ Wait(t, type)
    BY <2>1, CountKept DEF Publish, Post, Wait
  <2>2. CASE PostRefused(t) \/ Process(t) \/ Clear(t)
    BY <2>2, CountKept DEF PostRefused, Process, Clear, vars
  <2> QED
    BY <1>4, <2>1, <2>2, SubscribeCounted, UnsubscribeCounted DEF ApiCall
<1> QED
  BY <1>1, <1>2, <1>3, <1>4 DEF Next

\* Steps that leave the mutex, and the calls of its holder, alone.
LEMMA HolderKept ==
  ASSUME HolderIdle, UNCHANGED owner,
         \A u \in Threads : thread[u].pc \in {"idle", "process"} => thread'[u].pc \in {"idle", "process"}
  PROVE  HolderIdle'
BY DEF HolderIdle

\* Every step keeps the holder free of other calls.
LEMMA NextHolder == DeliveryInv /\ TokenInv /\ HolderIdle /\ [Next]_vars => HolderIdle'
<1> SUFFICES ASSUME DeliveryInv, TokenInv, HolderIdle, [Next]_vars PROVE HolderIdle'
  OBVIOUS
<1>0. thread \in [Threads -> Thread] /\ NoThread \notin Threads /\ owner \in Threads \cup {NoThread}
  BY ThreadsAssumption DEF TokenInv, DeliveryInv
<1>1. CASE UNCHANGED vars
  BY <1>1 DEF vars, HolderIdle
<1>2. CASE Deliver
  <2>1. thread' = thread /\ owner' \in {owner, NoThread}
    BY <1>2 DEF Deliver, Call, Continue, Exhausted, Leave
  <2> QED
    BY <1>0, <2>1 DEF HolderIdle
<1>3. ASSUME NEW t \in Threads, Resume(t) PROVE HolderIdle'
  <2>1. CASE Give(t) \/ ProcessEnd(t) \/ WaitTimeout(t) \/ WaitFound(t)
    <3>1. owner' = owner /\ thread' = [thread EXCEPT ![t] = Idle]
      BY <2>1 DEF Give, ProcessEnd, WaitTimeout, WaitFound
    <3> QED
      BY <1>0, <3>1, IdleThread DEF HolderIdle
  <2>2. CASE TakeToken(t)
    BY <1>0, <2>2 DEF TakeToken, HolderIdle
  <2>3. CASE WaitMissed(t)
    BY <1>0, <2>3 DEF WaitMissed, HolderIdle
  <2> QED
    BY <1>3, <2>1, <2>2, <2>3 DEF Resume
<1>4. ASSUME NEW t \in Threads, ApiCall(t) PROVE HolderIdle'
  <2>1. CASE \E lo \in Types, hi \in Types : lo <= hi /\ Subscribe(t, lo, hi)
    BY <2>1 DEF Subscribe, HolderIdle
  <2>2. CASE \E s \in Slots : Unsubscribe(t, s)
    BY <2>2 DEF Unsubscribe, HolderIdle
  <2>3. CASE \E type \in Types : Publish(t, type)
    BY <2>3, <1>0 DEF Publish, CanLock, InHandler, HolderIdle
  <2>4. CASE \E type \in Types : Wait(t, type)
    BY <2>4, <1>0 DEF Wait, HolderIdle
  <2>5. CASE \E type \in Types : Post(t, type)
    <3>1. PICK type \in Types : Post(t, type)
      BY <2>5
    <3>2. CASE InHandler(t)
      BY <3>1, <3>2 DEF Post, HolderIdle
    <3>3. CASE ~InHandler(t)
      <4>1. owner = NoThread /\ owner' = owner
        BY <3>1, <3>3 DEF Post, CanLock
      <4> QED
        BY <1>0, <4>1 DEF HolderIdle
    <3> QED
      BY <3>2, <3>3
  <2>6. CASE PostRefused(t)
    BY <2>6 DEF PostRefused, vars, HolderIdle
  <2>7. CASE Process(t)
    BY <2>7, <1>0 DEF Process, HolderIdle, Thread
  <2>8. CASE Clear(t)
    BY <2>8, <1>0, IdleThread DEF Clear, HolderIdle
  <2> QED
    BY <1>4, <2>1, <2>2, <2>3, <2>4, <2>5, <2>6, <2>7, <2>8 DEF ApiCall
<1> QED
  BY <1>1, <1>2, <1>3, <1>4 DEF Next

\* akira_event_process never delivers a cell that nobody wrote, stale ones included.
LEMMA HeadWritten ==
  ASSUME RingInv, WrittenInv, queue_count > 0
  PROVE  queue[queue_head].type \in Types
<1>1. queue_head \in Cells /\ queue_tail \in Cells /\ queue_count \in Nat
  BY SizesAssumption DEF RingInv
<1>2. queue[queue_head] \in Event
  BY <1>1, SizesAssumption DEF WrittenInv, Cells
<1> QED
  BY <1>2 DEF Event

\* Every step delivers events of a type.
LEMMA NextFrames ==
  DeliveryInv /\ RingInv /\ WrittenInv /\ FramesTyped /\ [Next]_vars => FramesTyped'
<1> SUFFICES ASSUME DeliveryInv, RingInv, WrittenInv, FramesTyped, [Next]_vars PROVE FramesTyped'
  OBVIOUS
<1>0. frames \in Seq(AnyFrame)
  BY DEF DeliveryInv
<1>1. ASSUME UNCHANGED frames PROVE FramesTyped'
  BY <1>1 DEF FramesTyped
<1>2. CASE UNCHANGED vars
  BY <1>1, <1>2 DEF vars
<1>3. CASE Deliver
  <2>1. frames # <<>> /\ owner # NoThread
    BY <1>3 DEF Deliver, Call, Continue, Exhausted, Leave, DeliveryInv
  <2>2. Top.type \in Types /\ Top \in AnyFrame /\ Below \in Seq(AnyFrame)
          /\ \A i \in DOMAIN Below : Below[i].type \in Types
    BY <1>0, <2>1, TopFacts DEF FramesTyped, Top
  <2>3. ASSUME NEW f, f.type = Top.type, Advance(f) PROVE FramesTyped'
    BY <2>2, <2>3 DEF FramesTyped, Advance
  <2>4. CASE Call
    BY <2>2, <2>3, <2>4 DEF Call, AnyFrame
  <2>5. CASE Continue
    BY <2>2, <2>3, <2>5 DEF Continue, AnyFrame
  <2>6. CASE Exhausted
    BY <2>2, <2>3, <2>6 DEF Exhausted, AnyFrame
  <2>7. CASE Leave
    BY <2>2, <2>7 DEF Leave, FramesTyped
  <2> QED
    BY <1>3, <2>4, <2>5, <2>6, <2>7 DEF Deliver
<1>4. ASSUME NEW t \in Threads, Resume(t) PROVE FramesTyped'
  BY <1>1, <1>4 DEF Resume, Give, ProcessEnd, TakeToken, WaitTimeout, WaitFound, WaitMissed
<1>5. ASSUME NEW t \in Threads, ApiCall(t) PROVE FramesTyped'
  <2>1. CASE \E lo \in Types, hi \in Types : lo <= hi /\ Subscribe(t, lo, hi)
    BY <1>1, <2>1 DEF Subscribe
  <2>2. CASE \E type \in Types : Post(t, type) \/ Wait(t, type)
    BY <1>1, <2>2 DEF Post, Wait
  <2>3. CASE PostRefused(t) \/ Clear(t)
    BY <1>1, <2>3 DEF PostRefused, Clear, vars
  <2>4. CASE Process(t)
    <3>1. frames' = <<Delivery(queue[queue_head].type)>> /\ queue_count > 0
      BY <2>4 DEF Process
    <3> QED
      BY <3>1, HeadWritten DEF FramesTyped, Delivery
  <2>5. ASSUME NEW type \in Types, Publish(t, type) PROVE FramesTyped'
    <3>1. frames' = Append(frames, Delivery(type)) /\ Delivery(type).type = type
      BY <2>5 DEF Publish, Delivery
    <3> QED
      BY <1>0, <3>1 DEF FramesTyped
  <2>6. ASSUME NEW s \in Slots, Unsubscribe(t, s) PROVE FramesTyped'
    <3>1. frames' = frames \/ frames' = Dropped(s)
      BY <2>6 DEF Unsubscribe
    <3>2. CASE frames' = Dropped(s)
      <4>1. DOMAIN frames' = DOMAIN frames
        BY <3>2 DEF Dropped
      <4>2. ASSUME NEW i \in DOMAIN frames PROVE frames'[i].type = frames[i].type
        <5>1. frames[i] \in AnyFrame
          BY <1>0
        <5> QED
          BY <3>2, <5>1 DEF Dropped, AnyFrame
      <4> QED
        BY <4>1, <4>2 DEF FramesTyped
    <3> QED
      BY <1>1, <3>1, <3>2
  <2> QED
    BY <1>5, <2>1, <2>2, <2>3, <2>4, <2>5, <2>6 DEF ApiCall
<1> QED
  BY <1>2, <1>3, <1>4, <1>5 DEF Next

\* The inductive invariant of the types.
EventInv ==
  /\ DeliveryInv /\ TokenInv /\ RingInv /\ WrittenInv
  /\ SlotsCounted /\ HolderIdle /\ FramesTyped /\ missed \in BOOLEAN

\* The invariant gives the types.
LEMMA EventInvImplies == EventInv => TypeOK
<1> SUFFICES ASSUME EventInv PROVE TypeOK
  OBVIOUS
<1>1. subscription_count \in 0 .. MaxHandlers
  BY SlotCounts DEF EventInv, SlotsCounted, InUse
<1>2. frames \in Seq(Frame)
  <2>1. frames \in Seq(AnyFrame) /\ \A i \in DOMAIN frames : frames[i].type \in Types
    BY DEF EventInv, DeliveryInv, FramesTyped
  <2>2. ASSUME NEW i \in DOMAIN frames PROVE frames[i] \in Frame
    <3>1. frames[i] \in AnyFrame /\ frames[i].type \in Types
      BY <2>1
    <3> QED
      BY <3>1 DEF AnyFrame, Frame
  <2> QED
    BY <2>1, <2>2
<1>3. /\ subscriptions \in [Slots -> Subscription] /\ owner \in Threads \cup {NoThread}
      /\ owner = NoThread <=> frames = <<>>
  BY DEF EventInv, DeliveryInv
<1>4. /\ queue \in [Cells -> Event \cup {NoEvent}]
      /\ queue_head \in Cells /\ queue_tail \in Cells /\ queue_count \in 0 .. QueueSize
      /\ posted \in 0 .. MaxPosts /\ pending \in Seq(Event) /\ removed \in BOOLEAN
  BY DEF EventInv, RingInv
<1>5. queue_sem \in 0 .. QueueSize /\ thread \in [Threads -> Thread]
  BY DEF EventInv, TokenInv
<1>6. owner \in Threads => thread[owner].pc \in {"idle", "process"}
  BY DEF EventInv, HolderIdle
<1> QED
  BY <1>1, <1>2, <1>3, <1>4, <1>5, <1>6 DEF TypeOK, EventInv

\* It holds at first.
LEMMA InitEvent == Init => EventInv
<1> SUFFICES ASSUME Init PROVE EventInv
  OBVIOUS
<1>1. SlotsCounted
  <2>1. InUse = {} /\ subscription_count = 0
    BY DEF Init, InUse, Unsubscribed
  <2> QED
    BY <2>1, FS_EmptySet DEF SlotsCounted
<1>2. HolderIdle /\ missed \in BOOLEAN
  BY ThreadsAssumption DEF Init, HolderIdle
<1>3. FramesTyped
  <2>1. DOMAIN frames = {}
    BY DEF Init
  <2> QED
    BY <2>1 DEF FramesTyped
<1> QED
  BY <1>1, <1>2, <1>3, InitDelivery, InitTokens, InitRing DEF EventInv

\* missed is only set and cleared.
LEMMA NextMissed == missed \in BOOLEAN /\ [Next]_vars => missed' \in BOOLEAN
BY DEF Next, ApiCall, Resume, Deliver, Subscribe, Unsubscribe, Publish, Post, PostRefused,
       Process, Clear, Wait, Give, ProcessEnd, TakeToken, WaitTimeout, WaitFound, WaitMissed,
       Call, Continue, Exhausted, Leave, vars, historyVars

\* Every step keeps the invariant.
LEMMA NextEvent == EventInv /\ [Next]_vars => EventInv'
BY NextDelivery, NextTokens, NextRing, NextCounted, NextHolder, NextFrames, NextMissed DEF EventInv

\* Every variable keeps its type: no cell of the ring is delivered that was never
\* written, subscription_count stays within the table, and the mutex is held exactly
\* while events are delivered, by a thread in no other call.
THEOREM TypesKept == Spec => []TypeOK
<1>1. Spec => []EventInv
  BY InitEvent, NextEvent, PTL DEF Spec
<1> QED
  BY <1>1, EventInvImplies, PTL
=============================================================================
