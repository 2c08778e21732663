------------------------------ MODULE MCEvents ------------------------------
(* EventSystem for TLC, in three parts side by side, each with the limits     *)
(* that its focus sets to what the threads do: "many" has three subscriptions *)
(* and one type of event, "nested" has handlers that post and cancel in a     *)
(* delivery of another type, "queue" fills the ring and has waiters.          *)
EXTENDS EventSystem, TLC

VARIABLE focus

Symmetry == Permutations(Threads)

\* No more subscriptions, posts and nested deliveries than these.
Limits(handlers, posts, depth) ==
  /\ subscription_count' <= handlers
  /\ posted' <= posts
  /\ Len(frames') <= depth

\* The events and those who wait for them are all of this type.
OnlyType(type) ==
  /\ \A s \in InUse' : Matches(type, s)' /\ subscriptions'[s].type_min = subscriptions'[s].type_max
  /\ \A i \in DOMAIN pending' : pending'[i].type = type
  /\ \A i \in DOMAIN frames' : frames'[i].type = type
  /\ \A t \in Threads : thread'[t].type \in {0, type}

EventsInit == Init /\ focus \in {"many", "nested", "queue"}
EventsNext ==
  /\ Next
  /\ CASE focus = "many" -> Limits(MaxHandlers, 2, MaxDepth) /\ OnlyType(1)
       [] focus = "nested" -> Limits(2, 1, MaxDepth)
       [] focus = "queue" -> Limits(1, MaxPosts, 1)
  /\ UNCHANGED focus
EventsSpec == EventsInit /\ [][EventsNext]_<<focus, vars>>
=============================================================================
