-------------------------- MODULE ResourceManager --------------------------
(* Quotas of resource/resource_manager.c, for one resource type: the usage of
   every registered app and of the system, in the width of the code's counters.
   Every call holds the mutex, except that callbacks of an exceeded quota come
   after it is given back. Callers release what they were granted; `held` is what
   each really has. *)
EXTENDS Integers, FiniteSets, Functions, FiniteSetsExt

CONSTANTS Apps,     \* application ids
          MaxApps,  \* RESOURCE_MAX_APPS
          Quotas,   \* quotas that apps are registered and updated with
          Amounts,  \* what apps request
          Width,    \* the counters wrap at this value (2^32 in the code)
          MaxHeld   \* bound: what an app has been granted

VARIABLES usage,   \* the registered apps and what the manager counts for them
          quota,   \* their quotas
          system,  \* system_usage
          held,    \* what every app was granted and has not released
          lowered, \* apps whose quota was lowered below their usage
          drifted  \* an unregistration, a reset or a wrap: the counts and held differ

vars == <<usage, quota, system, held, lowered, drifted>>

Known == DOMAIN usage
Put(f, a, v) == [b \in DOMAIN f \union {a} |-> IF a = b THEN v ELSE f[b]]
Drop(f, a) == Restrict(f, DOMAIN f \ {a})

Register(a, q) ==
    /\ a \notin Known /\ Cardinality(Known) < MaxApps
    /\ usage' = Put(usage, a, 0) /\ quota' = Put(quota, a, q)
    /\ held' = [held EXCEPT ![a] = 0] /\ lowered' = lowered \ {a}
    /\ UNCHANGED <<system, drifted>>

(* The system's usage keeps what the app used. *)
Unregister(a) ==
    /\ a \in Known
    /\ usage' = Drop(usage, a) /\ quota' = Drop(quota, a)
    /\ drifted' = (drifted \/ usage[a] # 0)
    /\ UNCHANGED <<system, held, lowered>>

UpdateQuota(a, q) ==
    /\ a \in Known
    /\ quota' = [quota EXCEPT ![a] = q]
    /\ lowered' = IF q < usage[a] THEN lowered \union {a} ELSE lowered
    /\ UNCHANGED <<usage, system, held, drifted>>

(* resource_request: the sum is formed in the counter's width before it is
   compared with the quota. *)
Sum32(a, n) == (usage[a] + n) % Width
Allowed(a, n) == Sum32(a, n) <= quota[a]

Request(a, n) ==
    /\ a \in Known /\ Allowed(a, n) /\ held[a] + n <= MaxHeld
    /\ usage' = [usage EXCEPT ![a] = Sum32(a, n)]
    /\ system' = (system + n) % Width
    /\ held' = [held EXCEPT ![a] = @ + n]
    /\ lowered' = lowered \ {a}
    /\ drifted' = (drifted \/ usage[a] + n >= Width)
    /\ UNCHANGED quota

(* resource_release: usage stops at zero; the system's total is left alone when
   it is smaller than the amount. *)
Remaining(a, n) == IF n >= usage[a] THEN 0 ELSE usage[a] - n

Release(a, n) ==
    /\ a \in Known /\ n <= held[a]
    /\ usage' = [usage EXCEPT ![a] = Remaining(a, n)]
    /\ system' = IF n <= system THEN system - n ELSE system
    /\ held' = [held EXCEPT ![a] = @ - n]
    /\ lowered' = IF Remaining(a, n) <= quota[a] THEN lowered \ {a} ELSE lowered
    /\ UNCHANGED <<quota, drifted>>

(* resource_reset_usage: of one app, or, for id 0, of all and of the system *)
ResetOne(a) ==
    /\ a \in Known
    /\ usage' = [usage EXCEPT ![a] = 0] /\ lowered' = lowered \ {a}
    /\ drifted' = (drifted \/ usage[a] # 0)
    /\ UNCHANGED <<quota, system, held>>

ResetAll ==
    /\ usage' = [a \in Known |-> 0] /\ system' = 0 /\ lowered' = {}
    /\ drifted' = \E a \in Apps : held[a] > 0
    /\ UNCHANGED <<quota, held>>

Init ==
    /\ usage = [a \in {} |-> 0] /\ quota = [a \in {} |-> 0] /\ system = 0
    /\ held = [a \in Apps |-> 0] /\ lowered = {} /\ drifted = FALSE

Next ==
    \/ \E a \in Apps, q \in Quotas : Register(a, q) \/ UpdateQuota(a, q)
    \/ \E a \in Apps, n \in Amounts : Request(a, n) \/ Release(a, n)
    \/ \E a \in Apps : Unregister(a) \/ ResetOne(a)
    \/ ResetAll

Spec == Init /\ [][Next]_vars

TypeOK ==
    /\ Known \subseteq Apps /\ DOMAIN quota = Known
    /\ \A a \in Known : usage[a] \in 0 .. Width - 1 /\ quota[a] \in Quotas
    /\ system \in 0 .. Width - 1
    /\ held \in [Apps -> 0 .. MaxHeld] /\ lowered \subseteq Apps

(* No app is counted above its quota, unless the quota was lowered under what it
   already used; requests and releases in any order keep it so, wrapped or not. *)
UsageWithinQuota == \A a \in Known : usage[a] <= quota[a] \/ a \in lowered

(* The system's total is what the apps use together, modulo the counter's width,
   as long as no app in use was unregistered, no usage reset and no request
   wrapped. *)
TotalIsSum ==
    drifted \/ system = MapThenSumSet(LAMBDA a : usage[a], Known) % Width

QuotasSound == UsageWithinQuota /\ TotalIsSum
=============================================================================
