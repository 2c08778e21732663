---------------------------- MODULE PowerManager ----------------------------
(***************************************************************************)
(* The power manager, src/power/power_manager.c: the policy of each        *)
(* container and the strictest of them, and the mode.  It has no lock.     *)
(*                                                                         *)
(* A container that has no policy is added in three steps, and each of     *)
(* them reads policy_count anew; a name is cut to fit its entry, where a   *)
(* later search does not find it.  What a write past the table does is not *)
(* followed (outside).                                                     *)
(*                                                                         *)
(* History: wanted is the last policy each container was given with        *)
(* success; overlapped says that two of them were added at a time.         *)
(***************************************************************************)
EXTENDS Integers, Sequences, FiniteSetsExt

CONSTANTS
  Threads,
  Containers,  \* names, as sequences
  NameMax,     \* sizeof(name) - 1
  Policies,    \* the smaller the stricter
  Modes,       \* akira_power_mode_t
  MaxPolicies  \* MAX_CONTAINERS

VARIABLES
  table,  \* g_pm_state.container_policies
  count,  \* g_pm_state.policy_count
  mode,   \* g_pm_state.current_mode
  call,   \* akira_pm_set_policy() of each thread
  wanted, overlapped, outside \* history

vars == <<table, count, mode, call, wanted, overlapped, outside>>

LowPower == Max(Policies)
Strictest(ps) == Min(ps \union {LowPower})
Idle == [at |-> "idle", name |-> <<>>, policy |-> LowPower]
Cut(name) == SubSeq(name, 1, IF Len(name) < NameMax THEN Len(name) ELSE NameMax)
Entry == [name |-> <<>>, policy |-> Min(Policies)]

\* The entries there are; a count past the table reads what is not followed.
Entries == 1 .. Min({count, MaxPolicies})
Found(name) == {i \in Entries : table[i].name = name}

-----------------------------------------------------------------------------
\* akira_pm_set_policy() of a container that is found.
Update(t, n, p) ==
  /\ call[t] = Idle /\ Found(n) # {}
  /\ table' = [table EXCEPT ![Min(Found(n))].policy = p]
  /\ wanted' = [wanted EXCEPT ![n] = <<p>>]
  /\ UNCHANGED <<count, mode, call, overlapped, outside>>

\* ... and of one that is not: there is room; name; policy; count.
Add(t, n, p) ==
  /\ call[t] = Idle /\ Found(n) = {} /\ count < MaxPolicies
  /\ call' = [call EXCEPT ![t] = [at |-> "name", name |-> n, policy |-> p]]
  /\ overlapped' = (overlapped \/ \E u \in Threads : call[u] # Idle)
  /\ UNCHANGED <<table, count, mode, wanted, outside>>

Writes(e) ==
  IF count < MaxPolicies THEN table' = [table EXCEPT ![count + 1] = e] /\ UNCHANGED outside
  ELSE outside' = TRUE /\ UNCHANGED table
Here == IF count < MaxPolicies THEN table[count + 1] ELSE Entry

AddName(t) ==
  /\ call[t].at = "name" /\ Writes([Here EXCEPT !.name = Cut(call[t].name)])
  /\ call' = [call EXCEPT ![t].at = "policy"]
  /\ UNCHANGED <<count, mode, wanted, overlapped>>
AddPolicy(t) ==
  /\ call[t].at = "policy" /\ Writes([Here EXCEPT !.policy = call[t].policy])
  /\ call' = [call EXCEPT ![t].at = "count"]
  /\ UNCHANGED <<count, mode, wanted, overlapped>>
AddCount(t) ==
  /\ call[t].at = "count" /\ count' = count + 1 /\ call' = [call EXCEPT ![t] = Idle]
  /\ wanted' = [wanted EXCEPT ![call[t].name] = <<call[t].policy>>]
  /\ UNCHANGED <<table, mode, overlapped, outside>>

\* akira_pm_get_aggregate_policy()
\* A mutation: without the last entry.
AggregateBug == Strictest({table[i].policy : i \in 1 .. count - 1})
Aggregate == Strictest({table[i].policy : i \in Entries})

\* A mode that there is not is refused.
SetMode(m) == mode' = m /\ UNCHANGED <<table, count, call, wanted, overlapped, outside>>

\* power_manager_init()
Cleared == [i \in 1 .. MaxPolicies |-> Entry]
Init ==
  /\ table = Cleared /\ count = 0 /\ mode = Min(Modes) /\ call = [t \in Threads |-> Idle]
  /\ wanted = [n \in Containers |-> <<>>] /\ overlapped = FALSE /\ outside = FALSE

Next ==
  \/ \E t \in Threads :
       \/ \E n \in Containers, p \in Policies : Update(t, n, p) \/ Add(t, n, p)
       \/ AddName(t) \/ AddPolicy(t) \/ AddCount(t)
  \/ \E m \in Modes : SetMode(m)

Spec == Init /\ [][Next]_vars

-----------------------------------------------------------------------------
(* Properties.                                                             *)

\* The variables keep their types.
TypeOK == Len(table) = MaxPolicies /\ count >= 0 /\ mode \in Modes

\* Unless two containers were added at a time, the table is never overrun
\* and, as long as the names fit, the aggregate is the strictest of the
\* policies that the containers were given last.
PoliciesSound ==
  ~overlapped =>
    LET given == {n \in Containers : wanted[n] # <<>>}
        strictest == Strictest({wanted[n][1] : n \in given}) IN
    /\ ~outside /\ count <= MaxPolicies
    /\ (\A n \in given : Len(n) <= NameMax) => Aggregate = strictest
=============================================================================
