---------------------------- MODULE MCAppRegistry ----------------------------
(* AppManager for TLC, under two instances side by side: focus "faults" is    *)
(* one with refused writes, boots and shutdowns, focus "races" one with apps  *)
(* that restart automatically, where the work queue runs against a caller.    *)
EXTENDS AppManager, TLC

VARIABLE focus

Symmetry == Permutations(Names) \cup Permutations(Threads)

\* No automatic restart.
NoRestart == {[auto |-> FALSE, max |-> 0]}

\* Automatic restart after one crash.
OneRetry == {[auto |-> TRUE, max |-> 2]}

Races == INSTANCE AppManager WITH
  RestartConfigs <- OneRetry, MaxFaults <- 0, MaxBoots <- 1

RegistryInit == focus \in {"faults", "races"} /\ Init
RegistryNext ==
  /\ \/ focus = "faults" /\ Next
     \/ focus = "races" /\ Races!Next
  /\ UNCHANGED focus
RegistrySpec == RegistryInit /\ [][RegistryNext]_<<focus, vars>>
=============================================================================
