---------------------------- MODULE SandboxParams ----------------------------
(* What the models of a Sandbox share.                                         *)
EXTENDS Naturals

CONSTANTS MaxPods,    \* bound: how many pods the Sandbox gets in a behaviour
          Runs,       \* run ids; a daemon hands out one nobody has used before
          Reused      \* those a user chooses once more for a run on a later pod
                      \* (POST /v1/runs takes an optional run_id of the caller)

ASSUME PodsAssumption == MaxPods \in Nat
ASSUME ReusedAssumption == Reused \subseteq Runs

Pods == 1 .. MaxPods
=============================================================================
