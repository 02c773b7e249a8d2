-------------------------- MODULE MCServiceSession --------------------------
(* ServiceSession on small sets of processes.                                  *)
EXTENDS ServiceSession, TLC

\* Only where all senders are alike.
Symmetry == Permutations(Senders)
=============================================================================
