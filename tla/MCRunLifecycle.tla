---------------------------- MODULE MCRunLifecycle ----------------------------
(* One run_ref, every command line and spec, two tries to find the Job's pod. *)
EXTENDS RunLifecycle
=============================================================================
