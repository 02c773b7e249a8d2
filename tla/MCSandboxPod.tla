---------------------------- MODULE MCSandboxPod ----------------------------
(* SandboxPod on three pods and three run ids, one of them reused. *)
EXTENDS SandboxPod
=============================================================================
