---------------------------- MODULE MCSupervisor ----------------------------
(* Every kind of supervised process. Nothing is bounded: the state space is finite. *)
EXTENDS ProcessSupervisor

MCKinds == {"codex", "command", "spring", "podman", "podman_service"}

=============================================================================
