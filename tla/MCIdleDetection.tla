-------------------------- MODULE MCIdleDetection --------------------------
(* IdleDetection on a few replicas. *)
EXTENDS IdleDetection, TLC

Symmetry == Permutations(Replicas)

\* One trouble of any kind: a user's write, a save of preferences, or a fault.
OneTrouble == writes + saves + faults <= 1
=============================================================================
