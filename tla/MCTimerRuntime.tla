--------------------------- MODULE MCTimerRuntime ---------------------------
(* TimerRuntime with symmetric request handlers and replicas. *)
EXTENDS TimerRuntime, TLC

Symmetry == Permutations(Clients) \cup Permutations(Replicas)
=============================================================================
