--------------------------- MODULE MCTimerWrites ---------------------------
(* The Timer's writes, and the countdown of one process, in one run.  The    *)
(* two models share no variable; part, chosen at the start, says which of    *)
(* them moves, and the other stays as it began.                              *)
EXTENDS MCTimerRuntime, TimerCountdown

VARIABLE part

TimerInit ==
    /\ part \in {"writes", "countdown"}
    /\ Init /\ CountdownInit
    /\ part = "countdown" =>
          timer = NoTimer /\ schedule = {} /\ mode = "stream"

TimerNext ==
    \/ part = "writes" /\ Next /\ UNCHANGED <<part, countdownVars>>
    \/ part = "countdown" /\ CountdownNext /\ UNCHANGED <<part, vars>>

TimerSpec == TimerInit /\ [][TimerNext]_<<part, vars, countdownVars>>
=============================================================================
