------------------------------ MODULE MCActor -------------------------------
(* Small instances of Actor for TLC: r1 is an actor "a" that restarts, r2  *)
(* one that does not, of the same name or another.                         *)
EXTENDS Actor
CONSTANTS r1, r2

AllOptions ==
    {[strategy |-> "NoRestart", maxRestarts |-> 0], [strategy |-> "RestartN", maxRestarts |-> 1],
     [strategy |-> "RestartAlways", maxRestarts |-> 0]}

TwoActors ==
    Init /\ args[r1].id = "a" /\ args[r1].opt.strategy # "NoRestart"
         /\ args[r2].opt.strategy = "NoRestart"

FairActors == TwoActors /\ [][Next]_actorVars /\ Fairness
=============================================================================
