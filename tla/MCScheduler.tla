---------------------------- MODULE MCScheduler -----------------------------
(* Small instances of Scheduler for TLC: state "a" has two timers, "b" one. *)
EXTENDS Scheduler

MCState == {"a", "b"}
MCTimer == {"a.1", "a.2", "b.1"}
MCOwner == [t \in MCTimer |-> IF t = "b.1" THEN "b" ELSE "a"]

\* A state is exited before it is entered again.
ExitFirst == Init /\ [][Next /\ ~\E t \in Timer : CancelInStart(t)]_schedVars
=============================================================================
