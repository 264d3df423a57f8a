------------------------------ MODULE Persist -------------------------------
(***************************************************************************)
(* Checkpoints (src/persist/persist.go) and the service that Restore makes *)
(* of one (src/runtime/service.go): the interpreter of Interpreter, whose  *)
(* snapshot may be saved at any moment, whose process may crash at any     *)
(* moment, and which then resumes from the last checkpoint, perhaps under  *)
(* a later release of the machine. The context is abstracted to what the   *)
(* entry and exit actions have recorded in it: entered.                    *)
(***************************************************************************)
EXTENDS Interpreter

CONSTANTS
    Releases(_)  \* the machines that later releases run under the same ID

VARIABLES
    disk,     \* the last Checkpoint saved, NoCheckpoint before the first
    resumed   \* history: the checkpoint restored, until the next event is taken

persistVars == <<interpVars, disk, resumed>>

NoCheckpoint == <<>>

PersistInit ==
    /\ Init
    /\ disk = NoCheckpoint
    /\ resumed = NoCheckpoint

-----------------------------------------------------------------------------
(* Save and crash.                                                         *)

\* Mutant: the context is that of the service when it rested last.
SaveOldContext ==
    /\ pc # "down"
    /\ disk' = [machine |-> machine, leaves |-> snapshot.leaves, invokes |-> invokes,
                context |-> IF pc = "select" \/ disk = NoCheckpoint THEN entered ELSE disk.context,
                rest |-> pc = "select"]
    /\ UNCHANGED <<interpVars, resumed>>

\* On any goroutine, whatever the interpreter is doing; the snapshot of a service
\* that has exited can still be saved. invokes and rest are history.
Save ==
    /\ pc # "down"
    /\ disk' = [machine |-> machine, leaves |-> snapshot.leaves, context |-> entered,
                invokes |-> invokes, rest |-> pc = "select"]
    /\ UNCHANGED <<interpVars, resumed>>

\* The process ends; only the checkpoint survives.
Crash ==
    /\ pc # "down"
    /\ pc' = "down"
    /\ leaves' = <<>> /\ internal' = <<>> /\ outCh' = <<>>
    /\ timers' = {}
    /\ iter' = 0
    /\ entered' = [s \in StateIDs(machine) |-> 0]
    /\ invokes' = [s \in StateIDs(machine) |-> 0]
    /\ last' = [exit |-> <<>>, entry |-> <<>>]
    /\ snapshot' = Snap(machine, <<>>)
    /\ resumed' = NoCheckpoint
    /\ UNCHANGED <<machine, disk>>

-----------------------------------------------------------------------------
(* Restore.                                                                *)

\* Mutant: compound states are not refused.
KnownStates(m, ls) == ls # <<>> /\ ToSet(ls) \subseteq StateIDs(m)

\* What Restore asks of the leaves. When it is not so, or the machine has
\* another ID, there is an error and no service.
ValidLeaves(m, ls) ==
    /\ ls # <<>>
    /\ \A i \in DOMAIN ls : ls[i] \in StateIDs(m) /\ ~IsCompound(m, ls[i])

\* What RestoreAs has in common with its mutants.
Resume(m, config, raised, enteredAgain) ==
    /\ pc = "down"
    /\ disk # NoCheckpoint
    /\ ValidLeaves(m, disk.leaves)
    /\ machine' = m
    /\ leaves' = disk.leaves
    /\ entered' = [s \in StateIDs(m) |->
                    (IF s \in DOMAIN disk.context THEN disk.context[s] ELSE 0)
                        + Has(enteredAgain, s)]
    /\ internal' = raised
    /\ timers' = {s \in config : m.after[s] # None}
    /\ invokes' = [s \in StateIDs(m) |-> IF s \in config \cap m.invokes THEN 1 ELSE 0]
    /\ snapshot' = Snap(m, disk.leaves)
    /\ pc' = "loop"
    /\ resumed' = disk
    /\ UNCHANGED <<iter, outCh, last, disk>>

Configured(m) == ToSet(ConfigurationOf(m, disk.leaves))

\* Mutant: the states are entered, as Start does.
RestoreEntering(m) == Resume(m, Configured(m), <<>>, ConfigurationOf(m, disk.leaves))

\* Mutant: the done events of the states entered are raised, as Start does.
RestoreRaisingDone(m) ==
    Resume(m, Configured(m), DoneEvents(m, disk.leaves, ConfigurationOf(m, disk.leaves)), <<>>)

\* No entry action runs and no event is raised; timers and invocations start
\* for every state of the configuration.
RestoreAs(m) == Resume(m, Configured(m), <<>>, <<>>)

-----------------------------------------------------------------------------
(* The releases with which a checkpoint keeps its meaning: Restore asks    *)
(* only that its leaves are leaves.                                        *)

\* A leaf of both machines lies in the same states, and where these are parallel
\* they have the same regions.
SameLeaves(m, n) ==
    \A l \in StateIDs(m) \cap StateIDs(n) : ~IsCompound(m, l) /\ ~IsCompound(n, l) =>
        /\ Ancestors(m, l) = Ancestors(n, l)
        /\ \A q \in Ancestors(m, l) :
            /\ q \in m.parallel <=> q \in n.parallel
            /\ q \in m.parallel => ToSet(Children(m, q)) = ToSet(Children(n, q))

\* later has the pairs of a machine and the same or a later release of it.
Lineage(later) ==
    /\ \A m \in Machines : <<m, m>> \in later
    /\ \A p \in later :
        /\ Runnable(p[2]) /\ KeepsRegions(p[2]) /\ SameLeaves(p[1], p[2])
        /\ \A n \in Releases(p[2]) : {<<p[1], n>>, <<n, n>>} \subseteq later

-----------------------------------------------------------------------------
Running ==
    /\ RunSteps \/ Cancelled \/ \E s \in StateIDs(machine) : TimerFires(s)
    /\ UNCHANGED <<disk, resumed>>

Taking ==
    /\ \E holds \in SUBSET Guarded :
        ReceiveTimer(holds) \/ \E ev \in UserEvents : Receive(ev, holds)
    /\ resumed' = NoCheckpoint
    /\ UNCHANGED disk

PersistNext ==
    \/ Running
    \/ Taking
    \/ Save
    \/ Crash
    \/ \E m \in {machine} \cup Releases(machine) : RestoreAs(m)

PersistSpec ==
    /\ PersistInit
    /\ [][PersistNext]_persistVars
    /\ WF_persistVars(RunSteps /\ UNCHANGED <<disk, resumed>>)

-----------------------------------------------------------------------------
(* Properties.                                                             *)

\* Whenever the checkpoint was taken, in the middle of a chain of raised events
\* or not, and whichever release restores it, the service that runs is in a
\* legal configuration, the context it resumes with has seen exactly the entries
\* of the active states ("the stored context already reflects them"), and its
\* timers and invocations are theirs.
RestoredConsistent ==
    pc # "down" => LegalConfiguration /\ LifecycleFollowsConfiguration

\* "Restore the service to exactly that configuration": a service that was at
\* rest when it was saved, and that no guard can have moved since, is at rest in
\* the same configuration when it resumes, with the same invocations, until it
\* takes an event: none is raised, and no Always was waiting.
ResumesWhereItRested ==
    /\ resumed # NoCheckpoint
    /\ resumed.rest
    /\ resumed.machine = machine
    /\ pc # "exited"
    /\ \A k \in Guarded : machine.transitions[k].on # AlwaysEvent
    => /\ leaves = resumed.leaves
       /\ internal = <<>>
       /\ entered = resumed.context
       /\ invokes = resumed.invokes
=============================================================================
