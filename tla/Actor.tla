------------------------------- MODULE Actor --------------------------------
(***************************************************************************)
(* Named actors (src/actor): Spawn, the registry of a System, the Ref that *)
(* survives restarts, its supervision loop, and the two ways to stop: Stop *)
(* of a Ref and Stop of the System.                                        *)
(*                                                                         *)
(* Of each Service only what its clients see is kept: it runs, it may      *)
(* panic, and it is done. The module Service shows how it gets there. An   *)
(* entry action that panics inside runtime.Start is outside this model.    *)
(***************************************************************************)
EXTENDS Naturals, Sequences, FiniteSets

CONSTANTS
    Ref,          \* calls of Spawn, each of which makes a Ref
    Id,           \* names of actors
    Options,      \* arguments of WithStrategy: [strategy, maxRestarts]
    Senders,      \* goroutines that call Send on a Ref
    Closers,      \* goroutines that call Stop on the System
    NoRef,        \* the name is not registered
    MaxPanics,    \* bound: services of one Ref that may panic
    MaxSends      \* bound: calls of Send by one sender

ASSUME ActorAssumption ==
    /\ Options \subseteq [strategy : {"NoRestart", "RestartAlways", "RestartN"}, maxRestarts : Nat]
    /\ MaxPanics \in Nat /\ MaxSends \in Nat
    /\ NoRef \notin Ref
    /\ Id # {} /\ Options # {}

VARIABLES
    args,     \* the name and the options each call of Spawn is given
    spawn,    \* where each call of Spawn stands
    svcs,     \* the services each Ref has had: [phase, err]
    svcPtr,   \* r.svcPtr: the current service of the Ref
    sup,      \* where the goroutine of supervise stands; "exited": doneCh is closed
    restarts, \* its local variable restarts
    stopCh,   \* r.stopCh is closed
    refStop,  \* where the caller of the Ref's Stop stands
    actors,   \* s.actors
    handles,  \* the handles that the first Stop of the System has copied
    sysStop,  \* where the function given to s.once stands; "done": s.done is closed
    closer,   \* where each caller of the System's Stop stands
    send,     \* where each sender stands in Send, with the service it has loaded
    answer,   \* what the last Send of each sender returned
    sends     \* calls of Send by each sender

supVars  == <<sup, restarts>>
refVars  == <<stopCh, refStop>>
sysVars  == <<handles, sysStop, closer>>
sendVars == <<send, answer, sends>>
actorVars == <<args, spawn, svcs, svcPtr, supVars, refVars, actors, sysVars, sendVars>>

Name(r) == args[r].id
Strategy(r) == args[r].opt.strategy
MaxRestarts(r) == args[r].opt.maxRestarts

NewService == [phase |-> "running", err |-> FALSE]
Idle == [to |-> NoRef, k |-> 0, at |-> "idle"]

Init ==
    /\ args \in [Ref -> [id : Id, opt : Options]]
    /\ spawn = [r \in Ref |-> "idle"]
    /\ svcs = [r \in Ref |-> <<>>]
    /\ svcPtr = [r \in Ref |-> 0]
    /\ sup = [r \in Ref |-> "none"]
    /\ restarts = [r \in Ref |-> 0]
    /\ stopCh = [r \in Ref |-> FALSE]
    /\ refStop = [r \in Ref |-> "idle"]
    /\ actors = [i \in Id |-> NoRef]
    /\ handles = {}
    /\ sysStop = "open"
    /\ closer = [c \in Closers |-> "idle"]
    /\ send = [c \in Senders |-> Idle]
    /\ answer = [c \in Senders |-> "none"]
    /\ sends = [c \in Senders |-> 0]

-----------------------------------------------------------------------------
(* A Service, as Service models it.                                        *)

SetPhase(r, k, p) == svcs' = [svcs EXCEPT ![r][k].phase = p]

\* The part of svc.Stop() before it waits for done.
StopService(r, k) ==
    IF svcs[r][k].phase = "running" THEN SetPhase(r, k, "stopping") ELSE UNCHANGED svcs

IsDone(r, k) == svcs[r][k].phase = "done"

\* An action or a guard panics; the step that a Stop interrupts may too.
Panic(r, k) ==
    /\ k \in DOMAIN svcs[r] /\ ~IsDone(r, k)
    /\ k <= MaxPanics
    /\ ~svcs[r][k].err
    /\ svcs' = [svcs EXCEPT ![r][k].err = TRUE]
    /\ UNCHANGED <<args, spawn, svcPtr, supVars, refVars, actors, sysVars, sendVars>>

\* The deferred function of run.
End(r, k) ==
    /\ k \in DOMAIN svcs[r] /\ ~IsDone(r, k)
    /\ svcs[r][k].err \/ svcs[r][k].phase = "stopping"
    /\ SetPhase(r, k, "done")
    /\ UNCHANGED <<args, spawn, svcPtr, supVars, refVars, actors, sysVars, sendVars>>

-----------------------------------------------------------------------------
(* Spawn.                                                                  *)

StartFirst(r) ==
    /\ spawn[r] = "idle"
    /\ spawn' = [spawn EXCEPT ![r] = "register"]
    /\ svcs' = [svcs EXCEPT ![r] = <<NewService>>]
    /\ svcPtr' = [svcPtr EXCEPT ![r] = 1]
    /\ UNCHANGED <<args, supVars, refVars, actors, sysVars, sendVars>>

\* Mutant: a second actor takes over the name.
RegisterOver(r) ==
    /\ spawn[r] = "register"
    /\ spawn' = [spawn EXCEPT ![r] = "registered"]
    /\ actors' = [actors EXCEPT ![Name(r)] = r]
    /\ UNCHANGED <<args, svcs, svcPtr, supVars, refVars, sysVars, sendVars>>

\* register: under s.mu.
Register(r) ==
    /\ spawn[r] = "register"
    /\ IF actors[Name(r)] = NoRef
       THEN /\ actors' = [actors EXCEPT ![Name(r)] = r]
            /\ spawn' = [spawn EXCEPT ![r] = "registered"]
       ELSE /\ spawn' = [spawn EXCEPT ![r] = "cleanup"]
            /\ UNCHANGED actors
    /\ UNCHANGED <<args, svcs, svcPtr, supVars, refVars, sysVars, sendVars>>

\* Mutant: the service that holds the name is stopped.
CleanUpOther(r) ==
    /\ spawn[r] = "cleanup"
    /\ StopService(actors[Name(r)], svcPtr[actors[Name(r)]])
    /\ spawn' = [spawn EXCEPT ![r] = "cleanupWait"]
    /\ UNCHANGED <<args, svcPtr, supVars, refVars, actors, sysVars, sendVars>>

\* The name is taken: svc.Stop(), then the error.
CleanUp(r) ==
    /\ spawn[r] = "cleanup"
    /\ StopService(r, 1)
    /\ spawn' = [spawn EXCEPT ![r] = "cleanupWait"]
    /\ UNCHANGED <<args, svcPtr, supVars, refVars, actors, sysVars, sendVars>>

SpawnFails(r) ==
    /\ spawn[r] = "cleanupWait"
    /\ IsDone(r, 1)
    /\ spawn' = [spawn EXCEPT ![r] = "failed"]
    /\ UNCHANGED <<args, svcs, svcPtr, supVars, refVars, actors, sysVars, sendVars>>

\* go r.supervise()
SpawnReturns(r) ==
    /\ spawn[r] = "registered"
    /\ spawn' = [spawn EXCEPT ![r] = "returned"]
    /\ sup' = [sup EXCEPT ![r] = "select"]
    /\ UNCHANGED <<args, svcs, svcPtr, restarts, refVars, actors, sysVars, sendVars>>

-----------------------------------------------------------------------------
(* supervise: its select, then what follows each case.                     *)

SetSup(r, p) == sup' = [sup EXCEPT ![r] = p]

\* Mutant: the limit is off by one.
ShouldRestartOnceMore(r) ==
    \/ Strategy(r) = "RestartAlways"
    \/ Strategy(r) = "RestartN" /\ restarts[r] <= MaxRestarts(r)

\* Mutant: only a limit lets an actor restart.
ShouldRestartNOnly(r) == Strategy(r) = "RestartN" /\ restarts[r] < MaxRestarts(r)

ShouldRestart(r) ==
    \/ Strategy(r) = "RestartAlways"
    \/ Strategy(r) = "RestartN" /\ restarts[r] < MaxRestarts(r)

\* Mutant: a supervisor that has restarted once does not look at stopCh again.
SeeStopOnce(r) ==
    /\ sup[r] = "select"
    /\ stopCh[r] /\ restarts[r] = 0
    /\ StopService(r, svcPtr[r])
    /\ SetSup(r, "stopping")
    /\ UNCHANGED <<args, spawn, svcPtr, restarts, refVars, actors, sysVars, sendVars>>

\* case <-r.stopCh
SeeStop(r) ==
    /\ sup[r] = "select"
    /\ stopCh[r]
    /\ StopService(r, svcPtr[r])
    /\ SetSup(r, "stopping")
    /\ UNCHANGED <<args, spawn, svcPtr, restarts, refVars, actors, sysVars, sendVars>>

\* Mutant: supervise returns without waiting for the service.
StoppedAtOnce(r) ==
    /\ sup[r] = "stopping"
    /\ SetSup(r, "exited")
    /\ UNCHANGED <<args, spawn, svcs, svcPtr, restarts, refVars, actors, sysVars, sendVars>>

\* svc.Stop() returns, and with it supervise.
Stopped(r) ==
    /\ sup[r] = "stopping"
    /\ IsDone(r, svcPtr[r])
    /\ SetSup(r, "exited")
    /\ UNCHANGED <<args, spawn, svcs, svcPtr, restarts, refVars, actors, sysVars, sendVars>>

\* Mutant: the supervisor reacts to Err() and does not wait for Done().
SeeErr(r) ==
    /\ sup[r] = "select"
    /\ svcs[r][svcPtr[r]].err
    /\ IF ShouldRestart(r)
       THEN SetSup(r, "start") /\ restarts' = [restarts EXCEPT ![r] = @ + 1]
       ELSE SetSup(r, "exited") /\ UNCHANGED restarts
    /\ UNCHANGED <<args, spawn, svcs, svcPtr, refVars, actors, sysVars, sendVars>>

\* Mutant: the Ref is swapped before the new service exists.
SwapFirst(r) ==
    /\ sup[r] = "select"
    /\ IsDone(r, svcPtr[r])
    /\ svcPtr' = [svcPtr EXCEPT ![r] = @ + 1]
    /\ SetSup(r, "start") /\ restarts' = [restarts EXCEPT ![r] = @ + 1]
    /\ UNCHANGED <<args, spawn, svcs, refVars, actors, sysVars, sendVars>>

\* case <-svc.Done()
SeeDone(r) ==
    /\ sup[r] = "select"
    /\ IsDone(r, svcPtr[r])
    /\ IF svcs[r][svcPtr[r]].err /\ ShouldRestart(r)
       THEN SetSup(r, "start") /\ restarts' = [restarts EXCEPT ![r] = @ + 1]
       ELSE SetSup(r, "exited") /\ UNCHANGED restarts
    /\ UNCHANGED <<args, spawn, svcs, svcPtr, refVars, actors, sysVars, sendVars>>

\* runtime.Start: the new service runs before the Ref points to it.
Restart(r) ==
    /\ sup[r] = "start"
    /\ svcs' = [svcs EXCEPT ![r] = Append(@, NewService)]
    /\ SetSup(r, "store")
    /\ UNCHANGED <<args, spawn, svcPtr, restarts, refVars, actors, sysVars, sendVars>>

\* r.svcPtr.Store(newSvc)
StoreService(r) ==
    /\ sup[r] = "store"
    /\ svcPtr' = [svcPtr EXCEPT ![r] = Len(svcs[r])]
    /\ SetSup(r, "select")
    /\ UNCHANGED <<args, spawn, svcs, restarts, refVars, actors, sysVars, sendVars>>

-----------------------------------------------------------------------------
(* Stop of a Ref, called any number of times: all calls close and wait     *)
(* alike, so one caller stands for them.                                   *)

CallRefStop(r) ==
    /\ spawn[r] = "returned"
    /\ refStop[r] = "idle"
    /\ refStop' = [refStop EXCEPT ![r] = "wait"]
    /\ stopCh' = [stopCh EXCEPT ![r] = TRUE]
    /\ UNCHANGED <<args, spawn, svcs, svcPtr, supVars, actors, sysVars, sendVars>>

RefStopReturn(r) ==
    /\ refStop[r] = "wait"
    /\ sup[r] = "exited"
    /\ refStop' = [refStop EXCEPT ![r] = "returned"]
    /\ UNCHANGED <<args, spawn, svcs, svcPtr, supVars, stopCh, actors, sysVars, sendVars>>

-----------------------------------------------------------------------------
(* Stop of the System: the first caller copies the handles, each is told   *)
(* to stop on a goroutine of its own, and the other callers wait in once.  *)

CallSystemStop(c) ==
    /\ closer[c] = "idle"
    /\ closer' = [closer EXCEPT ![c] = "wait"]
    /\ IF sysStop = "open"
       THEN /\ sysStop' = "stopping"
            /\ handles' = {actors[i] : i \in Id} \ {NoRef}
       ELSE UNCHANGED <<sysStop, handles>>
    /\ UNCHANGED <<args, spawn, svcs, svcPtr, supVars, refVars, actors, sendVars>>

StopHandle(r) ==
    /\ r \in handles
    /\ ~stopCh[r]
    /\ stopCh' = [stopCh EXCEPT ![r] = TRUE]
    /\ UNCHANGED <<args, spawn, svcs, svcPtr, supVars, refStop, actors, sysVars, sendVars>>

\* Mutant: the handles are told to stop and nobody waits for them.
SystemStoppedAtOnce ==
    /\ sysStop = "stopping"
    /\ \A r \in handles : stopCh[r]
    /\ sysStop' = "done"
    /\ UNCHANGED <<args, spawn, svcs, svcPtr, supVars, refVars, actors, handles, closer, sendVars>>

\* wg.Wait(); close(s.done)
SystemStopped ==
    /\ sysStop = "stopping"
    /\ \A r \in handles : sup[r] = "exited"
    /\ sysStop' = "done"
    /\ UNCHANGED <<args, spawn, svcs, svcPtr, supVars, refVars, actors, handles, closer, sendVars>>

SystemStopReturn(c) ==
    /\ closer[c] = "wait"
    /\ sysStop = "done"
    /\ closer' = [closer EXCEPT ![c] = "returned"]
    /\ UNCHANGED <<args, spawn, svcs, svcPtr, supVars, refVars, actors, handles, sysStop, sendVars>>

-----------------------------------------------------------------------------
(* Send of a Ref: it loads the service, then calls its Send.               *)

LoadService(c, r) ==
    /\ spawn[r] = "returned"
    /\ send[c] = Idle
    /\ sends[c] < MaxSends
    /\ send' = [send EXCEPT ![c] = [to |-> r, k |-> svcPtr[r], at |-> "loaded"]]
    /\ sends' = [sends EXCEPT ![c] = @ + 1]
    /\ UNCHANGED <<args, spawn, svcs, svcPtr, supVars, refVars, actors, sysVars, answer>>

Target(c) == svcs[send[c].to][send[c].k]

\* The status test of Service.Send; a service that has panicked is "running"
\* until its deferred function says otherwise.
CheckStatus(c) ==
    /\ send[c].at = "loaded"
    /\ Target(c).phase = "running"
    /\ send' = [send EXCEPT ![c].at = "checked"]
    /\ UNCHANGED <<args, spawn, svcs, svcPtr, supVars, refVars, actors, sysVars, answer, sends>>

SendReturns(c, a) ==
    /\ send' = [send EXCEPT ![c] = Idle]
    /\ answer' = [answer EXCEPT ![c] = a]
    /\ UNCHANGED <<args, spawn, svcs, svcPtr, supVars, refVars, actors, sysVars, sends>>

\* The mailbox takes the event.
SendAccepted(c) ==
    /\ send[c].at = "checked"
    /\ SendReturns(c, "nil")

\* The status test fails, or done is closed.
SendRefused(c) ==
    /\ \/ send[c].at = "loaded" /\ (Target(c).phase # "running" \/ Target(c).err)
       \/ send[c].at = "checked" /\ Target(c).phase = "done"
    /\ SendReturns(c, "ErrActorStopped")

-----------------------------------------------------------------------------

ServiceNext == \E r \in Ref : \E k \in DOMAIN svcs[r] : Panic(r, k) \/ End(r, k)

SpawnNext(r) ==
    \/ StartFirst(r) \/ Register(r) \/ CleanUp(r) \/ SpawnFails(r) \/ SpawnReturns(r)

SuperviseNext(r) ==
    \/ SeeStop(r) \/ Stopped(r) \/ SeeDone(r) \/ Restart(r) \/ StoreService(r)

StopNext ==
    \/ \E r \in Ref : CallRefStop(r) \/ RefStopReturn(r) \/ StopHandle(r)
    \/ \E c \in Closers : CallSystemStop(c) \/ SystemStopReturn(c)
    \/ SystemStopped

SendNext ==
    \E c \in Senders :
        \/ \E r \in Ref : LoadService(c, r)
        \/ CheckStatus(c) \/ SendAccepted(c) \/ SendRefused(c)

Next ==
    \/ ServiceNext
    \/ \E r \in Ref : SpawnNext(r) \/ SuperviseNext(r)
    \/ StopNext
    \/ SendNext

Spec == Init /\ [][Next]_actorVars

(***************************************************************************)
(* Fairness: goroutines that can run do (WF), a service that panicked or   *)
(* was stopped ends (EveryCallReturns of Service), and a select    *)
(* that finds stopCh closed again and again takes that case (SF). Nobody   *)
(* has to call Spawn, Send or Stop.                                        *)
(***************************************************************************)
Fairness ==
    /\ \A r \in Ref :
        /\ WF_actorVars(Register(r) \/ CleanUp(r) \/ SpawnFails(r) \/ SpawnReturns(r))
        /\ WF_actorVars(Stopped(r) \/ SeeDone(r) \/ Restart(r) \/ StoreService(r))
        /\ SF_actorVars(SeeStop(r))
        /\ WF_actorVars(StopHandle(r))
        /\ WF_actorVars(RefStopReturn(r))
        /\ WF_actorVars(\E k \in DOMAIN svcs[r] : End(r, k))
    /\ WF_actorVars(SystemStopped)
    /\ \A c \in Closers : WF_actorVars(SystemStopReturn(c))

FairSpec == Spec /\ Fairness

-----------------------------------------------------------------------------
(* Properties.                                                             *)

TypeOK ==
    /\ args \in [Ref -> [id : Id, opt : Options]]
    /\ spawn \in [Ref -> {"idle", "register", "registered", "cleanup", "cleanupWait",
                          "failed", "returned"}]
    /\ svcs \in [Ref -> Seq([phase : {"running", "stopping", "done"}, err : BOOLEAN])]
    /\ \A r \in Ref : svcPtr[r] \in 0..Len(svcs[r])
    /\ sup \in [Ref -> {"none", "select", "stopping", "start", "store", "exited"}]
    /\ restarts \in [Ref -> Nat]
    /\ stopCh \in [Ref -> BOOLEAN]
    /\ refStop \in [Ref -> {"idle", "wait", "returned"}]
    /\ actors \in [Id -> Ref \cup {NoRef}]
    /\ handles \subseteq Ref
    /\ sysStop \in {"open", "stopping", "done"}
    /\ closer \in [Closers -> {"idle", "wait", "returned"}]
    /\ \A c \in Senders : send[c] # Idle =>
        send[c].k \in DOMAIN svcs[send[c].to] /\ send[c].at \in {"loaded", "checked"}
    /\ answer \in [Senders -> {"none", "nil", "ErrActorStopped"}]
    /\ sends \in [Senders -> 0..MaxSends]

Halted(r) == \A k \in DOMAIN svcs[r] : IsDone(r, k)

\* Stop of a Ref "blocks until it has fully stopped", Done() says the same, and
\* a Spawn that fails has cleaned up: no service of the Ref is running then,
\* whatever restart the supervisor was about to do. When Stop of the System
\* returns, this goes for every actor registered when it was first called.
NothingLeftBehind ==
    /\ \A r \in Ref :
        sup[r] = "exited" \/ spawn[r] = "failed" \/ refStop[r] = "returned" => Halted(r)
    /\ sysStop = "done" => \A r \in handles : sup[r] = "exited" /\ Halted(r)

\* A Ref has one service at a time, and its sends reach that one unless the
\* supervisor is about to store it: a restart waits for the old goroutine.
OneServiceAtATime ==
    \A r \in Ref : \A k \in DOMAIN svcs[r] :
        ~IsDone(r, k) => k = Len(svcs[r]) /\ (k = svcPtr[r] \/ sup[r] = "store")

\* Services are replaced only after a panic, and no more often than the
\* strategy allows: RestartN gives maxRestarts + 1 lives.
RestartsWithinLimit ==
    \A r \in Ref :
        /\ \A k \in DOMAIN svcs[r] : k < Len(svcs[r]) => svcs[r][k].err
        /\ Strategy(r) = "NoRestart" => Len(svcs[r]) <= 1
        /\ Strategy(r) = "RestartN" => Len(svcs[r]) <= MaxRestarts(r) + 1

\* Two actors are never supervised under one name, and Stop of the System can
\* reach every supervised actor through the registry.
OneActorPerName ==
    \A r \in Ref : sup[r] # "none" => actors[Name(r)] = r

\* What the doc of System.Stop and Done says: it blocks until all actors have
\* stopped, so none is running once it has returned.
SystemStopStopsAll ==
    (\E c \in Closers : closer[c] = "returned")
        => \A r \in Ref : spawn[r] = "returned" => sup[r] = "exited"

\* Send answers ErrActorStopped only if the actor is being stopped, or if the
\* service it has reached panicked: no Spawn, restart or Stop of another actor
\* takes a service away from it.
RefusedForAReason ==
    [][\A c \in Senders :
        send[c] # Idle /\ send'[c] = Idle /\ answer'[c] = "ErrActorStopped"
            => stopCh[send[c].to] \/ Target(c).err]_actorVars

\* Every Stop of a Ref returns, restarts notwithstanding, and every Stop of the
\* System.
EveryStopReturns ==
    /\ \A r \in Ref : refStop[r] = "wait" ~> refStop[r] = "returned"
    /\ \A c \in Closers : closer[c] = "wait" ~> closer[c] = "returned"

\* A supervised service that panics is replaced, under RestartAlways, unless the
\* actor is stopped.
PanicIsRepaired ==
    \A r \in Ref : Strategy(r) = "RestartAlways" =>
        \A k \in 1..MaxPanics :
            (sup[r] # "none" /\ k = svcPtr[r] /\ svcs[r][k].err) ~> (svcPtr[r] > k \/ stopCh[r])
=============================================================================
