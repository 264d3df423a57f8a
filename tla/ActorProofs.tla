---------------------------- MODULE ActorProofs -----------------------------
(***************************************************************************)
(* Theorems about Actor, for every set of Refs, names, strategies, senders *)
(* and closers.                                                            *)
(***************************************************************************)
EXTENDS Actor, TLAPS

Phases == {"running", "stopping", "done"}
Services == [phase : Phases, err : BOOLEAN]
SupStates == {"none", "select", "stopping", "start", "store", "exited"}
SpawnStates == {"idle", "register", "registered", "cleanup", "cleanupWait", "failed", "returned"}

Types ==
    /\ args \in [Ref -> [id : Id, opt : Options]]
    /\ spawn \in [Ref -> SpawnStates]
    /\ svcs \in [Ref -> Seq(Services)]
    /\ svcPtr \in [Ref -> Nat]
    /\ sup \in [Ref -> SupStates]
    /\ restarts \in [Ref -> Nat]
    /\ stopCh \in [Ref -> BOOLEAN]
    /\ refStop \in [Ref -> {"idle", "wait", "returned"}]
    /\ actors \in [Id -> Ref \cup {NoRef}]
    /\ handles \subseteq Ref
    /\ sysStop \in {"open", "stopping", "done"}
    /\ closer \in [Closers -> {"idle", "wait", "returned"}]
    /\ send \in [Senders -> [to : Ref \cup {NoRef}, k : Nat, at : {"idle", "loaded", "checked"}]]
    /\ answer \in [Senders -> {"none", "nil", "ErrActorStopped"}]
    /\ sends \in [Senders -> 0..MaxSends]

\* How many services a Ref has had at each point of Spawn and of supervise, and
\* which of them the pointer names.
CountInv(r) ==
    /\ spawn[r] = "idle" <=> Len(svcs[r]) = 0
    /\ svcPtr[r] = IF sup[r] = "store" THEN Len(svcs[r]) - 1 ELSE Len(svcs[r])
    /\ sup[r] = "none" <=> spawn[r] # "returned"
    /\ sup[r] = "none" => Len(svcs[r]) <= 1 /\ restarts[r] = 0
    /\ sup[r] # "none" => Len(svcs[r]) = IF sup[r] = "start" THEN restarts[r] ELSE restarts[r] + 1
    /\ sup[r] \in {"start", "store"} => restarts[r] # 0
    /\ Strategy(r) = "NoRestart" => restarts[r] = 0
    /\ Strategy(r) = "RestartN" => restarts[r] <= MaxRestarts(r)
    /\ refStop[r] = "returned" => sup[r] = "exited"

\* A service that was replaced, or is about to be, is done and has panicked; all
\* are done when supervise exits or Spawn fails; and a service that is going
\* down has panicked or was told to.
ServicesInv(r) ==
    \A k \in 1..Len(svcs[r]) :
        /\ k < Len(svcs[r]) \/ sup[r] = "start" => svcs[r][k].phase = "done" /\ svcs[r][k].err
        /\ sup[r] = "exited" \/ spawn[r] = "failed" => svcs[r][k].phase = "done"
        /\ svcs[r][k].phase # "running" =>
            svcs[r][k].err \/ stopCh[r] \/ spawn[r] \in {"cleanupWait", "failed"}

RefInv(r) == CountInv(r) /\ ServicesInv(r)

NameInv == \A r \in Ref : spawn[r] \in {"registered", "returned"} => actors[Name(r)] = r

StopInv == sysStop = "done" => \A r \in handles : sup[r] = "exited"

\* A send is under way to a service of an actor that Spawn has returned.
SendInv ==
    \A c \in Senders : send[c] # Idle =>
        /\ send[c].to \in Ref
        /\ spawn[send[c].to] = "returned"
        /\ send[c].k \in 1..Len(svcs[send[c].to])
        /\ send[c].at \in {"loaded", "checked"}

IInv == Types /\ (\A r \in Ref : RefInv(r)) /\ NameInv /\ StopInv /\ SendInv

-----------------------------------------------------------------------------
LEMMA InitIInv == Init => IInv
<1> SUFFICES ASSUME Init PROVE IInv
  OBVIOUS
<1> USE ActorAssumption
<1>1. Types
  BY DEF Init, Types, Idle, SpawnStates, SupStates
<1>2. ASSUME NEW r \in Ref PROVE RefInv(r)
  <2>1. MaxRestarts(r) \in Nat
    BY DEF Init, MaxRestarts
  <2>. QED BY <2>1 DEF Init, RefInv, CountInv, ServicesInv
<1>3. NameInv /\ StopInv /\ SendInv
  BY DEF Init, NameInv, StopInv, SendInv
<1>. QED BY <1>1, <1>2, <1>3 DEF IInv

\* What RefInv(r) depends on.
LEMMA Frame ==
  ASSUME NEW r \in Ref, RefInv(r), args' = args,
         spawn'[r] = spawn[r], svcs'[r] = svcs[r], svcPtr'[r] = svcPtr[r], sup'[r] = sup[r],
         restarts'[r] = restarts[r], stopCh'[r] = stopCh[r], refStop'[r] = refStop[r]
  PROVE  RefInv(r)'
  BY DEF RefInv, CountInv, ServicesInv, Strategy, MaxRestarts

\* A service that is not done panics, is told to stop, or ends for a reason.
LEMMA ServiceChanges ==
  ASSUME IInv, NEW r \in Ref, NEW k \in 1..Len(svcs[r]), NEW s \in Services,
         svcs' = [svcs EXCEPT ![r] = [svcs[r] EXCEPT ![k] = s]],
         svcs[r][k].phase # "done",
         svcs[r][k].err => s.err,
         s.phase # "running" => s.err \/ stopCh[r] \/ spawn'[r] \in {"cleanupWait", "failed"},
         \/ UNCHANGED <<spawn, sup>>
         \/ /\ spawn' = [spawn EXCEPT ![r] = "cleanupWait"] /\ spawn[r] = "cleanup"
            /\ sup' = sup
         \/ /\ sup' = [sup EXCEPT ![r] = "stopping"] /\ sup[r] = "select"
            /\ spawn' = spawn,
         UNCHANGED <<args, svcPtr, restarts, refVars, actors, sysVars, sendVars>>
  PROVE  IInv'
<1>1. /\ svcs' \in [Ref -> Seq(Services)]
      /\ \A q \in Ref : q # r => svcs'[q] = svcs[q]
      /\ \A q \in Ref : Len(svcs'[q]) = Len(svcs[q])
      /\ \A j \in 1..Len(svcs[r]) : svcs'[r][j] = IF j = k THEN s ELSE svcs[r][j]
  <2>1. svcs[r] \in Seq(Services) /\ svcs \in [Ref -> Seq(Services)]
    BY DEF IInv, Types
  <2>2. svcs'[r] = [svcs[r] EXCEPT ![k] = s] /\ svcs' = [svcs EXCEPT ![r] = svcs'[r]]
    BY <2>1
  <2>3. svcs'[r] \in Seq(Services) /\ Len(svcs'[r]) = Len(svcs[r])
    BY <2>1, <2>2
  <2>. QED BY <2>1, <2>2, <2>3
<1>2. /\ \A q \in Ref : q # r => spawn'[q] = spawn[q] /\ sup'[q] = sup[q]
      /\ \/ spawn'[r] = spawn[r] /\ sup'[r] = sup[r]
         \/ spawn'[r] = "cleanupWait" /\ spawn[r] = "cleanup" /\ sup'[r] = sup[r]
         \/ sup'[r] = "stopping" /\ sup[r] = "select" /\ spawn'[r] = spawn[r]
  BY DEF IInv, Types
<1>3. Types'
  <2>1. spawn' \in [Ref -> SpawnStates] /\ sup' \in [Ref -> SupStates]
    BY DEF IInv, Types, SpawnStates, SupStates
  <2>. QED BY <1>1, <2>1 DEF IInv, Types, refVars, sysVars, sendVars
<1>4. ASSUME NEW q \in Ref PROVE RefInv(q)'
  <2>1. CASE q # r
    BY <2>1, <1>1, <1>2, Frame DEF IInv, refVars
  <2>2. CASE q = r
    <3>1. CountInv(r)'
      BY <1>1, <1>2 DEF IInv, RefInv, CountInv, Strategy, MaxRestarts, refVars
    <3>2. ServicesInv(r)'
      <4> SUFFICES ASSUME NEW j \in 1..Len(svcs[r])
          PROVE  /\ j < Len(svcs[r]) \/ sup'[r] = "start" => svcs'[r][j].phase = "done" /\ svcs'[r][j].err
                 /\ sup'[r] = "exited" \/ spawn'[r] = "failed" => svcs'[r][j].phase = "done"
                 /\ svcs'[r][j].phase # "running" =>
                        svcs'[r][j].err \/ stopCh'[r] \/ spawn'[r] \in {"cleanupWait", "failed"}
        BY <1>1 DEF ServicesInv
      <4>1. stopCh' = stopCh
        BY DEF refVars
      <4>2. CASE j = k
        <5>1. ~(k < Len(svcs[r]) \/ sup[r] = "start") /\ ~(sup[r] = "exited" \/ spawn[r] = "failed")
          BY DEF IInv, RefInv, ServicesInv
        <5>. QED BY <4>1, <4>2, <5>1, <1>1, <1>2
      <4>3. CASE j # k
        BY <4>1, <4>3, <1>1, <1>2 DEF IInv, RefInv, ServicesInv
      <4>. QED BY <4>2, <4>3
    <3>. QED BY <3>1, <3>2, <2>2 DEF RefInv
  <2>. QED BY <2>1, <2>2
<1>5. NameInv'
  BY <1>2 DEF IInv, NameInv, Name
<1>6. StopInv' /\ SendInv'
  BY <1>1, <1>2 DEF IInv, StopInv, SendInv, sysVars, sendVars, Types
<1>. QED BY <1>3, <1>4, <1>5, <1>6 DEF IInv

\* A step that belongs to one Ref.
LEMMA Local ==
  ASSUME IInv, NEW r \in Ref, args' = args, Types', RefInv(r)', NameInv', StopInv', SendInv',
         \A q \in Ref : q # r =>
            /\ spawn'[q] = spawn[q] /\ svcs'[q] = svcs[q] /\ svcPtr'[q] = svcPtr[q]
            /\ sup'[q] = sup[q] /\ restarts'[q] = restarts[q]
            /\ stopCh'[q] = stopCh[q] /\ refStop'[q] = refStop[q]
  PROVE  IInv'
<1>1. ASSUME NEW q \in Ref PROVE RefInv(q)'
  <2>1. CASE q = r
    BY <2>1
  <2>2. CASE q # r
    BY <2>2, Frame DEF IInv
  <2>. QED BY <2>1, <2>2
<1>. QED BY <1>1 DEF IInv

-----------------------------------------------------------------------------
(* The steps of a service.                                                 *)

LEMMA PanicIInv == ASSUME IInv, NEW r \in Ref, NEW k \in DOMAIN svcs[r], Panic(r, k) PROVE IInv'
<1>1. svcs[r] \in Seq(Services) /\ k \in 1..Len(svcs[r]) /\ svcs[r][k] \in Services
  BY DEF IInv, Types
<1> DEFINE s == [svcs[r][k] EXCEPT !.err = TRUE]
<1>2. s \in Services /\ s.phase = svcs[r][k].phase /\ s.err
  BY <1>1 DEF Services
<1>3. svcs' = [svcs EXCEPT ![r] = [svcs[r] EXCEPT ![k] = s]]
  BY DEF Panic
<1>4. UNCHANGED <<args, spawn, sup, svcPtr, restarts, refVars, actors, sysVars, sendVars>>
  BY DEF Panic, supVars
<1>5. svcs[r][k].phase # "done"
  BY DEF Panic, IsDone
<1> HIDE DEF s
<1>. QED BY <1>1, <1>2, <1>3, <1>4, <1>5, ServiceChanges

LEMMA EndIInv == ASSUME IInv, NEW r \in Ref, NEW k \in DOMAIN svcs[r], End(r, k) PROVE IInv'
<1>1. svcs[r] \in Seq(Services) /\ k \in 1..Len(svcs[r]) /\ svcs[r][k] \in Services
  BY DEF IInv, Types
<1> DEFINE s == [svcs[r][k] EXCEPT !.phase = "done"]
<1>2. s \in Services /\ s.phase = "done" /\ s.err = svcs[r][k].err
  BY <1>1 DEF Services, Phases
<1>3. svcs' = [svcs EXCEPT ![r] = [svcs[r] EXCEPT ![k] = s]]
  BY DEF End, SetPhase
<1>4. UNCHANGED <<args, spawn, sup, svcPtr, restarts, refVars, actors, sysVars, sendVars>>
  BY DEF End, supVars
<1>5. svcs[r][k].phase # "done" /\ (svcs[r][k].err \/ svcs[r][k].phase = "stopping")
  BY DEF End, IsDone
<1>6. s.err \/ stopCh[r] \/ spawn'[r] \in {"cleanupWait", "failed"}
  BY <1>1, <1>2, <1>4, <1>5 DEF IInv, RefInv, ServicesInv
<1> HIDE DEF s
<1>. QED BY <1>1, <1>2, <1>3, <1>4, <1>5, <1>6, ServiceChanges

\* svc.Stop() on a service that is running, or that is not.
LEMMA StopIInv ==
  ASSUME IInv, NEW r \in Ref, NEW k \in 1..Len(svcs[r]), StopService(r, k),
         stopCh[r] \/ spawn'[r] \in {"cleanupWait", "failed"},
         \/ /\ spawn' = [spawn EXCEPT ![r] = "cleanupWait"] /\ spawn[r] = "cleanup"
            /\ sup' = sup
         \/ /\ sup' = [sup EXCEPT ![r] = "stopping"] /\ sup[r] = "select"
            /\ spawn' = spawn,
         UNCHANGED <<args, svcPtr, restarts, refVars, actors, sysVars, sendVars>>
  PROVE  IInv'
<1>1. svcs[r] \in Seq(Services) /\ svcs[r][k] \in Services
  BY DEF IInv, Types
<1>2. CASE svcs[r][k].phase = "running"
  <2> DEFINE s == [svcs[r][k] EXCEPT !.phase = "stopping"]
  <2>1. s \in Services /\ s.phase = "stopping" /\ s.err = svcs[r][k].err
    BY <1>1 DEF Services, Phases
  <2>2. svcs' = [svcs EXCEPT ![r] = [svcs[r] EXCEPT ![k] = s]]
    BY <1>2 DEF StopService, SetPhase
  <2> HIDE DEF s
  <2>3. svcs[r][k].phase # "done" /\ (svcs[r][k].err => s.err)
    BY <1>2, <2>1
  <2>. QED BY <2>1, <2>2, <2>3, ServiceChanges
<1>3. CASE svcs[r][k].phase # "running"
  <2>1. svcs' = svcs
    BY <1>3 DEF StopService
  <2>2. /\ spawn' \in [Ref -> SpawnStates] /\ sup' \in [Ref -> SupStates]
        /\ \A q \in Ref : q # r => spawn'[q] = spawn[q] /\ sup'[q] = sup[q]
        /\ \/ spawn'[r] = "cleanupWait" /\ spawn[r] = "cleanup" /\ sup'[r] = sup[r]
           \/ sup'[r] = "stopping" /\ sup[r] = "select" /\ spawn'[r] = spawn[r]
    <3>1. spawn \in [Ref -> SpawnStates] /\ sup \in [Ref -> SupStates]
      BY DEF IInv, Types
    <3>2. "cleanupWait" \in SpawnStates /\ "stopping" \in SupStates
      BY DEF SpawnStates, SupStates
    <3>3. CASE /\ spawn' = [spawn EXCEPT ![r] = "cleanupWait"] /\ spawn[r] = "cleanup"
               /\ sup' = sup
      BY <3>1, <3>2, <3>3
    <3>4. CASE /\ sup' = [sup EXCEPT ![r] = "stopping"] /\ sup[r] = "select"
               /\ spawn' = spawn
      BY <3>1, <3>2, <3>4
    <3>. QED BY <3>3, <3>4
  <2>3. Types'
    BY <2>1, <2>2 DEF IInv, Types, refVars, sysVars, sendVars
  <2>4. CountInv(r)'
    BY <2>1, <2>2 DEF IInv, RefInv, CountInv, Strategy, MaxRestarts, refVars
  <2>5. ServicesInv(r)'
    BY <2>1, <2>2 DEF IInv, RefInv, ServicesInv, refVars
  <2>6. NameInv'
    BY <2>2 DEF IInv, NameInv, Name
  <2>7. StopInv' /\ SendInv'
    BY <2>1, <2>2 DEF IInv, StopInv, SendInv, sysVars, sendVars, Types
  <2>. QED BY <2>1, <2>2, <2>3, <2>4, <2>5, <2>6, <2>7, Local DEF RefInv, refVars
<1>. QED BY <1>2, <1>3

-----------------------------------------------------------------------------
(* The steps of Spawn.                                                     *)

LEMMA StartFirstIInv == ASSUME IInv, NEW r \in Ref, StartFirst(r) PROVE IInv'
<1> USE DEF StartFirst
<1>1. NewService \in Services
  BY DEF NewService, Services, Phases
<1>2. Types'
  <2>1. svcs' \in [Ref -> Seq(Services)]
    BY <1>1 DEF IInv, Types
  <2>2. spawn' \in [Ref -> SpawnStates] /\ svcPtr' \in [Ref -> Nat]
    BY DEF IInv, Types, SpawnStates
  <2>. QED BY <2>1, <2>2 DEF IInv, Types, supVars, refVars, sysVars, sendVars
<1>3. /\ spawn'[r] = "register" /\ svcPtr'[r] = 1 /\ Len(svcs'[r]) = 1
      /\ svcs'[r][1].phase = "running"
      /\ UNCHANGED <<args, sup, restarts, stopCh, refStop>>
  BY DEF IInv, Types, NewService, supVars, refVars
<1>4. CountInv(r)'
  BY <1>3 DEF IInv, RefInv, CountInv, Strategy, MaxRestarts
<1>5. ServicesInv(r)'
  <2>1. sup[r] = "none"
    BY DEF IInv, RefInv, CountInv
  <2>2. sup'[r] = "none" /\ Len(svcs'[r]) = 1 /\ \A k \in 1..1 : k = 1
    BY <1>3, <2>1
  <2>3. \A k \in 1..Len(svcs'[r]) : k = Len(svcs'[r]) /\ svcs'[r][k].phase = "running"
    BY <1>3, <2>2
  <2>. QED BY <1>3, <2>2, <2>3 DEF ServicesInv
<1>6. \A q \in Ref : q # r => spawn'[q] = spawn[q] /\ svcs'[q] = svcs[q] /\ svcPtr'[q] = svcPtr[q]
  BY DEF IInv, Types
<1>7. NameInv'
  BY <1>3, <1>6 DEF IInv, NameInv, Name
<1>8. StopInv' /\ SendInv'
  BY <1>3, <1>6 DEF IInv, StopInv, SendInv, sysVars, sendVars
<1>. QED BY <1>2, <1>3, <1>4, <1>5, <1>6, <1>7, <1>8, Local DEF RefInv

LEMMA RegisterIInv == ASSUME IInv, NEW r \in Ref, Register(r) PROVE IInv'
<1>1. /\ spawn[r] = "register"
      /\ UNCHANGED <<args, svcs, svcPtr, sup, restarts, stopCh, refStop, sysVars, sendVars>>
  BY DEF Register, supVars, refVars
<1>2. PICK sp \in {"registered", "cleanup"} : spawn' = [spawn EXCEPT ![r] = sp]
  BY DEF Register
<1>3. /\ spawn'[r] = sp /\ spawn' \in [Ref -> SpawnStates]
      /\ \A q \in Ref : q # r => spawn'[q] = spawn[q]
  BY <1>2 DEF IInv, Types, SpawnStates
<1>4. Name(r) \in Id
  BY DEF IInv, Types, Name
<1>5. Types'
  <2>1. actors' \in [Id -> Ref \cup {NoRef}]
    <3>1. CASE actors' = actors
      BY <3>1 DEF IInv, Types
    <3>2. CASE actors' = [actors EXCEPT ![Name(r)] = r]
      BY <1>4, <3>2 DEF IInv, Types
    <3>. QED BY <3>1, <3>2 DEF Register
  <2>. QED BY <1>1, <1>3, <2>1 DEF IInv, Types, sysVars, sendVars
<1>6. CountInv(r)'
  BY <1>1, <1>3 DEF IInv, RefInv, CountInv, Strategy, MaxRestarts
<1>7. ServicesInv(r)'
  BY <1>1, <1>3 DEF IInv, RefInv, ServicesInv
<1>8. NameInv'
  <2>1. CASE actors[Name(r)] = NoRef
    <3>1. actors' = [actors EXCEPT ![Name(r)] = r]
      BY <2>1 DEF Register
    <3>2. ASSUME NEW q \in Ref, q # r, spawn'[q] \in {"registered", "returned"}
          PROVE  actors'[Name(q)] = q
      <4>1. actors[Name(q)] = q
        BY <1>3, <3>2 DEF IInv, NameInv
      <4>2. Name(q) # Name(r)
        BY <2>1, <4>1, ActorAssumption
      <4>. QED BY <3>1, <4>1, <4>2, <1>4 DEF IInv, Types
    <3>3. actors'[Name(r)] = r
      BY <3>1, <1>4 DEF IInv, Types
    <3>. QED BY <1>1, <3>2, <3>3 DEF NameInv, Name
  <2>2. CASE actors[Name(r)] # NoRef
    <3>1. actors' = actors /\ spawn' = [spawn EXCEPT ![r] = "cleanup"]
      BY <2>2 DEF Register
    <3>2. spawn'[r] = "cleanup"
      BY <3>1 DEF IInv, Types
    <3>. QED BY <1>1, <1>3, <3>1, <3>2 DEF IInv, NameInv, Name
  <2>. QED BY <2>1, <2>2
<1>9. StopInv' /\ SendInv'
  BY <1>1, <1>3 DEF IInv, StopInv, SendInv, sysVars, sendVars
<1>. QED BY <1>1, <1>3, <1>5, <1>6, <1>7, <1>8, <1>9, Local DEF RefInv

LEMMA CleanUpIInv == ASSUME IInv, NEW r \in Ref, CleanUp(r) PROVE IInv'
<1>1. svcs[r] \in Seq(Services) /\ Len(svcs[r]) # 0
  BY DEF CleanUp, IInv, Types, RefInv, CountInv
<1>2. 1 \in 1..Len(svcs[r])
  BY <1>1
<1>3. /\ StopService(r, 1)
      /\ spawn' = [spawn EXCEPT ![r] = "cleanupWait"] /\ spawn[r] = "cleanup" /\ sup' = sup
      /\ UNCHANGED <<args, svcPtr, restarts, refVars, actors, sysVars, sendVars>>
  BY DEF CleanUp, supVars
<1>4. spawn'[r] \in {"cleanupWait", "failed"}
  BY <1>3 DEF IInv, Types
<1>. QED BY <1>2, <1>3, <1>4, StopIInv

LEMMA SpawnFailsIInv == ASSUME IInv, NEW r \in Ref, SpawnFails(r) PROVE IInv'
<1>1. /\ UNCHANGED <<args, svcs, svcPtr, sup, restarts, refVars, actors, sysVars, sendVars>>
      /\ spawn[r] = "cleanupWait" /\ svcs[r][1].phase = "done"
      /\ spawn' = [spawn EXCEPT ![r] = "failed"] /\ spawn'[r] = "failed"
  BY DEF SpawnFails, IsDone, supVars, IInv, Types
<1>2. RefInv(r)'
  <2>1. CountInv(r)'
    BY <1>1 DEF IInv, RefInv, CountInv, Strategy, MaxRestarts, refVars
  <2>2. sup[r] = "none" /\ Len(svcs[r]) <= 1 /\ svcs[r] \in Seq(Services)
    BY <1>1 DEF IInv, RefInv, CountInv, Types
  <2>3. ServicesInv(r)'
    BY <1>1, <2>2 DEF ServicesInv
  <2>. QED BY <2>1, <2>3 DEF RefInv
<1>3. spawn' \in [Ref -> SpawnStates] /\ \A q \in Ref : q # r => spawn'[q] = spawn[q]
  BY <1>1 DEF IInv, Types, SpawnStates
<1>4. Types'
  BY <1>1, <1>3 DEF IInv, Types, refVars, sysVars, sendVars
<1>5. NameInv' /\ StopInv' /\ SendInv'
  BY <1>1, <1>3 DEF IInv, NameInv, StopInv, SendInv, Name, sysVars, sendVars
<1>. QED BY <1>1, <1>2, <1>3, <1>4, <1>5, Local DEF refVars

LEMMA SpawnReturnsIInv == ASSUME IInv, NEW r \in Ref, SpawnReturns(r) PROVE IInv'
<1>1. /\ UNCHANGED <<args, svcs, svcPtr, restarts, refVars, actors, sysVars, sendVars>>
      /\ spawn[r] = "registered"
      /\ spawn' = [spawn EXCEPT ![r] = "returned"] /\ spawn'[r] = "returned"
      /\ sup' = [sup EXCEPT ![r] = "select"] /\ sup'[r] = "select"
  BY DEF SpawnReturns, IInv, Types
<1>2. /\ spawn' \in [Ref -> SpawnStates] /\ sup' \in [Ref -> SupStates]
      /\ \A q \in Ref : q # r => spawn'[q] = spawn[q] /\ sup'[q] = sup[q]
  BY <1>1 DEF IInv, Types, SpawnStates, SupStates
<1>3. sup[r] = "none" /\ Len(svcs[r]) = 1 /\ restarts[r] = 0 /\ svcs[r] \in Seq(Services)
  <2>1. svcs[r] \in Seq(Services) /\ Len(svcs[r]) \in Nat
    BY DEF IInv, Types
  <2>2. spawn[r] # "idle" /\ spawn[r] # "returned"
    BY <1>1
  <2>3. Len(svcs[r]) # 0 /\ sup[r] = "none"
    BY <2>2 DEF IInv, RefInv, CountInv
  <2>4. Len(svcs[r]) <= 1 /\ restarts[r] = 0
    BY <2>3 DEF IInv, RefInv, CountInv
  <2>5. Len(svcs[r]) = 1
    <3>1. \A n \in Nat : n # 0 /\ n <= 1 => n = 1
      OBVIOUS
    <3>. QED BY <2>1, <2>3, <2>4, <3>1
  <2>. QED BY <2>1, <2>3, <2>4, <2>5
<1>4. CountInv(r)'
  BY <1>1, <1>3 DEF IInv, RefInv, CountInv, Strategy, MaxRestarts, refVars
<1>5. ServicesInv(r)'
  BY <1>1, <1>3 DEF IInv, RefInv, ServicesInv, refVars
<1>6. Types'
  BY <1>1, <1>2 DEF IInv, Types, refVars, sysVars, sendVars
<1>7. NameInv'
  BY <1>1, <1>2 DEF IInv, NameInv, Name
<1>8. StopInv' /\ SendInv'
  BY <1>1, <1>2, <1>3 DEF IInv, StopInv, SendInv, sysVars, sendVars, Types
<1>. QED BY <1>1, <1>2, <1>4, <1>5, <1>6, <1>7, <1>8, Local DEF RefInv, refVars

-----------------------------------------------------------------------------
(* The steps of supervise.                                                 *)

LEMMA SeeStopIInv == ASSUME IInv, NEW r \in Ref, SeeStop(r) PROVE IInv'
<1>1. svcs[r] \in Seq(Services) /\ Len(svcs[r]) \in Nat
  BY DEF IInv, Types
<1>2. sup[r] = "select" /\ spawn[r] = "returned"
  BY DEF SeeStop, IInv, RefInv, CountInv
<1>3. Len(svcs[r]) # 0 /\ svcPtr[r] = Len(svcs[r])
  BY <1>2 DEF IInv, RefInv, CountInv
<1>4. svcPtr[r] \in 1..Len(svcs[r])
  BY <1>1, <1>3
<1>5. /\ StopService(r, svcPtr[r]) /\ stopCh[r]
      /\ sup' = [sup EXCEPT ![r] = "stopping"] /\ spawn' = spawn
      /\ UNCHANGED <<args, svcPtr, restarts, refVars, actors, sysVars, sendVars>>
  BY DEF SeeStop, SetSup
<1>. QED BY <1>2, <1>4, <1>5, StopIInv

\* The steps of supervise that change neither the services nor the registry.
LEMMA Supervised ==
  ASSUME IInv, NEW r \in Ref, sup[r] \notin {"none", "exited"},
         NEW su \in SupStates \ {"none"}, sup' = [sup EXCEPT ![r] = su],
         NEW n \in Nat, restarts' = [restarts EXCEPT ![r] = n],
         NEW ptr \in Nat, svcPtr' = [svcPtr EXCEPT ![r] = ptr],
         UNCHANGED <<args, spawn, svcs, refVars, actors, sysVars, sendVars>>,
         RefInv(r)'
  PROVE  IInv'
<1>1. Types'
  BY DEF IInv, Types, refVars, sysVars, sendVars
<1>2. \A q \in Ref : q # r => sup'[q] = sup[q] /\ restarts'[q] = restarts[q] /\ svcPtr'[q] = svcPtr[q]
  BY DEF IInv, Types
<1>3. NameInv' /\ SendInv'
  BY DEF IInv, NameInv, SendInv, Name, sendVars
<1>4. StopInv'
  BY <1>2 DEF IInv, StopInv, sysVars, Types
<1>. QED BY <1>1, <1>2, <1>3, <1>4, Local DEF refVars

LEMMA StoppedIInv == ASSUME IInv, NEW r \in Ref, Stopped(r) PROVE IInv'
<1>1. /\ sup[r] = "stopping" /\ sup' = [sup EXCEPT ![r] = "exited"] /\ sup'[r] = "exited"
      /\ svcs[r][svcPtr[r]].phase = "done"
      /\ UNCHANGED <<args, spawn, svcs, svcPtr, restarts, refVars, actors, sysVars, sendVars>>
  BY DEF Stopped, SetSup, IsDone, IInv, Types
<1>2. svcPtr[r] = Len(svcs[r]) /\ svcs[r] \in Seq(Services)
  BY <1>1 DEF IInv, RefInv, CountInv, Types
<1>3. CountInv(r)'
  BY <1>1 DEF IInv, RefInv, CountInv, Strategy, MaxRestarts, refVars
<1>4. \A k \in 1..Len(svcs[r]) : k = Len(svcs[r]) \/ k < Len(svcs[r])
  BY <1>2
<1>5. ServicesInv(r)'
  BY <1>1, <1>2, <1>4 DEF IInv, RefInv, ServicesInv, refVars
<1>6. /\ restarts[r] \in Nat /\ restarts' = [restarts EXCEPT ![r] = restarts[r]]
      /\ svcPtr[r] \in Nat /\ svcPtr' = [svcPtr EXCEPT ![r] = svcPtr[r]]
  BY <1>1 DEF IInv, Types
<1>. QED BY <1>1, <1>3, <1>5, <1>6, Supervised DEF RefInv, SupStates

LEMMA SeeDoneIInv == ASSUME IInv, NEW r \in Ref, SeeDone(r) PROVE IInv'
<1>1. /\ sup[r] = "select" /\ svcs[r][svcPtr[r]].phase = "done"
      /\ UNCHANGED <<args, spawn, svcs, svcPtr, refVars, actors, sysVars, sendVars>>
  BY DEF SeeDone, IsDone
<1>2. /\ svcPtr[r] = Len(svcs[r]) /\ svcs[r] \in Seq(Services) /\ restarts[r] \in Nat
      /\ svcPtr[r] \in Nat /\ svcPtr' = [svcPtr EXCEPT ![r] = svcPtr[r]]
      /\ Len(svcs[r]) = restarts[r] + 1
  BY <1>1 DEF IInv, RefInv, CountInv, Types
<1>3. \A k \in 1..Len(svcs[r]) : k = Len(svcs[r]) \/ k < Len(svcs[r])
  BY <1>2
<1>4. CASE svcs[r][svcPtr[r]].err /\ ShouldRestart(r)
  <2>1. /\ sup' = [sup EXCEPT ![r] = "start"] /\ sup'[r] = "start"
        /\ restarts' = [restarts EXCEPT ![r] = restarts[r] + 1] /\ restarts'[r] = restarts[r] + 1
    BY <1>4 DEF SeeDone, SetSup, IInv, Types
  <2>2. CountInv(r)'
    <3>1. Strategy(r) # "NoRestart" /\ (Strategy(r) = "RestartN" => restarts[r] < MaxRestarts(r))
      BY <1>4 DEF ShouldRestart
    <3>2. MaxRestarts(r) \in Nat
      BY ActorAssumption DEF MaxRestarts, IInv, Types
    <3>3. Strategy(r)' = Strategy(r) /\ MaxRestarts(r)' = MaxRestarts(r)
      BY <1>1 DEF Strategy, MaxRestarts
    <3>. QED BY <1>1, <1>2, <2>1, <3>1, <3>2, <3>3 DEF IInv, RefInv, CountInv, refVars
  <2>3. ServicesInv(r)'
    BY <1>1, <1>2, <1>3, <1>4, <2>1 DEF IInv, RefInv, ServicesInv, refVars
  <2>4. restarts[r] + 1 \in Nat
    BY <1>2
  <2>. QED BY <1>1, <1>2, <2>1, <2>2, <2>3, <2>4, Supervised DEF RefInv, SupStates
<1>5. CASE ~(svcs[r][svcPtr[r]].err /\ ShouldRestart(r))
  <2>1. /\ sup' = [sup EXCEPT ![r] = "exited"] /\ sup'[r] = "exited"
        /\ restarts' = [restarts EXCEPT ![r] = restarts[r]] /\ restarts' = restarts
    BY <1>5 DEF SeeDone, SetSup, IInv, Types
  <2>2. CountInv(r)'
    BY <1>1, <2>1 DEF IInv, RefInv, CountInv, Strategy, MaxRestarts, refVars
  <2>3. ServicesInv(r)'
    BY <1>1, <1>2, <1>3, <2>1 DEF IInv, RefInv, ServicesInv, refVars
  <2>. QED BY <1>1, <1>2, <2>1, <2>2, <2>3, Supervised DEF RefInv, SupStates
<1>. QED BY <1>4, <1>5

LEMMA StoreServiceIInv == ASSUME IInv, NEW r \in Ref, StoreService(r) PROVE IInv'
<1>1. /\ sup[r] = "store" /\ sup' = [sup EXCEPT ![r] = "select"] /\ sup'[r] = "select"
      /\ svcPtr' = [svcPtr EXCEPT ![r] = Len(svcs[r])] /\ svcPtr'[r] = Len(svcs[r])
      /\ UNCHANGED <<args, spawn, svcs, restarts, refVars, actors, sysVars, sendVars>>
  BY DEF StoreService, SetSup, IInv, Types
<1>2. CountInv(r)'
  BY <1>1 DEF IInv, RefInv, CountInv, Strategy, MaxRestarts, refVars
<1>3. ServicesInv(r)'
  BY <1>1 DEF IInv, RefInv, ServicesInv, refVars
<1>4. /\ Len(svcs[r]) \in Nat
      /\ restarts[r] \in Nat /\ restarts' = [restarts EXCEPT ![r] = restarts[r]]
  BY <1>1 DEF IInv, Types
<1>. QED BY <1>1, <1>2, <1>3, <1>4, Supervised DEF RefInv, SupStates

LEMMA RestartIInv == ASSUME IInv, NEW r \in Ref, Restart(r) PROVE IInv'
<1>1. /\ sup[r] = "start" /\ sup' = [sup EXCEPT ![r] = "store"] /\ sup'[r] = "store"
      /\ UNCHANGED <<args, spawn, svcPtr, restarts, refVars, actors, sysVars, sendVars>>
  BY DEF Restart, SetSup, IInv, Types
<1>2. NewService \in Services /\ NewService.phase = "running"
  BY DEF NewService, Services, Phases
<1>3. svcs[r] \in Seq(Services) /\ Len(svcs[r]) \in Nat
  BY DEF IInv, Types
<1>4. svcs' = [svcs EXCEPT ![r] = Append(svcs[r], NewService)] /\ svcs'[r] = Append(svcs[r], NewService)
  BY DEF Restart, IInv, Types
<1>5. /\ Append(svcs[r], NewService) \in Seq(Services)
      /\ Len(svcs'[r]) = Len(svcs[r]) + 1
      /\ svcs'[r][Len(svcs[r]) + 1] = NewService
      /\ \A k \in 1..Len(svcs[r]) : svcs'[r][k] = svcs[r][k]
  BY <1>2, <1>3, <1>4
<1>6. Types'
  <2>1. svcs' \in [Ref -> Seq(Services)]
    BY <1>4, <1>5 DEF IInv, Types
  <2>2. sup' \in [Ref -> SupStates]
    BY <1>1 DEF IInv, Types, SupStates
  <2>. QED BY <1>1, <2>1, <2>2 DEF IInv, Types, refVars, sysVars, sendVars
<1>7. CountInv(r)'
  <2>1. svcPtr[r] = Len(svcs[r]) /\ Len(svcs[r]) = restarts[r] /\ restarts[r] \in Nat
    BY <1>1 DEF IInv, RefInv, CountInv, Types
  <2>. QED BY <1>1, <1>5, <2>1, <1>3 DEF IInv, RefInv, CountInv, Strategy, MaxRestarts, refVars
<1>8. ServicesInv(r)'
  <2>1. spawn[r] = "returned"
    BY <1>1 DEF IInv, RefInv, CountInv
  <2> SUFFICES ASSUME NEW k \in 1..Len(svcs[r]) + 1
      PROVE  /\ k < Len(svcs[r]) + 1 => svcs'[r][k].phase = "done" /\ svcs'[r][k].err
             /\ svcs'[r][k].phase # "running" => svcs'[r][k].err
    BY <1>1, <1>5, <2>1 DEF ServicesInv
  <2>2. CASE k \in 1..Len(svcs[r])
    <3>1. svcs[r][k].phase = "done" /\ svcs[r][k].err
      BY <1>1, <2>2 DEF IInv, RefInv, ServicesInv
    <3>. QED BY <3>1, <2>2, <1>5
  <2>3. CASE k = Len(svcs[r]) + 1
    BY <1>2, <1>3, <1>5, <2>3
  <2>. QED BY <1>3, <2>2, <2>3
<1>9. \A q \in Ref : q # r => sup'[q] = sup[q] /\ svcs'[q] = svcs[q]
  BY <1>1, <1>4 DEF IInv, Types
<1>10. NameInv'
  BY <1>1 DEF IInv, NameInv, Name
<1>11. StopInv'
  BY <1>1, <1>9 DEF IInv, StopInv, sysVars, Types
<1>12. SendInv'
  <2>1. \A q \in Ref : Len(svcs[q]) \in Nat /\ Len(svcs'[q]) \in Nat /\ Len(svcs[q]) <= Len(svcs'[q])
    <3> SUFFICES ASSUME NEW q \in Ref
        PROVE  Len(svcs[q]) \in Nat /\ Len(svcs'[q]) \in Nat /\ Len(svcs[q]) <= Len(svcs'[q])
      OBVIOUS
    <3>1. Len(svcs[q]) \in Nat
      BY DEF IInv, Types
    <3>2. CASE q = r
      BY <3>1, <3>2, <1>5
    <3>3. CASE q # r
      BY <3>1, <3>3, <1>9
    <3>. QED BY <3>2, <3>3
  <2>. QED BY <1>1, <2>1 DEF IInv, SendInv, sendVars
<1>. QED BY <1>1, <1>6, <1>7, <1>8, <1>9, <1>10, <1>11, <1>12, Local DEF RefInv, refVars

-----------------------------------------------------------------------------
(* The steps of Stop.                                                      *)

\* stopCh is closed, or a caller of the Ref's Stop moves on.
LEMMA RefStopChanges ==
  ASSUME IInv, NEW r \in Ref,
         NEW st \in BOOLEAN, stopCh' = [stopCh EXCEPT ![r] = st], stopCh[r] => st,
         NEW rs \in {"idle", "wait", "returned"}, refStop' = [refStop EXCEPT ![r] = rs],
         rs = "returned" => sup[r] = "exited",
         UNCHANGED <<args, spawn, svcs, svcPtr, supVars, actors, sysVars, sendVars>>
  PROVE  IInv'
<1>1. Types'
  BY DEF IInv, Types, supVars, sysVars, sendVars
<1>2. /\ stopCh'[r] = st /\ refStop'[r] = rs
      /\ \A q \in Ref : q # r => stopCh'[q] = stopCh[q] /\ refStop'[q] = refStop[q]
  BY DEF IInv, Types
<1>3. CountInv(r)'
  BY <1>2 DEF IInv, RefInv, CountInv, Strategy, MaxRestarts, supVars
<1>4. ServicesInv(r)'
  BY <1>2 DEF IInv, RefInv, ServicesInv, supVars
<1>5. NameInv' /\ StopInv' /\ SendInv'
  BY DEF IInv, NameInv, StopInv, SendInv, Name, supVars, sysVars, sendVars
<1>. QED BY <1>1, <1>2, <1>3, <1>4, <1>5, Local DEF RefInv, supVars

LEMMA RefStopIInv ==
  ASSUME IInv, NEW r \in Ref, CallRefStop(r) \/ RefStopReturn(r) \/ StopHandle(r)
  PROVE  IInv'
<1>1. CASE CallRefStop(r)
  BY <1>1, RefStopChanges DEF CallRefStop
<1>2. CASE RefStopReturn(r)
  <2>1. stopCh[r] \in BOOLEAN /\ stopCh' = [stopCh EXCEPT ![r] = stopCh[r]]
    BY <1>2 DEF RefStopReturn, IInv, Types
  <2>. QED BY <1>2, <2>1, RefStopChanges DEF RefStopReturn
<1>3. CASE StopHandle(r)
  <2>1. refStop[r] \in {"idle", "wait", "returned"} /\ refStop' = [refStop EXCEPT ![r] = refStop[r]]
    BY <1>3 DEF StopHandle, IInv, Types
  <2>2. refStop[r] = "returned" => sup[r] = "exited"
    BY DEF IInv, RefInv, CountInv
  <2>. QED BY <1>3, <2>1, <2>2, RefStopChanges DEF StopHandle
<1>. QED BY <1>1, <1>2, <1>3

LEMMA SystemStopIInv ==
  ASSUME IInv, \/ \E c \in Closers : CallSystemStop(c) \/ SystemStopReturn(c)
               \/ SystemStopped
  PROVE  IInv'
<1>1. UNCHANGED <<args, spawn, svcs, svcPtr, supVars, refVars, actors, sendVars>>
  BY DEF CallSystemStop, SystemStopReturn, SystemStopped
<1>2. \A r \in Ref : RefInv(r)'
  BY <1>1, Frame DEF IInv, supVars, refVars
<1>3. NameInv' /\ SendInv'
  BY <1>1 DEF IInv, NameInv, SendInv, Name, sendVars
<1>4. /\ handles' \subseteq Ref /\ sysStop' \in {"open", "stopping", "done"}
      /\ closer' \in [Closers -> {"idle", "wait", "returned"}]
      /\ StopInv'
  <2>1. ASSUME NEW c \in Closers, CallSystemStop(c) PROVE <1>4!:
    <3>1. closer' \in [Closers -> {"idle", "wait", "returned"}]
      BY <2>1 DEF CallSystemStop, IInv, Types
    <3>2. CASE sysStop = "open"
      <4>1. sysStop' = "stopping" /\ handles' = {actors[i] : i \in Id} \ {NoRef}
        BY <2>1, <3>2 DEF CallSystemStop
      <4>2. \A i \in Id : actors[i] \in Ref \cup {NoRef}
        BY DEF IInv, Types
      <4>. QED BY <3>1, <4>1, <4>2 DEF StopInv
    <3>3. CASE sysStop # "open"
      BY <1>1, <2>1, <3>1, <3>3 DEF CallSystemStop, IInv, Types, StopInv, supVars
    <3>. QED BY <3>2, <3>3
  <2>2. ASSUME NEW c \in Closers, SystemStopReturn(c) PROVE <1>4!:
    BY <1>1, <2>2 DEF SystemStopReturn, IInv, Types, StopInv, supVars
  <2>3. ASSUME SystemStopped PROVE <1>4!:
    BY <1>1, <2>3 DEF SystemStopped, IInv, Types, StopInv, supVars
  <2>. QED BY <2>1, <2>2, <2>3
<1>5. Types'
  BY <1>1, <1>4 DEF IInv, Types, supVars, refVars, sendVars
<1>. QED BY <1>2, <1>3, <1>4, <1>5 DEF IInv

-----------------------------------------------------------------------------
(* The steps of Send.                                                      *)

LEMMA SendIInv == ASSUME IInv, SendNext PROVE IInv'
<1>1. UNCHANGED <<args, spawn, svcs, svcPtr, supVars, refVars, actors, sysVars>>
  BY DEF SendNext, LoadService, CheckStatus, SendAccepted, SendRefused, SendReturns
<1>2. \A r \in Ref : RefInv(r)'
  BY <1>1, Frame DEF IInv, supVars, refVars
<1>3. NameInv' /\ StopInv'
  BY <1>1 DEF IInv, NameInv, StopInv, Name, supVars, sysVars
<1>4. PICK c \in Senders :
        \/ \E r \in Ref : LoadService(c, r)
        \/ CheckStatus(c) \/ SendAccepted(c) \/ SendRefused(c)
  BY DEF SendNext
<1> DEFINE Sending(x) ==
      x # Idle => /\ x.to \in Ref /\ spawn[x.to] = "returned"
                  /\ x.k \in 1..Len(svcs[x.to]) /\ x.at \in {"loaded", "checked"}
    Records == [to : Ref \cup {NoRef}, k : Nat, at : {"idle", "loaded", "checked"}]
<1>5. PICK x \in Records : send' = [send EXCEPT ![c] = x] /\ Sending(x)
  <2>1. CASE \E r \in Ref : LoadService(c, r)
    <3>1. PICK r \in Ref : LoadService(c, r)
      BY <2>1
    <3> DEFINE x == [to |-> r, k |-> svcPtr[r], at |-> "loaded"]
    <3>2. /\ svcPtr[r] \in Nat /\ Len(svcs[r]) \in Nat /\ restarts[r] \in Nat
          /\ spawn[r] = "returned" /\ sup[r] # "none" /\ Len(svcs[r]) # 0
      BY <3>1 DEF LoadService, IInv, Types, RefInv, CountInv
    <3>3. svcPtr[r] \in 1..Len(svcs[r])
      <4>1. svcPtr[r] = IF sup[r] = "store" THEN Len(svcs[r]) - 1 ELSE Len(svcs[r])
        BY DEF IInv, RefInv, CountInv
      <4>2. CASE sup[r] = "store"
        BY <3>2, <4>1, <4>2 DEF IInv, RefInv, CountInv
      <4>3. CASE sup[r] # "store"
        BY <3>2, <4>1, <4>3
      <4>. QED BY <4>2, <4>3
    <3>4. x \in Records /\ Sending(x)
      <4>1. x.to = r /\ x.k = svcPtr[r] /\ x.at = "loaded"
        OBVIOUS
      <4>2. x \in Records
        BY <3>2
      <4> HIDE DEF x
      <4>. QED BY <3>2, <3>3, <4>1, <4>2
    <3>5. send' = [send EXCEPT ![c] = x]
      BY <3>1 DEF LoadService
    <3>. QED BY <3>4, <3>5
  <2>2. CASE CheckStatus(c)
    <3> DEFINE x == [send[c] EXCEPT !.at = "checked"]
    <3>1. send' = [send EXCEPT ![c] = x] /\ send[c].at = "loaded"
      BY <2>2 DEF CheckStatus
    <3>2. send[c] \in Records /\ send[c] # Idle
      BY <3>1 DEF IInv, Types, Idle
    <3>3. x \in Records /\ x.to = send[c].to /\ x.k = send[c].k /\ x.at = "checked"
      BY <3>2
    <3>. QED BY <3>1, <3>2, <3>3 DEF IInv, SendInv
  <2>3. CASE SendAccepted(c) \/ SendRefused(c)
    <3>1. Idle \in Records
      BY DEF Idle
    <3>. QED BY <2>3, <3>1 DEF SendAccepted, SendRefused, SendReturns
  <2>. QED BY <1>4, <2>1, <2>2, <2>3
<1>6. send' \in [Senders -> Records]
  BY <1>5 DEF IInv, Types
<1>7. answer' \in [Senders -> {"none", "nil", "ErrActorStopped"}]
  BY <1>4 DEF LoadService, CheckStatus, SendAccepted, SendRefused, SendReturns, IInv, Types
<1>8. sends' \in [Senders -> 0..MaxSends]
  <2>1. CASE sends' = sends
    BY <2>1 DEF IInv, Types
  <2>2. CASE sends[c] < MaxSends /\ sends' = [sends EXCEPT ![c] = sends[c] + 1]
    <3>1. sends[c] \in 0..MaxSends /\ MaxSends \in Nat
      BY ActorAssumption DEF IInv, Types
    <3>2. sends[c] + 1 \in 0..MaxSends
      BY <2>2, <3>1
    <3>. QED BY <2>2, <3>2 DEF IInv, Types
  <2>. QED BY <1>4, <2>1, <2>2
           DEF LoadService, CheckStatus, SendAccepted, SendRefused, SendReturns
<1>9. Types'
  BY <1>1, <1>6, <1>7, <1>8 DEF IInv, Types, supVars, refVars, sysVars
<1>10. SendInv'
  BY <1>1, <1>5 DEF IInv, SendInv, Types
<1>. QED BY <1>2, <1>3, <1>9, <1>10 DEF IInv

-----------------------------------------------------------------------------

LEMMA StepIInv == IInv /\ [Next]_actorVars => IInv'
<1> SUFFICES ASSUME IInv, [Next]_actorVars PROVE IInv'
  OBVIOUS
<1>1. CASE ServiceNext
  BY <1>1, PanicIInv, EndIInv DEF ServiceNext
<1>2. ASSUME NEW r \in Ref, SpawnNext(r) PROVE IInv'
  BY <1>2, StartFirstIInv, RegisterIInv, CleanUpIInv, SpawnFailsIInv, SpawnReturnsIInv DEF SpawnNext
<1>3. ASSUME NEW r \in Ref, SuperviseNext(r) PROVE IInv'
  BY <1>3, SeeStopIInv, StoppedIInv, SeeDoneIInv, RestartIInv, StoreServiceIInv DEF SuperviseNext
<1>4. CASE StopNext
  BY <1>4, RefStopIInv, SystemStopIInv DEF StopNext
<1>5. CASE SendNext
  BY <1>5, SendIInv
<1>6. CASE UNCHANGED actorVars
  <2>1. UNCHANGED <<args, spawn, svcs, svcPtr, sup, restarts, stopCh, refStop, actors,
                    handles, sysStop, closer, send, answer, sends>>
    BY <1>6 DEF actorVars, supVars, refVars, sysVars, sendVars
  <2>2. Types'
    BY <2>1 DEF IInv, Types
  <2>3. \A r \in Ref : RefInv(r)'
    BY <2>1, Frame DEF IInv
  <2>4. NameInv' /\ StopInv' /\ SendInv'
    BY <2>1 DEF IInv, NameInv, StopInv, SendInv, Name
  <2>. QED BY <2>2, <2>3, <2>4 DEF IInv
<1>. QED BY <1>1, <1>2, <1>3, <1>4, <1>5, <1>6 DEF Next

\* What IInv says of the number of services of a Ref.
LEMMA Counted ==
  ASSUME IInv, NEW r \in Ref
  PROVE  /\ svcs[r] \in Seq(Services) /\ Len(svcs[r]) \in Nat
         /\ restarts[r] \in Nat /\ MaxRestarts(r) \in Nat
         /\ Len(svcs[r]) <= restarts[r] + 1
         /\ svcPtr[r] \in 0..Len(svcs[r])
<1>1. /\ svcs[r] \in Seq(Services) /\ Len(svcs[r]) \in Nat
      /\ restarts[r] \in Nat /\ MaxRestarts(r) \in Nat /\ svcPtr[r] \in Nat
  BY ActorAssumption DEF IInv, Types, MaxRestarts
<1>2. Len(svcs[r]) <= restarts[r] + 1
  BY <1>1 DEF IInv, RefInv, CountInv
<1>3. svcPtr[r] = Len(svcs[r]) - 1 \/ svcPtr[r] = Len(svcs[r])
  BY DEF IInv, RefInv, CountInv
<1>. QED BY <1>1, <1>2, <1>3

\* Every goroutine of an actor, of its supervisor and of its clients stays
\* within the values the model gives it.
THEOREM TypeCorrect == Spec => []TypeOK
<1>1. IInv => TypeOK
  <2> SUFFICES ASSUME IInv PROVE TypeOK
    OBVIOUS
  <2>1. \A r \in Ref : svcPtr[r] \in 0..Len(svcs[r])
    BY Counted
  <2>2. ASSUME NEW c \in Senders, send[c] # Idle
        PROVE  send[c].k \in DOMAIN svcs[send[c].to] /\ send[c].at \in {"loaded", "checked"}
    BY <2>2, Counted DEF IInv, SendInv
  <2>. QED BY <2>1, <2>2 DEF IInv, Types, TypeOK, Services, Phases, SpawnStates, SupStates
<1>. QED BY <1>1, InitIInv, StepIInv, PTL DEF Spec

\* When the supervisor has exited, a Spawn has failed, or Stop of the System has
\* returned, no service of the actors concerned runs.
THEOREM StopLeavesNothing == Spec => []NothingLeftBehind
<1>1. IInv => NothingLeftBehind
  <2> SUFFICES ASSUME IInv PROVE NothingLeftBehind
    OBVIOUS
  <2>1. ASSUME NEW r \in Ref, sup[r] = "exited" \/ spawn[r] = "failed" \/ refStop[r] = "returned"
        PROVE  Halted(r)
    <3>1. sup[r] = "exited" \/ spawn[r] = "failed"
      BY <2>1 DEF IInv, RefInv, CountInv
    <3>. QED BY <3>1, Counted DEF IInv, RefInv, ServicesInv, Halted, IsDone
  <2>2. ASSUME sysStop = "done", NEW r \in handles PROVE sup[r] = "exited" /\ Halted(r)
    BY <2>1, <2>2 DEF IInv, StopInv, Types
  <2>. QED BY <2>1, <2>2 DEF NothingLeftBehind
<1>. QED BY <1>1, InitIInv, StepIInv, PTL DEF Spec

\* Whatever the restarts, a Ref has at most one service that is not done.
THEOREM OneAtATime == Spec => []OneServiceAtATime
<1>1. IInv => OneServiceAtATime
  <2> SUFFICES ASSUME IInv, NEW r \in Ref, NEW k \in DOMAIN svcs[r], ~IsDone(r, k)
      PROVE  k = Len(svcs[r]) /\ (k = svcPtr[r] \/ sup[r] = "store")
    BY DEF OneServiceAtATime
  <2>1. k \in 1..Len(svcs[r]) /\ Len(svcs[r]) \in Nat
    BY Counted
  <2>2. ~(k < Len(svcs[r]))
    BY <2>1 DEF IInv, RefInv, ServicesInv, IsDone
  <2>3. k = Len(svcs[r])
    BY <2>1, <2>2
  <2>. QED BY <2>3 DEF IInv, RefInv, CountInv
<1>. QED BY <1>1, InitIInv, StepIInv, PTL DEF Spec

\* An actor is restarted only after a panic, and within its limit.
THEOREM LimitHolds == Spec => []RestartsWithinLimit
<1>1. IInv => RestartsWithinLimit
  <2> SUFFICES ASSUME IInv, NEW r \in Ref
      PROVE  /\ \A k \in DOMAIN svcs[r] : k < Len(svcs[r]) => svcs[r][k].err
             /\ Strategy(r) = "NoRestart" => Len(svcs[r]) <= 1
             /\ Strategy(r) = "RestartN" => Len(svcs[r]) <= MaxRestarts(r) + 1
    BY DEF RestartsWithinLimit
  <2>1. \A k \in DOMAIN svcs[r] : k < Len(svcs[r]) => svcs[r][k].err
    BY Counted DEF IInv, RefInv, ServicesInv
  <2>2. /\ Strategy(r) = "NoRestart" => restarts[r] = 0
        /\ Strategy(r) = "RestartN" => restarts[r] <= MaxRestarts(r)
    BY DEF IInv, RefInv, CountInv
  <2>. QED BY <2>1, <2>2, Counted
<1>. QED BY <1>1, InitIInv, StepIInv, PTL DEF Spec

\* The registry gives the name of a supervised actor to that actor alone.
THEOREM NamesAreUnique == Spec => []OneActorPerName
<1>1. IInv => OneActorPerName
  BY DEF IInv, RefInv, CountInv, NameInv, OneActorPerName
<1>. QED BY <1>1, InitIInv, StepIInv, PTL DEF Spec

\* The body of RefusedForAReason.
Reasoned ==
    \A c \in Senders :
        send[c] # Idle /\ send'[c] = Idle /\ answer'[c] = "ErrActorStopped"
            => stopCh[send[c].to] \/ Target(c).err

\* A send to an actor that nobody stops, and whose service has not panicked, is
\* not refused.
THEOREM RefusalsHaveReasons == Spec => RefusedForAReason
<1>1. IInv /\ [Next]_actorVars => [Reasoned]_actorVars
  <2> SUFFICES ASSUME IInv, Next, NEW c \in Senders,
                      send[c] # Idle, send'[c] = Idle, answer'[c] = "ErrActorStopped"
      PROVE  stopCh[send[c].to] \/ Target(c).err
    BY DEF Reasoned
  <2>1. CASE SendNext
    <3>1. PICK d \in Senders :
            \/ \E r \in Ref : LoadService(d, r)
            \/ CheckStatus(d) \/ SendAccepted(d) \/ SendRefused(d)
      BY <2>1 DEF SendNext
    <3>2. d = c
      BY <3>1 DEF LoadService, CheckStatus, SendAccepted, SendRefused, SendReturns, IInv, Types
    <3>3. ~\E r \in Ref : LoadService(c, r)
      BY DEF LoadService
    <3>4. ~CheckStatus(c)
      <4>1. ASSUME CheckStatus(c) PROVE send'[c].at = "checked"
        <5>1. send' = [send EXCEPT ![c] = [send[c] EXCEPT !.at = "checked"]]
          BY <4>1 DEF CheckStatus
        <5>2. send[c] \in [to : Ref \cup {NoRef}, k : Nat, at : {"idle", "loaded", "checked"}]
          BY DEF IInv, Types
        <5>. QED BY <5>1, <5>2 DEF IInv, Types
      <4>. QED BY <4>1 DEF Idle
    <3>5. ~SendAccepted(c)
      BY DEF SendAccepted, SendReturns, IInv, Types
    <3>6. SendRefused(c)
      BY <3>1, <3>2, <3>3, <3>4, <3>5
    <3>7. /\ send[c].to \in Ref /\ spawn[send[c].to] = "returned"
          /\ send[c].k \in 1..Len(svcs[send[c].to])
      BY DEF IInv, SendInv
    <3>8. Target(c).phase # "running" => Target(c).err \/ stopCh[send[c].to]
      BY <3>7 DEF Target, IInv, RefInv, ServicesInv
    <3>. QED BY <3>6, <3>8 DEF SendRefused
  <2>2. CASE ~SendNext
    <3>1. UNCHANGED sendVars
      BY <2>2 DEF Next, ServiceNext, Panic, End, SpawnNext, StartFirst, Register, CleanUp,
                  SpawnFails, SpawnReturns, SuperviseNext, SeeStop, Stopped, SeeDone, Restart,
                  StoreService, StopNext, CallRefStop, RefStopReturn, StopHandle,
                  CallSystemStop, SystemStopReturn, SystemStopped
    <3>. QED BY <3>1 DEF sendVars
  <2>. QED BY <2>1, <2>2
<1>2. Spec => [][Reasoned]_actorVars
  BY <1>1, InitIInv, StepIInv, PTL DEF Spec
<1>. QED BY <1>2 DEF Reasoned, RefusedForAReason
=============================================================================
