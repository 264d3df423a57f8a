--------------------------- MODULE ServiceProofs ----------------------------
(***************************************************************************)
(* Proofs about Service for every number of clients and stoppers, every    *)
(* mailbox and every bound on the calls: its types, the order of its       *)
(* teardown, what a late caller is told, and that its mailbox implements   *)
(* EventQueue.                                                             *)
(***************************************************************************)
EXTENDS Service, SequenceTheorems, TLAPS

-----------------------------------------------------------------------------
(* Sequences.                                                              *)

\* Handing the head of a channel to its reader keeps what was ever written.
LEMMA TakeFromConcat ==
    ASSUME NEW S, NEW h \in Seq(S), NEW m \in Seq(S), m # <<>>
    PROVE  /\ Append(h, Head(m)) \o Tail(m) = h \o m
           /\ Head(m) = (h \o m)[Len(h) + 1]
           /\ Len(h) < Len(h \o m)
<1>1. /\ Head(m) \in S /\ Tail(m) \in Seq(S) /\ Len(Tail(m)) = Len(m) - 1
      /\ Head(m) = m[1] /\ Len(m) \in Nat \ {0} /\ Len(h) \in Nat
      /\ \A i \in 1..Len(Tail(m)) : Tail(m)[i] = m[i + 1]
  BY HeadTailProperties, EmptySeq, LenProperties
<1>2. /\ h \o m \in Seq(S) /\ Len(h \o m) = Len(h) + Len(m)
      /\ \A i \in 1..Len(h) + Len(m) : (h \o m)[i] = IF i <= Len(h) THEN h[i] ELSE m[i - Len(h)]
  BY ConcatProperties
<1>3. Len(h) < Len(h \o m) /\ Head(m) = (h \o m)[Len(h) + 1]
  BY <1>1, <1>2
<1>4. Append(h, Head(m)) = h \o <<Head(m)>>
  BY <1>1, AppendIsConcat
<1>5. m = <<Head(m)>> \o Tail(m)
  BY <1>1
<1>6. (h \o <<Head(m)>>) \o Tail(m) = h \o (<<Head(m)>> \o Tail(m))
  BY <1>1, ConcatAssociative
<1>. QED BY <1>3, <1>4, <1>5, <1>6

\* Writing to a channel appends to what was ever written.
LEMMA AppendToConcat ==
    ASSUME NEW S, NEW h \in Seq(S), NEW m \in Seq(S), NEW e \in S
    PROVE  h \o Append(m, e) = Append(h \o m, e)
<1>1. Append(m, e) = m \o <<e>> /\ h \o m \in Seq(S) /\ <<e>> \in Seq(S)
  BY AppendIsConcat, ConcatProperties
<1>2. Append(h \o m, e) = (h \o m) \o <<e>>
  BY <1>1, AppendIsConcat
<1>. QED BY <1>1, <1>2, ConcatAssociative

\* A sequence is not the result of appending to itself.
LEMMA AppendIsNew ==
    ASSUME NEW S, NEW s \in Seq(S), NEW e
    PROVE  Append(s, e) # s
  OBVIOUS

-----------------------------------------------------------------------------
(* The inductive invariant. Each part relates where the run goroutine      *)
(* stands to what the other goroutines can see.                            *)

TeardownLoops == {"cancelAll", "stopInvokes", "setStopped", "close", "exited"}

\* The order of the deferred function of run.
TeardownInv ==
    /\ done <=> loop = "exited"
    /\ loop \in TeardownLoops \ {"cancelAll"} => ~armed
    /\ loop \in {"setStopped", "close", "exited"} => \A i \in Invocations : inv[i] # "live"
    /\ loop \in {"close", "exited"} => status = "stopped"

\* Only the caller whose compare-and-swap succeeds is about to cancel, and
\* run ends because of a panic or because that caller has cancelled.
StopInv ==
    /\ loop = "enter" => ~spawned
    /\ ~spawned => ~ctxDone /\ \A p \in Stoppers : stop[p] = "idle"
    /\ \A p \in Stoppers : stop[p] = "returned" => done
    /\ ctxDone => status = "stopped" /\ \A p \in Stoppers : stop[p] # "cancel"
    /\ \A p \in Stoppers : stop[p] = "cancel" =>
        status = "stopped" /\ \A q \in Stoppers : stop[q] = "cancel" => q = p
    /\ loop \in TeardownLoops => ctxDone \/ panicErr

\* A call past its status test began before Done() was closed.
CallInv ==
    \A c \in Clients : call[c] # "idle" => ~late[c] /\ calls[c] >= 1

IInv == TypeOK /\ TeardownInv /\ StopInv /\ CallInv

\* The invariant holds when Start has made the service.
LEMMA InitIInv == Init => IInv
<1>. SUFFICES ASSUME Init PROVE IInv
  OBVIOUS
<1>1. <<>> \in Seq(Event) /\ Len(<<>>) = 0
  BY EmptySeq
<1>2. TypeOK
  <2>1. /\ mailboxSize \in Nat
        /\ mailbox \in Seq(Event) /\ Len(mailbox) <= mailboxSize
        /\ handled \in Seq(Event)
    BY <1>1, ServiceAssumption DEF Init
  <2>2. /\ inv \in [Invocations -> {"none", "live", "cancelled"}]
        /\ call \in [Clients -> {"idle", "send", "trysend"}]
        /\ calls \in [Clients -> 0..MaxSends]
        /\ late \in [Clients -> BOOLEAN]
        /\ stop \in [Stoppers -> {"idle", "cancel", "wait", "returned"}]
    BY ServiceAssumption DEF Init
  <2>3. fired \in 0..TimerBuffer /\ current \in Invocations \cup {NoInvocation}
    BY ServiceAssumption DEF Init
  <2>4. /\ status \in {"created", "running", "stopped"}
        /\ ctxDone \in BOOLEAN /\ done \in BOOLEAN /\ panicErr \in BOOLEAN
        /\ spawned \in BOOLEAN /\ armed \in BOOLEAN
        /\ loop = "enter"
    BY DEF Init
  <2>. QED BY <2>1, <2>2, <2>3, <2>4 DEF TypeOK
<1>3. TeardownInv /\ StopInv /\ CallInv
  BY DEF Init, TeardownInv, TeardownLoops, StopInv, CallInv
<1>. QED BY <1>2, <1>3 DEF IInv

\* What a pending call writes to the mailbox is an event.
LEMMA EventTyped ==
    ASSUME TypeOK, CallInv, NEW c \in Clients, call[c] # "idle"
    PROVE  [from |-> c, n |-> calls[c]] \in Event
BY ServiceAssumption DEF TypeOK, CallInv, Event

\* Every step of the service keeps the invariant.
LEMMA StepIInv == IInv /\ [Next]_svcVars => IInv'
<1>. SUFFICES ASSUME IInv, [Next]_svcVars PROVE IInv'
  OBVIOUS
<1>. USE ServiceAssumption DEF IInv, TypeOK, TeardownInv, TeardownLoops, StopInv, CallInv,
         svcVars, startVars, chanVars, clientVars, timerVars, endVars
<1>1. CASE EnterInitial
  BY <1>1 DEF EnterInitial
<1>2. CASE SpawnRun
  BY <1>2 DEF SpawnRun
<1>3. ASSUME NEW c \in Clients, NEW kind \in {"send", "trysend"}, BeginSend(c, kind) PROVE IInv'
  BY <1>3 DEF BeginSend
<1>4. ASSUME NEW c \in Clients, SendAccepted(c) PROVE IInv'
  <2>1. [from |-> c, n |-> calls[c]] \in Event
    BY <1>4, EventTyped DEF SendAccepted
  <2>2. /\ mailbox' \in Seq(Event)
        /\ Len(mailbox') = Len(mailbox) + 1 /\ Len(mailbox) \in Nat
    BY <1>4, <2>1, AppendProperties, LenProperties DEF SendAccepted
  <2>. QED BY <1>4, <2>2 DEF SendAccepted
<1>5. ASSUME NEW c \in Clients, SendHandedOver(c) PROVE IInv'
  <2>1. [from |-> c, n |-> calls[c]] \in Event
    BY <1>5, EventTyped DEF SendHandedOver
  <2>2. handled' \in Seq(Event)
    BY <1>5, <2>1, AppendProperties DEF SendHandedOver
  <2>. QED BY <1>5, <2>2 DEF SendHandedOver
<1>6. ASSUME NEW c \in Clients, SendRefused(c) PROVE IInv'
  BY <1>6 DEF SendRefused
<1>7. ASSUME NEW c \in Clients, TrySendFull(c) PROVE IInv'
  BY <1>7 DEF TrySendFull
<1>8. CASE TakeEnvelope
  BY <1>8 DEF TakeEnvelope
<1>9. CASE TakeTimer
  BY <1>9 DEF TakeTimer
<1>10. CASE SeeCancelled
  BY <1>10 DEF SeeCancelled
<1>11. CASE TimerFires
  <2>1. fired' \in 0..TimerBuffer
    BY <1>11 DEF TimerFires
  <2>. QED BY <1>11, <2>1 DEF TimerFires
<1>12. ASSUME NEW i \in Invocations, BeginInvoke(i) PROVE IInv'
  BY <1>12 DEF BeginInvoke
<1>13. ASSUME NEW i \in Invocations, CancelInvoke(i) PROVE IInv'
  BY <1>13 DEF CancelInvoke
<1>14. CASE EndInvoke
  BY <1>14 DEF EndInvoke
<1>15. CASE ChangeTimers
  BY <1>15 DEF ChangeTimers
<1>16. CASE EndStep
  BY <1>16 DEF EndStep
<1>17. CASE Panic
  BY <1>17 DEF Panic
<1>18. CASE CancelAll
  BY <1>18 DEF CancelAll
<1>19. CASE StopInvokes
  BY <1>19 DEF StopInvokes
<1>20. CASE SetStopped
  BY <1>20 DEF SetStopped
<1>21. CASE CloseDone
  BY <1>21 DEF CloseDone
<1>22. ASSUME NEW p \in Stoppers, BeginStop(p) PROVE IInv'
  BY <1>22 DEF BeginStop
<1>23. ASSUME NEW p \in Stoppers, CancelContext(p) PROVE IInv'
  BY <1>23 DEF CancelContext
<1>24. ASSUME NEW p \in Stoppers, StopReturn(p) PROVE IInv'
  BY <1>24 DEF StopReturn
<1>25. CASE UNCHANGED svcVars
  BY <1>25
<1>. QED
  BY <1>1, <1>2, <1>3, <1>4, <1>5, <1>6, <1>7, <1>8, <1>9, <1>10, <1>11, <1>12, <1>13,
     <1>14, <1>15, <1>16, <1>17, <1>18, <1>19, <1>20, <1>21, <1>22, <1>23, <1>24, <1>25
     DEF Next, SendNext, SelectNext, StepNext, TeardownNext, StopNext

\* Hence it holds in every state of every behaviour.
LEMMA Invariance == Spec => []IInv
BY InitIInv, StepIInv, PTL DEF Spec

-----------------------------------------------------------------------------
(* Theorems.                                                               *)

\* Every variable keeps its type, whatever the callers do.
THEOREM TypeCorrect == Spec => []TypeOK
<1>1. IInv => TypeOK
  BY DEF IInv
<1>. QED BY <1>1, Invariance, PTL

\* When any caller of Stop returns, the goroutine has exited and holds no
\* timer and no live invocation.
THEOREM StopReleases == Spec => []ReleasedWhenStopReturns
<1>1. IInv => ReleasedWhenStopReturns
  BY DEF IInv, TeardownInv, TeardownLoops, StopInv, ReleasedWhenStopReturns
<1>. QED BY <1>1, Invariance, PTL

\* A nil Err after Done() means that one caller of Stop cancelled the service.
THEOREM ErrIsTruthful == Spec => []ErrTellsWhy
<1>1. IInv => ErrTellsWhy
  BY DEF IInv, TeardownInv, TeardownLoops, StopInv, ErrTellsWhy
<1>. QED BY <1>1, Invariance, PTL

-----------------------------------------------------------------------------
(* What a step does to the mailbox and to the events taken from it.        *)

\* The three steps that write to the mailbox or read from it.
ChannelSteps ==
    \/ \E c \in Clients : SendAccepted(c) \/ SendHandedOver(c)
    \/ TakeEnvelope

\* No other step changes the mailbox or the events taken from it.
LEMMA QuietSteps ==
    ASSUME [Next]_svcVars, ~ChannelSteps
    PROVE  UNCHANGED <<mailbox, handled>>
BY DEF ChannelSteps, Next, SendNext, SelectNext, StepNext, TeardownNext, StopNext, EnterInitial,
       SpawnRun, BeginSend, SendRefused, TrySendFull, TakeTimer, SeeCancelled, TimerFires, BeginInvoke,
       CancelInvoke, EndInvoke, ChangeTimers, EndStep, Panic, CancelAll, StopInvokes, SetStopped,
       CloseDone, BeginStop, CancelContext, StopReturn, svcVars, chanVars

\* Done() is closed by CloseDone alone.
LEMMA OpenSteps ==
    ASSUME [Next]_svcVars, ~CloseDone
    PROVE  UNCHANGED done
BY DEF Next, SendNext, SelectNext, StepNext, TeardownNext, StopNext, EnterInitial,
       SpawnRun, BeginSend, SendAccepted, SendHandedOver, SendRefused, TrySendFull, TakeEnvelope,
       TakeTimer, SeeCancelled, TimerFires, BeginInvoke, CancelInvoke, EndInvoke, ChangeTimers,
       EndStep, Panic, CancelAll, StopInvokes, SetStopped, BeginStop, CancelContext, StopReturn,
       svcVars, endVars

\* A send appends one event to those accepted so far; if it also hands it over,
\* nothing was waiting and Done() is open.
LEMMA SendWrites ==
    ASSUME IInv, NEW c \in Clients, SendAccepted(c) \/ SendHandedOver(c)
    PROVE  /\ call[c] # "idle"
           /\ [from |-> c, n |-> calls[c]] \in Event
           /\ handled' \o mailbox' = Append(handled \o mailbox, [from |-> c, n |-> calls[c]])
           /\ UNCHANGED done
           /\ \/ UNCHANGED handled
              \/ ~done /\ mailbox = <<>> /\ handled' = Append(handled, [from |-> c, n |-> calls[c]])
<1>. DEFINE e == [from |-> c, n |-> calls[c]]
<1>1. call[c] # "idle" /\ e \in Event
  BY EventTyped DEF IInv, SendAccepted, SendHandedOver
<1>2. handled \in Seq(Event) /\ mailbox \in Seq(Event)
  BY DEF IInv, TypeOK
<1>3. CASE SendAccepted(c)
  BY <1>1, <1>2, <1>3, AppendToConcat DEF SendAccepted, endVars
<1>4. CASE SendHandedOver(c)
  <2>1. mailbox = <<>>
    BY <1>2, <1>4, EmptySeq DEF IInv, TypeOK, SendHandedOver
  <2>2. ~done
    BY <1>4 DEF IInv, TeardownInv, SendHandedOver
  <2>3. Append(handled, e) \in Seq(Event)
    BY <1>1, <1>2, AppendProperties
  <2>4. handled \o mailbox = handled /\ Append(handled, e) \o mailbox = Append(handled, e)
    BY <1>2, <2>1, <2>3, ConcatEmptySeq
  <2>. QED BY <1>1, <1>4, <2>1, <2>2, <2>4 DEF SendHandedOver, endVars
<1>. QED BY <1>3, <1>4

\* run takes the oldest event that is accepted and not handled, while Done() is
\* open.
LEMMA TakeReads ==
    ASSUME IInv, TakeEnvelope
    PROVE  /\ handled' \o mailbox' = handled \o mailbox
           /\ Len(handled) < Len(handled \o mailbox)
           /\ handled' = Append(handled, (handled \o mailbox)[Len(handled) + 1])
           /\ ~done /\ UNCHANGED done
<1>1. handled \in Seq(Event) /\ mailbox \in Seq(Event) /\ mailbox # <<>>
  BY DEF IInv, TypeOK, TakeEnvelope
<1>2. ~done /\ UNCHANGED done
  BY DEF IInv, TeardownInv, TakeEnvelope, endVars
<1>. QED BY <1>1, <1>2, TakeFromConcat DEF TakeEnvelope

\* A call that began after Done() was closed is never accepted.
THEOREM LateCallsRefused == Spec => RefusedAfterDone
<1>1. ASSUME IInv, [Next]_svcVars, NEW c \in Clients, late[c], Accepts(c)
      PROVE  FALSE
  <2>. DEFINE written == handled \o mailbox
  <2>1. written \in Seq(Event)
    BY <1>1, ConcatProperties DEF IInv, TypeOK
  <2>2. handled' \o mailbox' # written
    BY <1>1, <2>1, AppendIsNew DEF Accepts
  <2>3. ~TakeEnvelope
    BY <1>1, <2>2, TakeReads
  <2>4. PICK d \in Clients : SendAccepted(d) \/ SendHandedOver(d)
    BY <1>1, <2>2, <2>3, QuietSteps DEF ChannelSteps
  <2>5. /\ call[d] # "idle"
        /\ Append(written, [from |-> d, n |-> calls[d]]) = Append(written, [from |-> c, n |-> calls[c]])
    BY <1>1, <2>4, SendWrites DEF Accepts
  <2>6. [from |-> d, n |-> calls[d]] = [from |-> c, n |-> calls[c]]
    BY <2>1, <2>5
  <2>7. c = d
    BY <2>6
  <2>. QED BY <1>1, <2>5, <2>7 DEF IInv, CallInv
<1>2. IInv /\ [Next]_svcVars => [\A c \in Clients : late[c] => ~Accepts(c)]_svcVars
  BY <1>1
<1>. QED BY <1>2, Invariance, PTL DEF Spec, RefusedAfterDone

-----------------------------------------------------------------------------
(* Service implements EventQueue.                                          *)

\* Every step of the service is a step of the queue or leaves it as it is.
LEMMA StepQueue ==
    ASSUME IInv, [Next]_svcVars
    PROVE  [Queue!Next]_(Queue!queueVars)
<1>1. CASE \E c \in Clients : SendAccepted(c) \/ SendHandedOver(c)
  <2>1. PICK c \in Clients : SendAccepted(c) \/ SendHandedOver(c)
    BY <1>1
  <2>. DEFINE e == [from |-> c, n |-> calls[c]]
  <2>2. /\ e \in Event
        /\ handled' \o mailbox' = Append(handled \o mailbox, e)
        /\ UNCHANGED done
        /\ UNCHANGED handled \/ (~done /\ mailbox = <<>> /\ handled' = Append(handled, e))
    BY <2>1, SendWrites
  <2>3. CASE UNCHANGED handled
    <3>1. Queue!Accept(e)
      BY <2>2, <2>3 DEF Queue!Accept
    <3>. QED BY <2>2, <3>1 DEF Queue!Next
  <2>4. CASE ~done /\ mailbox = <<>> /\ handled' = Append(handled, e)
    <3>1. handled \o mailbox = handled
      BY <2>4, ConcatEmptySeq DEF IInv, TypeOK
    <3>2. Queue!HandOver(e)
      BY <2>2, <2>4, <3>1 DEF Queue!HandOver
    <3>. QED BY <2>2, <3>2 DEF Queue!Next
  <2>. QED BY <2>2, <2>3, <2>4
<1>2. CASE TakeEnvelope
  <2>1. Queue!Handle
    BY <1>2, TakeReads DEF Queue!Handle
  <2>. QED BY <2>1 DEF Queue!Next
<1>3. CASE ~ChannelSteps
  <2>1. UNCHANGED <<mailbox, handled>>
    BY <1>3, QuietSteps
  <2>2. CASE CloseDone
    <3>1. ~done /\ done'
      BY <2>2 DEF CloseDone, IInv, TeardownInv
    <3>2. Queue!Close
      BY <2>1, <3>1 DEF Queue!Close
    <3>. QED BY <3>2 DEF Queue!Next
  <2>3. CASE ~CloseDone
    <3>1. UNCHANGED done
      BY <2>3, OpenSteps
    <3>. QED BY <2>1, <3>1 DEF Queue!queueVars
  <2>. QED BY <2>2, <2>3
<1>. QED BY <1>1, <1>2, <1>3 DEF ChannelSteps

\* The mailbox, the callers that write to it and the goroutine that reads it
\* keep the promise of EventQueue: accepted events are handled in order, each
\* once, none skipped, and none after Done() is closed.
THEOREM ServiceImplementsQueue == Spec => ImplementsQueue
<1>1. Init => Queue!Init
  <2>. SUFFICES ASSUME Init PROVE Queue!Init
    OBVIOUS
  <2>1. <<>> \o <<>> = <<>>
    BY ConcatEmptySeq, EmptySeq
  <2>. QED BY <2>1 DEF Init, Queue!Init
<1>2. IInv /\ [Next]_svcVars => [Queue!Next]_(Queue!queueVars)
  BY StepQueue
<1>. QED BY <1>1, <1>2, Invariance, PTL DEF Spec, ImplementsQueue, Queue!Spec
=============================================================================
