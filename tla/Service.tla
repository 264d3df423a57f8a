------------------------------ MODULE Service -------------------------------
(***************************************************************************)
(* The life of one runtime.Service (src/runtime/service.go): Start, the    *)
(* run goroutine, its mailbox, the callers of Send, TrySend and Stop, the  *)
(* invocations that states start, panics, and the teardown.                *)
(*                                                                         *)
(* What an event does to the statechart is abstracted to what matters      *)
(* here: while the run goroutine is at "step" it may start invocations,    *)
(* cancel them, arm or cancel timers, or panic, and goes back to its       *)
(* select when the internal queue and the always transitions are drained.  *)
(***************************************************************************)
EXTENDS Naturals, Sequences, FiniteSets

CONSTANTS
    Senders,      \* goroutines that call Send and TrySend on the handle
    Stoppers,     \* goroutines that call Stop on the handle
    Invocations,  \* runs of an InvokeFn; each may also send
    SyncInvokes,  \* those that call send before the InvokeFn returns
    MailboxSizes, \* what WithMailboxSize may be given (256 by default)
    TimerBuffer,  \* schedulerBufSize (64)
    MaxSends,     \* bound: calls of Send and TrySend by one client
    NoInvocation  \* no InvokeFn is being executed

ASSUME ServiceAssumption ==
    /\ MailboxSizes \subseteq Nat
    /\ TimerBuffer \in Nat \ {0}
    /\ MaxSends \in Nat
    /\ SyncInvokes \subseteq Invocations
    /\ Senders \cap Invocations = {}
    /\ NoInvocation \notin Invocations

Clients == Senders \cup Invocations
Event   == [from : Clients, n : 1..MaxSends]

VARIABLES
    status,      \* s.status
    ctxDone,     \* the run context has been cancelled by cancelFn
    mailboxSize, \* s.mailboxSize, the capacity of the channel
    mailbox,     \* s.mailbox
    done,        \* s.done is closed
    panicErr,    \* s.panicErr holds a panic
    loop,        \* where the goroutine of Start, then of run, stands
    spawned,     \* run has its own goroutine, and Start has returned
    current,     \* the InvokeFn being executed on that goroutine
    inv,         \* the context of each invocation
    armed,       \* the scheduler has a pending timer
    fired,       \* events waiting in the scheduler's channel
    call,        \* where each client stands in Send or TrySend
    calls,       \* calls made by each client
    late,        \* history: the client's latest call began after Done() closed
    handled,     \* history: events taken from the mailbox
    stop         \* where each stopper stands in Stop

svcVars == <<status, ctxDone, mailboxSize, mailbox, done, panicErr, loop, spawned, current,
             inv, armed, fired, call, calls, late, handled, stop>>

startVars   == <<status, spawned>>
chanVars    == <<mailboxSize, mailbox, handled>>
clientVars  == <<call, calls, late>>
timerVars   == <<armed, fired>>
endVars     == <<ctxDone, done, panicErr, stop>>

-----------------------------------------------------------------------------
(* Start.                                                                  *)

Init ==
    /\ status = "created"
    /\ ctxDone = FALSE
    /\ mailboxSize \in MailboxSizes
    /\ mailbox = <<>>
    /\ done = FALSE
    /\ panicErr = FALSE
    /\ loop = "enter"
    /\ spawned = FALSE
    /\ current = NoInvocation
    /\ inv = [i \in Invocations |-> "none"]
    /\ armed = FALSE
    /\ fired = 0
    /\ call = [c \in Clients |-> "idle"]
    /\ calls = [c \in Clients |-> 0]
    /\ late = [c \in Clients |-> FALSE]
    /\ handled = <<>>
    /\ stop = [p \in Stoppers |-> "idle"]

\* The initial configuration is entered and its first snapshot stored; then
\* the status, so that the invocations started next can send.
EnterInitial ==
    /\ loop = "enter"
    /\ loop' = "invokes"
    /\ status' = "running"
    /\ UNCHANGED <<spawned, current, inv, chanVars, clientVars, timerVars, endVars>>

\* go svc.run(runCtx); return svc. Before its first select run drains what the
\* entry actions have raised and the always transitions.
SpawnRun ==
    /\ loop = "invokes"
    /\ loop' = "step"
    /\ spawned' = TRUE
    /\ UNCHANGED <<status, current, inv, chanVars, clientVars, timerVars, endVars>>

-----------------------------------------------------------------------------
(* Send and TrySend. A caller has the handle Start returns, or is an       *)
(* invocation: its send callback calls Send, on a goroutine of its own or  *)
(* before the InvokeFn returns.                                            *)

CanCall(c, kind) ==
    \/ c \in Senders /\ spawned
    \/ /\ c \in Invocations /\ kind = "send"
       /\ IF c \in SyncInvokes THEN current = c ELSE inv[c] # "none"

\* The status test at the top of Send and of TrySend.
BeginSend(c, kind) ==
    /\ CanCall(c, kind)
    /\ call[c] = "idle"
    /\ calls[c] < MaxSends
    /\ calls' = [calls EXCEPT ![c] = @ + 1]
    /\ late' = [late EXCEPT ![c] = done]
    /\ call' = [call EXCEPT ![c] = IF status = "running" THEN kind ELSE "idle"]
    /\ UNCHANGED <<startVars, loop, current, inv, chanVars, timerVars, endVars>>

\* case s.mailbox <- env, into the buffer.
SendAccepted(c) ==
    /\ call[c] \in {"send", "trysend"}
    /\ Len(mailbox) < mailboxSize
    /\ mailbox' = Append(mailbox, [from |-> c, n |-> calls[c]])
    /\ call' = [call EXCEPT ![c] = "idle"]
    /\ UNCHANGED <<startVars, loop, current, inv, calls, late, mailboxSize, handled, timerVars, endVars>>

\* case s.mailbox <- env, when the channel has no buffer and run is waiting.
SendHandedOver(c) ==
    /\ call[c] \in {"send", "trysend"}
    /\ mailboxSize = 0
    /\ loop = "select"
    /\ loop' = "step"
    /\ handled' = Append(handled, [from |-> c, n |-> calls[c]])
    /\ call' = [call EXCEPT ![c] = "idle"]
    /\ UNCHANGED <<startVars, current, inv, mailboxSize, mailbox, calls, late, timerVars, endVars>>

\* case <-s.done: ErrActorStopped.
SendRefused(c) ==
    /\ call[c] \in {"send", "trysend"}
    /\ done
    /\ call' = [call EXCEPT ![c] = "idle"]
    /\ UNCHANGED <<startVars, loop, current, inv, chanVars, calls, late, timerVars, endVars>>

\* Mutant: TrySend makes room by dropping the oldest event.
TrySendEvicts(c) ==
    /\ call[c] = "trysend"
    /\ Len(mailbox) = mailboxSize /\ mailbox # <<>>
    /\ ~done
    /\ mailbox' = Append(Tail(mailbox), [from |-> c, n |-> calls[c]])
    /\ call' = [call EXCEPT ![c] = "idle"]
    /\ UNCHANGED <<startVars, loop, current, inv, mailboxSize, handled, calls, late, timerVars, endVars>>

\* default of TrySend: ErrMailboxFull.
TrySendFull(c) ==
    /\ call[c] = "trysend"
    /\ Len(mailbox) = mailboxSize
    /\ ~done
    /\ call' = [call EXCEPT ![c] = "idle"]
    /\ UNCHANGED <<startVars, loop, current, inv, chanVars, calls, late, timerVars, endVars>>

-----------------------------------------------------------------------------
(* The run goroutine at its select.                                        *)

\* Mutant: timers are served before the mailbox.
TakeEnvelopeLast ==
    /\ loop = "select"
    /\ mailbox # <<>> /\ fired = 0
    /\ loop' = "step"
    /\ mailbox' = Tail(mailbox)
    /\ handled' = Append(handled, Head(mailbox))
    /\ UNCHANGED <<startVars, current, inv, mailboxSize, clientVars, timerVars, endVars>>

TakeEnvelope ==
    /\ loop = "select"
    /\ mailbox # <<>>
    /\ loop' = "step"
    /\ mailbox' = Tail(mailbox)
    /\ handled' = Append(handled, Head(mailbox))
    /\ UNCHANGED <<startVars, current, inv, mailboxSize, clientVars, timerVars, endVars>>

TakeTimer ==
    /\ loop = "select"
    /\ fired > 0
    /\ loop' = "step"
    /\ fired' = fired - 1
    /\ UNCHANGED <<startVars, current, inv, chanVars, clientVars, armed, endVars>>

SeeCancelled ==
    /\ loop = "select"
    /\ ctxDone
    /\ loop' = "cancelAll"
    /\ UNCHANGED <<startVars, current, inv, chanVars, clientVars, timerVars, endVars>>

\* Mutant: the callback queues without looking at the room left.
TimerFiresUnbounded ==
    /\ armed
    /\ armed' = FALSE
    /\ fired' = fired + 1
    /\ UNCHANGED <<startVars, loop, current, inv, chanVars, clientVars, endVars>>

\* A timer callback, on a goroutine of the clock.
TimerFires ==
    /\ armed
    /\ armed' = FALSE
    /\ fired' = IF fired < TimerBuffer THEN fired + 1 ELSE fired
    /\ UNCHANGED <<startVars, loop, current, inv, chanVars, clientVars, endVars>>

-----------------------------------------------------------------------------
(* The run goroutine inside a step, or Start's inside its invoke loop.     *)

\* doInvokeEntry: the cancel function is registered before fn is called.
BeginInvoke(i) ==
    /\ loop \in {"invokes", "step"}
    /\ inv[i] = "none"
    /\ inv' = [inv EXCEPT ![i] = "live"]
    /\ current' = i
    /\ loop' = "invoke"
    /\ UNCHANGED <<startVars, chanVars, clientVars, timerVars, endVars>>

\* fn returns; one that sends synchronously returns after its sends have.
EndInvoke ==
    /\ loop = "invoke"
    /\ current \in SyncInvokes => call[current] = "idle" /\ calls[current] = MaxSends
    /\ current' = NoInvocation
    /\ loop' = IF spawned THEN "step" ELSE "invokes"
    /\ UNCHANGED <<startVars, inv, chanVars, clientVars, timerVars, endVars>>

\* stopStateInvokes, when the state that started the invocation is exited.
CancelInvoke(i) ==
    /\ loop = "step"
    /\ inv[i] = "live"
    /\ inv' = [inv EXCEPT ![i] = "cancelled"]
    /\ UNCHANGED <<startVars, loop, current, chanVars, clientVars, timerVars, endVars>>

\* startStateTimers and stopStateTimers.
ChangeTimers ==
    /\ loop \in {"enter", "step"}
    /\ armed' = ~armed
    /\ UNCHANGED <<startVars, loop, current, inv, chanVars, clientVars, fired, endVars>>

\* The internal queue is empty and no always transition is enabled.
EndStep ==
    /\ loop = "step"
    /\ loop' = "select"
    /\ UNCHANGED <<startVars, current, inv, chanVars, clientVars, timerVars, endVars>>

\* Mutant: a panic ends the goroutine without the deferred teardown.
PanicWithoutTeardown ==
    /\ loop = "step"
    /\ loop' = "exited"
    /\ current' = NoInvocation
    /\ panicErr' = TRUE
    /\ UNCHANGED <<startVars, inv, chanVars, clientVars, timerVars, ctxDone, done, stop>>

\* An action, a guard, a subscriber or an InvokeFn panics on the run
\* goroutine; the deferred function recovers and records it.
Panic ==
    /\ \/ loop = "step"
       \/ loop = "invoke" /\ spawned /\ call[current] = "idle"
    /\ loop' = "cancelAll"
    /\ current' = NoInvocation
    /\ panicErr' = TRUE
    /\ UNCHANGED <<startVars, inv, chanVars, clientVars, timerVars, ctxDone, done, stop>>

-----------------------------------------------------------------------------
(* The deferred function of run.                                           *)

CancelAll ==
    /\ loop = "cancelAll"
    /\ loop' = "stopInvokes"
    /\ armed' = FALSE
    /\ UNCHANGED <<startVars, current, inv, chanVars, clientVars, fired, endVars>>

\* Mutant: only Stop sets the status, the deferred function does not.
StopInvokesKeepStatus ==
    /\ loop = "stopInvokes"
    /\ loop' = "close"
    /\ inv' = [i \in Invocations |-> IF inv[i] = "live" THEN "cancelled" ELSE inv[i]]
    /\ UNCHANGED <<startVars, current, chanVars, clientVars, timerVars, endVars>>

StopInvokes ==
    /\ loop = "stopInvokes"
    /\ loop' = "setStopped"
    /\ inv' = [i \in Invocations |-> IF inv[i] = "live" THEN "cancelled" ELSE inv[i]]
    /\ UNCHANGED <<startVars, current, chanVars, clientVars, timerVars, endVars>>

SetStopped ==
    /\ loop = "setStopped"
    /\ loop' = "close"
    /\ status' = "stopped"
    /\ UNCHANGED <<spawned, current, inv, chanVars, clientVars, timerVars, endVars>>

CloseDone ==
    /\ loop = "close"
    /\ loop' = "exited"
    /\ done' = TRUE
    /\ UNCHANGED <<startVars, current, inv, chanVars, clientVars, timerVars, ctxDone, panicErr, stop>>

-----------------------------------------------------------------------------
(* Stop.                                                                   *)

\* Mutant: a second Stop returns at once.
BeginStopNoWait(p) ==
    /\ spawned
    /\ stop[p] = "idle"
    /\ stop' = [stop EXCEPT ![p] = IF status = "running" THEN "cancel" ELSE "returned"]
    /\ status' = "stopped"
    /\ UNCHANGED <<spawned, loop, current, inv, chanVars, clientVars, timerVars, ctxDone, done, panicErr>>

\* Mutant: a store in place of the compare-and-swap.
BeginStopStore(p) ==
    /\ spawned
    /\ stop[p] = "idle"
    /\ stop' = [stop EXCEPT ![p] = "cancel"]
    /\ status' = "stopped"
    /\ UNCHANGED <<spawned, loop, current, inv, chanVars, clientVars, timerVars, ctxDone, done, panicErr>>

\* The compare-and-swap: only one caller goes on to cancel the context.
BeginStop(p) ==
    /\ spawned
    /\ stop[p] = "idle"
    /\ stop' = [stop EXCEPT ![p] = IF status = "running" THEN "cancel" ELSE "wait"]
    /\ status' = "stopped"
    /\ UNCHANGED <<spawned, loop, current, inv, chanVars, clientVars, timerVars, ctxDone, done, panicErr>>

CancelContext(p) ==
    /\ stop[p] = "cancel"
    /\ stop' = [stop EXCEPT ![p] = "wait"]
    /\ ctxDone' = TRUE
    /\ UNCHANGED <<startVars, loop, current, inv, chanVars, clientVars, timerVars, done, panicErr>>

StopReturn(p) ==
    /\ stop[p] = "wait"
    /\ done
    /\ stop' = [stop EXCEPT ![p] = "returned"]
    /\ UNCHANGED <<startVars, loop, current, inv, chanVars, clientVars, timerVars, ctxDone, done, panicErr>>

-----------------------------------------------------------------------------

SendNext(c) ==
    \/ \E kind \in {"send", "trysend"} : BeginSend(c, kind)
    \/ SendAccepted(c)
    \/ SendHandedOver(c)
    \/ SendRefused(c)
    \/ TrySendFull(c)

SelectNext == TakeEnvelope \/ TakeTimer \/ SeeCancelled

StepNext ==
    \/ \E i \in Invocations : BeginInvoke(i) \/ CancelInvoke(i)
    \/ EndInvoke
    \/ ChangeTimers
    \/ EndStep
    \/ Panic

TeardownNext == CancelAll \/ StopInvokes \/ SetStopped \/ CloseDone

StopNext(p) == BeginStop(p) \/ CancelContext(p) \/ StopReturn(p)

Next ==
    \/ EnterInitial
    \/ SpawnRun
    \/ \E c \in Clients : SendNext(c)
    \/ SelectNext
    \/ TimerFires
    \/ StepNext
    \/ TeardownNext
    \/ \E p \in Stoppers : StopNext(p)

Spec == Init /\ [][Next]_svcVars

(***************************************************************************)
(* Fairness. The scheduler of Go runs every goroutine that can run (WF).   *)
(* A select with several ready cases chooses one at random, so a case that *)
(* is ready again and again is chosen (SF on the cases of run), and a      *)
(* channel serves its blocked senders in the order they blocked (SF on a   *)
(* pending call). Actions, guards and InvokeFns are assumed to return; a   *)
(* client or a stopper is free never to call.                              *)
(***************************************************************************)
Answer(c) == SendAccepted(c) \/ SendHandedOver(c) \/ SendRefused(c) \/ TrySendFull(c)

Fairness ==
    /\ WF_svcVars(EnterInitial) /\ WF_svcVars(SpawnRun)
    /\ WF_svcVars(EndInvoke) /\ WF_svcVars(EndStep)
    /\ SF_svcVars(TakeEnvelope) /\ SF_svcVars(TakeTimer) /\ SF_svcVars(SeeCancelled)
    /\ WF_svcVars(TeardownNext)
    /\ \A c \in Clients : SF_svcVars(Answer(c))
    /\ \A i \in SyncInvokes : WF_svcVars(BeginSend(i, "send"))
    /\ \A p \in Stoppers : WF_svcVars(CancelContext(p)) /\ WF_svcVars(StopReturn(p))

FairSpec == Spec /\ Fairness

-----------------------------------------------------------------------------
(* Properties.                                                             *)

TypeOK ==
    /\ status \in {"created", "running", "stopped"}
    /\ ctxDone \in BOOLEAN /\ done \in BOOLEAN /\ panicErr \in BOOLEAN
    /\ mailboxSize \in Nat
    /\ mailbox \in Seq(Event) /\ Len(mailbox) <= mailboxSize
    /\ handled \in Seq(Event)
    /\ loop \in {"enter", "invokes", "invoke", "select", "step", "cancelAll",
                 "stopInvokes", "setStopped", "close", "exited"}
    /\ spawned \in BOOLEAN
    /\ current \in Invocations \cup {NoInvocation}
    /\ inv \in [Invocations -> {"none", "live", "cancelled"}]
    /\ armed \in BOOLEAN
    /\ fired \in 0..TimerBuffer
    /\ call \in [Clients -> {"idle", "send", "trysend"}]
    /\ calls \in [Clients -> 0..MaxSends]
    /\ late \in [Clients -> BOOLEAN]
    /\ stop \in [Stoppers -> {"idle", "cancel", "wait", "returned"}]

\* Stop "blocks until the interpreter goroutine has exited and all resources
\* are released": when Stop returns, no timer is pending, no invocation has a
\* context that is still alive, and the status is "stopped" for every caller.
ReleasedWhenStopReturns ==
    \A p \in Stoppers : stop[p] = "returned" =>
        /\ loop = "exited"
        /\ ~armed
        /\ \A i \in Invocations : inv[i] # "live"
        /\ status = "stopped"

\* Err is nil only after a clean stop: a service whose Done() is closed and
\* that recorded no panic was cancelled by exactly one caller of Stop.
ErrTellsWhy == done /\ ~panicErr => ctxDone /\ \A p \in Stoppers : stop[p] # "cancel"

Accepts(c) == handled' \o mailbox' = Append(handled \o mailbox, [from |-> c, n |-> calls[c]])

\* A Send or TrySend that begins once Done() is closed is never accepted, by
\* whichever way the service came to its end.
RefusedAfterDone == [][\A c \in Clients : late[c] => ~Accepts(c)]_svcVars

\* Accepted events are handled in order, once, none skipped, and none is
\* handled after Done() is closed (the mailbox channel and the two places
\* that touch it implement EventQueue).
Queue == INSTANCE EventQueue WITH sent <- handled \o mailbox, open <- ~done
ImplementsQueue == Queue!Spec

\* Every call of Stop returns, whichever way the service ends, and every Send
\* gets an answer, however full the mailbox is and whenever the service stops.
EveryCallReturns ==
    /\ \A p \in Stoppers : stop[p] # "idle" ~> stop[p] = "returned"
    /\ \A c \in Clients : call[c] # "idle" ~> call[c] = "idle"

\* An event a caller was told is enqueued is handled, unless the service is
\* stopped or panics.
AcceptedIsHandled ==
    \A e \in Event :
        (\E k \in DOMAIN mailbox : mailbox[k] = e)
            ~> (ctxDone \/ panicErr \/ \E k \in DOMAIN handled : handled[k] = e)
=============================================================================
