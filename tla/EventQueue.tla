----------------------------- MODULE EventQueue -----------------------------
(***************************************************************************)
(* What Service promises about the events it accepts, without its channel, *)
(* its goroutines or its shutdown protocol: the events for which a send    *)
(* succeeded are handled in the order of their acceptance, each at most    *)
(* once, none is skipped, and nothing is handled once the service is done. *)
(* An event accepted too late may stay unhandled for ever.                 *)
(***************************************************************************)
EXTENDS Naturals, Sequences

CONSTANT Event

VARIABLES
    sent,     \* every event accepted so far, in order of acceptance
    handled,  \* every event handled so far, in order of handling
    open      \* FALSE once Done() is closed

queueVars == <<sent, handled, open>>

Init ==
    /\ sent = <<>>
    /\ handled = <<>>
    /\ open = TRUE

Accept(e) ==
    /\ sent' = Append(sent, e)
    /\ UNCHANGED <<handled, open>>

Handle ==
    /\ open
    /\ Len(handled) < Len(sent)
    /\ handled' = Append(handled, sent[Len(handled) + 1])
    /\ UNCHANGED <<sent, open>>

\* An unbuffered mailbox accepts and hands over in one step, and only when
\* nothing accepted before is still waiting.
HandOver(e) ==
    /\ open
    /\ sent = handled
    /\ sent' = Append(sent, e)
    /\ handled' = Append(handled, e)
    /\ UNCHANGED open

Close ==
    /\ open
    /\ open' = FALSE
    /\ UNCHANGED <<sent, handled>>

Next ==
    \/ \E e \in Event : Accept(e) \/ HandOver(e)
    \/ Handle
    \/ Close

Spec == Init /\ [][Next]_queueVars
=============================================================================
