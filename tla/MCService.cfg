\* One sender, two stoppers and one asynchronous invocation share a mailbox of
\* two slots, of one, or of none (every send is a rendezvous with the select
\* of run). A stopped service takes no more steps.
SPECIFICATION FairSpec
CONSTANTS
    Senders = {c1}
    Stoppers = {p1, p2}
    Invocations = {i1}
    SyncInvokes = {}
    MailboxSizes = {0, 1, 2}
    TimerBuffer = 1
    MaxSends = 1
    NoInvocation = NoInvocation
INVARIANTS
    TypeOK
    ReleasedWhenStopReturns
    ErrTellsWhy
PROPERTIES
    RefusedAfterDone
    ImplementsQueue
    EveryCallReturns
    AcceptedIsHandled
CHECK_DEADLOCK FALSE
