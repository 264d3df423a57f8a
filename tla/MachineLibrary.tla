--------------------------- MODULE MachineLibrary ---------------------------
(***************************************************************************)
(* Machines to check with: fixtures of service_test.go and examples of the *)
(* repository, and machines that combine their features.                   *)
(***************************************************************************)
EXTENDS Machine

-----------------------------------------------------------------------------
(* A builder of machines, with the defaults of src/model/builder.go. tree  *)
(* lists the pairs <<state, parent>> in definition order.                  *)

FirstChild(tree, s) ==
    LET i == SelectInSeq(tree, LAMBDA p : p[2] = s) IN IF i = 0 THEN None ELSE tree[i][1]

Build(tree, par, fin, trans) ==
    LET order == [i \in DOMAIN tree |-> tree[i][1]]
        S     == ToSet(order)
    IN  [order       |-> order,
         parent      |-> [s \in S |-> LET i == SelectInSeq(tree, LAMBDA p : p[1] = s) IN tree[i][2]],
         initial     |-> [s \in S |-> IF s \in par THEN None ELSE FirstChild(tree, s)],
         start       |-> order[1],
         parallel    |-> par,
         final       |-> fin,
         transitions |-> trans,
         onEntry     |-> [s \in S |-> <<>>],
         onExit      |-> [s \in S |-> <<>>],
         after       |-> [s \in S |-> None],
         invokes     |-> {},
         delay       |-> [s \in S |-> 1],
         sends       |-> [s \in S |-> <<>>]]

On(from, ev, to) == [from |-> from, on |-> ev, to |-> to, guarded |-> FALSE, raises |-> <<>>]
When(t) == [t EXCEPT !.guarded = TRUE]
Raise(t, ev) == [t EXCEPT !.raises = Append(@, ev)]
Always(from, to) == On(from, AlwaysEvent, to)
OnDone(from, to) == On(from, DoneEvent(from), to)
AfterEvent(s) == "after." \o s
After(from, to) == On(from, AfterEvent(from), to)
WithTimer(m, s) == [m EXCEPT !.after[s] = AfterEvent(s)]
WithInvoke(m, s) == [m EXCEPT !.invokes = @ \cup {s}]
OnEntry(m, s, ev) == [m EXCEPT !.onEntry[s] = Append(@, ev)]
OnExit(m, s, ev) == [m EXCEPT !.onExit[s] = Append(@, ev)]

-----------------------------------------------------------------------------
(* Fixtures and examples.                                                  *)

\* parallelFormMachine (service_test.go:848-874).
Form ==
    Build(<<<<"form", None>>, <<"field1", "form">>, <<"f1pristine", "field1">>, <<"f1dirty", "field1">>,
            <<"field2", "form">>, <<"f2pristine", "field2">>, <<"f2dirty", "field2">>, <<"submitted", None>>>>,
          {"form"}, {"submitted"},
          <<On("f1pristine", "EDIT1", "f1dirty"), On("f2pristine", "EDIT2", "f2dirty"),
            On("form", "SUBMIT", "submitted")>>)

\* TestDone_ParallelStateFires (service_test.go:1189-1213).
ParDone ==
    Build(<<<<"par", None>>, <<"regionA", "par">>, <<"a_active", "regionA">>, <<"a_final", "regionA">>,
            <<"regionB", "par">>, <<"b_active", "regionB">>, <<"b_final", "regionB">>, <<"complete", None>>>>,
          {"par"}, {"a_final", "b_final", "complete"},
          <<On("a_active", "DONE_A", "a_final"), On("b_active", "DONE_B", "b_final"),
            OnDone("par", "complete")>>)

\* The same, started again: the duplicate leaves of complete multiply.
ParAgain ==
    [ParDone EXCEPT !.transitions = Append(@, On("complete", "AGAIN", "par"))]

\* TestDone_Cascades (service_test.go:1238-1256).
Cascades ==
    Build(<<<<"outer", None>>, <<"inner", "outer">>, <<"leaf", "inner">>, <<"inner_done", "outer">>,
            <<"finished", None>>>>,
          {}, {"leaf", "inner_done", "finished"},
          <<OnDone("inner", "inner_done"), OnDone("outer", "finished")>>)

\* examples/authflow: an invocation and a timer race in authenticating.
Auth ==
    WithInvoke(WithTimer(
        Build(<<<<"idle", None>>, <<"authenticating", None>>, <<"active", None>>, <<"locked", None>>>>,
              {}, {"locked"},
              <<On("idle", "LOGIN", "authenticating"), When(On("authenticating", "RESPONSE", "active")),
                When(On("authenticating", "RESPONSE", "locked")), On("authenticating", "RESPONSE", "idle"),
                After("authenticating", "idle"), On("active", "LOGOUT", "idle")>>),
        "authenticating"), "authenticating")

\* examples/doceditor: regions that never leave their parallel state.
Editor ==
    Build(<<<<"doc", None>>, <<"edit", "doc">>, <<"idle", "edit">>, <<"typing", "edit">>,
            <<"formatting", "edit">>, <<"sync", "doc">>, <<"clean", "sync">>, <<"dirty", "sync">>,
            <<"saving", "sync">>>>,
          {"doc"}, {},
          <<On("idle", "TYPE", "typing"), On("typing", "TYPE", "typing"), On("typing", "FORMAT", "formatting"),
            On("formatting", "DONE", "idle"), On("clean", "TYPE", "dirty"), On("dirty", "SAVE", "saving"),
            On("saving", "SAVED", "clean"), On("saving", "ERR", "dirty")>>)

-----------------------------------------------------------------------------
(* Machines that combine the features.                                     *)

\* Two levels: bubbling, guards, Always routing, transitions to an ancestor and
\* to itself, timers and invocations of parent and child, raised events.
Job ==
    LET m == Build(<<<<"idle", None>>, <<"busy", None>>, <<"fetch", "busy">>, <<"retry", "busy">>,
                     <<"fetched", "busy">>, <<"failed", None>>>>,
                   {}, {"fetched", "failed"},
                   <<On("idle", "GO", "busy"), When(Always("retry", "failed")), On("retry", "GO", "fetched"),
                     Raise(On("fetch", "ERR", "retry"), "LOG"), When(On("fetch", "OK", "fetched")),
                     After("fetch", "retry"), After("busy", "idle"), On("busy", "GO", "busy"),
                     OnDone("busy", "idle"), On("failed", "LOG", "failed"), On("failed", "GO", "retry")>>)
    IN  OnEntry(OnExit(WithInvoke(WithInvoke(WithTimer(WithTimer(m, "busy"), "fetch"), "busy"), "fetch"),
                "busy", "LOG"), "failed", "GO")

\* A parallel state inside a region of a parallel state, each completed from
\* inside, with timers in the regions.
Nested ==
    WithTimer(WithInvoke(
        Build(<<<<"top", None>>, <<"left", "top">>, <<"l1", "left">>, <<"both", "left">>,
                <<"b2", "both">>, <<"b21", "b2">>, <<"b22", "b2">>, <<"b1", "both">>,
                <<"l2", "left">>, <<"right", "top">>, <<"r1", "right">>, <<"r2", "right">>, <<"out", None>>>>,
              {"top", "both"}, {"b1", "b22", "l2", "r2"},
              <<On("l1", "E", "both"), On("b21", "E", "b22"), OnDone("both", "l2"), On("r1", "F", "r2"),
                After("b21", "b22"), OnDone("top", "out")>>),
        "both"), "b21")

\* A region without states of its own, which re-enters itself on the event on
\* which the other region moves on.
Ticker ==
    WithTimer(Build(<<<<"clock", None>>, <<"tick", "clock">>, <<"phase", "clock">>, <<"p1", "phase">>,
                      <<"p2", "phase">>, <<"stop", None>>>>,
                    {"clock"}, {"stop"},
                    <<On("tick", "E", "tick"), On("p1", "E", "p2"), After("tick", "tick"),
                      When(On("clock", "F", "stop"))>>),
              "tick")

\* Two states that route to one another for ever, without raising anything.
PingPong ==
    Build(<<<<"ping", None>>, <<"pong", None>>, <<"idle", None>>>>, {}, {},
          <<When(Always("ping", "pong")), Always("pong", "ping"), On("ping", "E", "idle"), On("idle", "E", "pong")>>)

\* The same, with an action that raises an event.
RaisingPingPong ==
    Build(<<<<"ping", None>>, <<"pong", None>>>>, {}, {},
          <<Raise(Always("ping", "pong"), "E"), Always("pong", "ping")>>)

\* A region that handles the event on which the parallel state is left.
Torn ==
    [Form EXCEPT !.transitions = Append(@, On("f1pristine", "SUBMIT", "f1dirty"))]

Library == {Form, ParDone, ParAgain, Cascades, Auth, Editor, Job, Nested, Ticker, PingPong}
=============================================================================
