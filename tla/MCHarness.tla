------------------------------ MODULE MCHarness -------------------------------
(***************************************************************************)
(* Machines for Harness: those of MachineLibrary that have timers, Always  *)
(* or raised events, with delays that let several timers be due at once,   *)
(* and two on which the harness and the runtime part.                      *)
(***************************************************************************)
EXTENDS Harness, MachineLibrary

Delayed(m, s, d) == [m EXCEPT !.delay[s] = d]
Sending(m, s, ev) == [m EXCEPT !.invokes = @ \cup {s}, !.sends[s] = <<ev>>]

\* Both regions route on by an Always, one of which raises what the other reads.
TwoRoutes ==
    Build(<<<<"p", None>>, <<"a", "p">>, <<"a1", "a">>, <<"a2", "a">>,
               <<"b", "p">>, <<"b1", "b">>, <<"b2", "b">>, <<"b3", "b">>>>,
             {"p"}, {},
             <<Raise(Always("a1", "a2"), "E"), Always("b1", "b2"), On("b1", "E", "b3"),
               On("b2", "E", "b1")>>)

\* Auth with an InvokeFn that answers before it returns.
Answering == Sending(Auth, "authenticating", "RESPONSE")

\* A timer whose event starts a timer, and one of the state around.
Relay ==
    WithTimer(WithTimer(WithTimer(
        Delayed(Build(<<<<"out", None>>, <<"x", "out">>, <<"y", "out">>, <<"end", None>>>>, {}, {"end"},
                 <<After("x", "y"), After("y", "x"), After("out", "end"), On("end", "AGAIN", "out"),
                   On("x", "SKIP", "y")>>),
            "out", 3),
        "out"), "x"), "y")

\* Timers in both regions, due at once; the one of region a leaves region b
\* waiting for its own, which restarts with the parallel state.
Timed ==
    WithTimer(WithTimer(WithInvoke(
        Build(<<<<"p", None>>, <<"a", "p">>, <<"a1", "a">>, <<"a2", "a">>,
                <<"b", "p">>, <<"b1", "b">>, <<"b2", "b">>, <<"end", None>>>>,
              {"p"}, {"a2", "b2"},
              <<After("a1", "a2"), After("b1", "b2"), On("b2", "E", "b1"), OnDone("p", "end"), On("end", "F", "p"),
                On("p", "G", "end")>>),
        "p"), "a1"), "b1")

Tested ==
    {ParDone, Cascades, Delayed(Auth, "authenticating", 2), Delayed(Job, "busy", 3),
     Delayed(Timed, "b1", 2), PingPong, RaisingPingPong, TwoRoutes, Answering, Relay}

ASSUME TestedAreSteady == \A m \in Tested : KeepsRegions(m) /\ AlwaysInside(m)
=============================================================================
