----------------------------- MODULE MCPersist ------------------------------
(***************************************************************************)
(* Machines for Persist, and their later releases.                         *)
(***************************************************************************)
EXTENDS Persist, MachineLibrary

\* A release that splits idle in two: checkpoints in idle are refused.
Split ==
    Build(<<<<"idle", None>>, <<"fresh", "idle">>, <<"back", "idle">>, <<"authenticating", None>>,
            <<"active", None>>, <<"locked", None>>>>,
          {}, {"locked"}, Auth.transitions)

\* A release that has no locked any more.
NeverLocked ==
    WithTimer(
        Build(<<<<"idle", None>>, <<"authenticating", None>>, <<"active", None>>>>, {}, {},
              <<On("idle", "LOGIN", "authenticating"), On("authenticating", "RESPONSE", "active"),
                After("authenticating", "idle"), On("active", "LOGOUT", "idle")>>),
        "authenticating")

\* A chain of two raised events, with a timer and an invocation around it.
Chained ==
    OnEntry(WithTimer(WithInvoke(
        Build(<<<<"off", None>>, <<"on", None>>, <<"warm", "on">>, <<"hot", "on">>>>, {}, {"hot"},
              <<Raise(On("off", "GO", "on"), "HEAT"), Raise(On("warm", "HEAT", "hot"), "LOG"),
                After("on", "off"), OnDone("on", "off"), On("hot", "LOG", "warm")>>),
        "on"), "on"), "warm", "LOG")

Saved == {ParDone, ParAgain, Cascades, Auth, Chained, PingPong}
LaterReleases(m) == IF m = Auth THEN {Split, NeverLocked} ELSE {}

Later == {<<m, m>> : m \in Saved \cup {Split, NeverLocked}} \cup {<<Auth, Split>>, <<Auth, NeverLocked>>}

ASSUME SavedKeepMeaning == Lineage(Later)
=============================================================================
