------------------------------ MODULE MCBuild -------------------------------
EXTENDS Build

ThreeNames == <<"a", "b", "c">>
PlainOrGuarded == {<<>>, <<"When">>}
GuardedThenDo == {<<"When", "Do">>}
=============================================================================
