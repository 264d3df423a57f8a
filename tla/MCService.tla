----------------------------- MODULE MCService ------------------------------
(* Small instances of Service for TLC; the configurations give the sets.   *)
EXTENDS Service
=============================================================================
