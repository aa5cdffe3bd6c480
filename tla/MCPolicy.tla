------------------------------- MODULE MCPolicy -------------------------------
(* A small instance of Policy: two tasks of one session.                   *)
EXTENDS Policy

OneSession == <<"a", "a">>
NoChunks   == <<0, 0>>
=============================================================================
