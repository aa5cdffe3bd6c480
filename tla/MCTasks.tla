------------------------------- MODULE MCTasks -------------------------------
(* Small instances of Tasks.                                               *)
EXTENDS Tasks

OneSession == <<"a", "a">>
\* One task streams, the other answers at once: what they share is the MLS state.
OneStreams == <<3, 0>>
=============================================================================
