------------------------------- MODULE MCFiles -------------------------------
(***************************************************************************)
(* Instances of Files for TLC.                                             *)
(***************************************************************************)
EXTENDS Files

CONSTANTS good, bad

MCDeclared == [i \in Idx |-> good]

\* All contents have the same size: only the digest tells them apart.
MCSize == [x \in Contents |-> 1]
=============================================================================
