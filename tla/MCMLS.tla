-------------------------------- MODULE MCMLS --------------------------------
(***************************************************************************)
(* An instance of MLS for TLC: one chat of two accounts with a device      *)
(* each, and a key package of one of them.                                 *)
(***************************************************************************)
EXTENDS MLS

CONSTANTS c1, alice, bob, da, db

MCOwner == [d \in Devices |-> IF d = da THEN alice ELSE bob]
MCJoined == [c \in Chats |-> {alice, bob}]
MCMaxCommits == [c \in Chats |-> 2]
MCPackageOf == [p \in Packages |-> db]
=============================================================================
