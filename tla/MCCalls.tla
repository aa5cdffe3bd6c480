------------------------------- MODULE MCCalls -------------------------------
(***************************************************************************)
(* Instances of Calls for TLC.                                             *)
(***************************************************************************)
EXTENDS Calls

CONSTANTS alice, bob, ai, da, db

MCOwner == [d \in Devices |-> IF d = da THEN alice ELSE bob]

S(d, o, t, c, to, e) == [dev |-> d, op |-> o, type |-> t, call |-> c, to |-> to, epoch |-> e]

\* E2EE: two calls, media of two epochs.
Secret == { S(da, 1, "offer", 1, None, 0), S(da, 2, "ice", 1, None, 1),
            S(db, 1, "accept", 1, None, 0) }

\* Basic: one call, an operation id used for three signals, one of them media.
Plain == { S(db, 1, "accept", 1, None, 0), S(db, 1, "end", 1, None, 0),
           S(db, 1, "answer", 1, da, 0) }

\* A call that may be accepted.
Accept == { S(db, 1, "accept", 1, None, 0) }
=============================================================================
