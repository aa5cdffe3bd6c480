------------------------------- MODULE Executor -------------------------------
(***************************************************************************)
(* What the two executors of external effects promise, the gateway of the  *)
(* AI policy and the micro-safer endpoint: a job is handed over at most    *)
(* once, its outcome is final, and only what was handed over is ever said  *)
(* to be done.  Where the handing over itself is not durable, the job is   *)
(* claimed durably before it.  Jobs are independent: a step of the system  *)
(* may move any number of them.                                            *)
(***************************************************************************)
EXTENDS Integers

CONSTANTS
  Jobs,
  From    \* the state a job may be handed over from: "new", or "claimed"
VARIABLES
  state,  \* of each job
  handed  \* of each job, how often it was handed over

States == {"new", "claimed", "done", "uncertain", "refused"}

Init == state = [j \in Jobs |-> "new"] /\ handed = [j \in Jobs |-> 0]

Moves(j, s, n) == state'[j] = s /\ handed'[j] = n

Stays(j)    == Moves(j, state[j], handed[j])
Refuse(j)   == state[j] = "new" /\ Moves(j, "refused", handed[j])
Claim(j)    == state[j] = "new" /\ Moves(j, "claimed", handed[j])
HandOver(j) == state[j] = From /\ handed[j] = 0 /\ Moves(j, "claimed", 1)
Conclude(j) ==
  /\ state[j] = "claimed"
  /\ \/ handed[j] = 1 /\ Moves(j, "done", 1)
     \/ Moves(j, "uncertain", handed[j])

Next ==
  /\ state' \in [Jobs -> States] /\ handed' \in [Jobs -> Nat]
  /\ \A j \in Jobs : Stays(j) \/ Refuse(j) \/ Claim(j) \/ HandOver(j) \/ Conclude(j)

Spec == Init /\ [][Next]_<<state, handed>>
=============================================================================
