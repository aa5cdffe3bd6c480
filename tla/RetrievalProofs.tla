--------------------------- MODULE RetrievalProofs ---------------------------
(***************************************************************************)
(* Proofs about Retrieval: what was retrieved under a grant that has ended *)
(* is not let out, and no later task gets it with its context.             *)
(***************************************************************************)
EXTENDS Retrieval, TLAPS

-----------------------------------------------------------------------------
(* The inductive invariant.                                                *)

RowsTyped == row \in [Nonces -> {"none", "granted", "used"}]

\* A request has at most one row: the grant that stands for it, if any does, is
\* the one that was used.
OneGrant ==
  \A m, n \in Nonces :
    (row[m] # "none" /\ row[n] # "none" /\ RequestOf[m] = RequestOf[n]) => m = n

\* The turns hold nothing that the boundary does not know, and the boundary
\* nothing whose grant is not used.
Tracked ==
  /\ data \subseteq boundary.reqs
  /\ \A r \in boundary.reqs : \E n \in Nonces : RequestOf[n] = r /\ row[n] = "used"
  /\ at = "query" => call \in boundary.reqs

\* A request is barred for a used grant that ended.
BarredEnded ==
  \A r \in barred :
    \E n \in Nonces : RequestOf[n] = r /\ row[n] = "used" /\ n \in revoked \cup expired

\* A release that is under way passed its check with what the turns hold now.
Released == at = "send" => data \cap barred = {}

RetrievalInv ==
  /\ RowsTyped /\ OneGrant /\ Tracked /\ BarredEnded /\ Released
  /\ NothingAfterRevocation /\ NothingRemembered

-----------------------------------------------------------------------------
(* Facts about the invariant.                                              *)

\* A barred request does not stand: its one row is of a grant that ended, so that
\* no later grant makes up for it.
LEMMA BarredFalls ==
  ASSUME RetrievalInv, NEW r \in barred
  PROVE  ~Standing(r, {"used"})
<1>1. PICK n \in Nonces : RequestOf[n] = r /\ row[n] = "used" /\ n \in revoked \cup expired
  BY DEF RetrievalInv, BarredEnded
<1>2. ASSUME NEW m \in Of(r), row[m] \in {"used"}, m \notin revoked, m \notin expired PROVE FALSE
  <2>1. m \in Nonces /\ RequestOf[m] = r /\ row[m] # "none" BY <1>2 DEF Of
  <2>2. m = n BY <1>1, <2>1 DEF RetrievalInv, OneGrant
  <2> QED BY <1>1, <1>2, <2>2
<1> QED BY <1>2 DEF Standing

\* What the turns hold was retrieved under a used grant.
LEMMA DataRetrieved ==
  ASSUME RetrievalInv, NEW r \in data
  PROVE  r \in boundary.reqs /\ \E n \in Nonces : RequestOf[n] = r /\ row[n] = "used"
BY DEF RetrievalInv, Tracked

\* The check before a provider call covers the turns.
LEMMA ReleaseChecks ==
  ASSUME RetrievalInv, MayRelease
  PROVE  data \cap barred = {}
<1>1. ASSUME NEW r \in data, r \in barred PROVE FALSE
  <2>1. r \in boundary.reqs BY <1>1, DataRetrieved
  <2>2. boundary # Nothing BY <2>1 DEF Nothing
  <2>3. Standing(r, {"used"}) BY <2>1, <2>2 DEF MayRelease
  <2> QED BY <1>1, <2>3, BarredFalls
<1> QED BY <1>1

\* So does the check of the answer.
LEMMA AnswerChecks ==
  ASSUME RetrievalInv, MayAnswer, RetrievalAssumption
  PROVE  data \cap barred = {}
<1>1. ASSUME NEW r \in data, r \in barred PROVE FALSE
  <2>1. PICK n \in Nonces : RequestOf[n] = r /\ row[n] = "used" BY <1>1, DataRetrieved
  <2>2. r \in Requests BY <2>1 DEF RetrievalAssumption
  <2>3. n \in Of(r) BY <2>1 DEF Of
  <2>4. r \in Retrieved BY <2>1, <2>2, <2>3 DEF Retrieved
  <2>5. Standing(r, {"used"}) BY <2>4 DEF MayAnswer
  <2> QED BY <1>1, <2>5, BarredFalls
<1> QED BY <1>1

\* Turns that hold something retrieved are not kept for later tasks.
LEMMA NothingKept ==
  ASSUME RetrievalInv, RetrievalAssumption
  PROVE  Kept = {}
<1>1. ASSUME NEW r \in data PROVE Retrieved # {}
  <2>1. PICK n \in Nonces : RequestOf[n] = r /\ row[n] = "used" BY <1>1, DataRetrieved
  <2>2. r \in Requests BY <2>1 DEF RetrievalAssumption
  <2>3. n \in Of(r) BY <2>1 DEF Of
  <2> QED BY <2>1, <2>2, <2>3 DEF Retrieved
<1> QED BY <1>1 DEF Kept

-----------------------------------------------------------------------------
(* Steps.                                                                  *)

\* A step that lets nothing out and leaves the rows, the turns and the history
\* alone, and starts neither a provider call nor a query.
LEMMA QuietStep ==
  ASSUME RetrievalInv, out' = {},
         UNCHANGED <<row, call, boundary, data, barred, context>>,
         UNCHANGED <<revoked, expired>>,
         at' = at \/ at' \notin {"send", "query"}
  PROVE  RetrievalInv'
BY DEF RetrievalInv, RowsTyped, OneGrant, Tracked, BarredEnded, Released,
       NothingAfterRevocation, NothingRemembered

LEMMA ClaimStep == ASSUME RetrievalInv, Claim PROVE RetrievalInv'
BY QuietStep DEF Claim, Quiet, grantVars, turns

LEMMA FailStep == ASSUME RetrievalInv, NEW s, Fail(s) PROVE RetrievalInv'
BY QuietStep DEF Fail, Quiet, grantVars, turns

LEMMA ReleaseStep == ASSUME RetrievalInv, Release PROVE RetrievalInv'
<1>1. CASE at = "provider" /\ MayRelease /\ Move("send")
  <2>1. data \cap barred = {} BY <1>1, ReleaseChecks
  <2>2. /\ out' = {} /\ at' = "send"
        /\ UNCHANGED <<row, call, boundary, data, barred, context, revoked, expired>>
    BY <1>1 DEF Move, Quiet, grantVars, turns
  <2> QED BY <2>1, <2>2 DEF RetrievalInv, RowsTyped, OneGrant, Tracked, BarredEnded, Released,
             NothingAfterRevocation, NothingRemembered
<1>2. CASE at = "tool" /\ MayRelease /\ Move("preflight")
  BY <1>2, QuietStep DEF Move, Quiet, grantVars, turns
<1>3. CASE at \in {"provider", "tool"} /\ ~MayRelease /\ Fail(req)
  BY <1>3, FailStep
<1> QED BY <1>1, <1>2, <1>3 DEF Release

\* The turns go out as they were when the check was made.
LEMMA SendStep == ASSUME RetrievalInv, Send PROVE RetrievalInv'
<1>1. /\ at = "send" /\ out' = data /\ at' \in {"tool", "final"}
      /\ UNCHANGED <<row, call, boundary, data, barred, context, revoked, expired>>
  BY DEF Send, grantVars, turns
<1>2. data \cap barred = {} BY <1>1 DEF RetrievalInv, Released
<1> QED BY <1>1, <1>2 DEF RetrievalInv, RowsTyped, OneGrant, Tracked, BarredEnded, Released,
           NothingAfterRevocation, NothingRemembered

LEMMA PreflightStep == ASSUME RetrievalInv, Preflight PROVE RetrievalInv'
BY QuietStep DEF Preflight, Move, Await, Quiet, grantVars, turns

LEMMA BeginStep == ASSUME RetrievalInv, Begin PROVE RetrievalInv'
<1>1. CASE /\ at = "begin" /\ Await /\ Quiet
           /\ UNCHANGED <<grantVars, turns>>
  BY <1>1, QuietStep DEF Await, Quiet, grantVars, turns
<1>2. CASE /\ at = "begin" /\ at' = "use" /\ Quiet
           /\ UNCHANGED <<grantVars, turns>>
  BY <1>2, QuietStep DEF Quiet, grantVars, turns
<1>3. CASE Fail(req) BY <1>3, FailStep
<1> QED BY <1>1, <1>2, <1>3 DEF Begin

\* The grant is used before the query, and no request that was used before loses
\* its row.
LEMMA UseStep == ASSUME RetrievalInv, RetrievalAssumption, Use PROVE RetrievalInv'
<1>1. CASE ~MayUse /\ Fail(Lost) BY <1>1, FailStep
<1>2. CASE /\ MayUse
           /\ row' = [n \in Nonces |-> IF n \in Of(call) THEN "used" ELSE row[n]]
           /\ boundary' = [label |-> label[Resource[call]], reqs |-> boundary.reqs \cup {call}]
           /\ at' = "query"
           /\ Quiet /\ UNCHANGED <<task, req, revoked, expired, binding, aclVars, call, data, admin, faults>>
  <2>1. PICK g \in Of(call) : row[g] = "granted" BY <1>2 DEF MayUse, Standing
  <2>2. g \in Nonces /\ RequestOf[g] = call /\ row'[g] = "used" BY <1>2, <2>1 DEF Of
  <2>3. ASSUME NEW n \in Nonces, row[n] = "used" PROVE row'[n] = "used" BY <1>2, <2>3
  <2>4. ASSUME NEW n \in Nonces PROVE row'[n] # "none" <=> row[n] # "none"
    BY <1>2, <2>4 DEF Of
  <2>5. RowsTyped' BY <1>2 DEF RetrievalInv, RowsTyped
  <2>6. OneGrant' BY <2>4 DEF RetrievalInv, OneGrant
  <2>7. Tracked'
    <3>1. boundary'.reqs = boundary.reqs \cup {call} /\ data' = data /\ call' = call BY <1>2
    <3>2. ASSUME NEW r \in boundary'.reqs
          PROVE  \E n \in Nonces : RequestOf[n] = r /\ row'[n] = "used"
      <4>1. CASE r = call BY <2>2, <4>1
      <4>2. CASE r \in boundary.reqs BY <2>3, <4>2 DEF RetrievalInv, Tracked
      <4> QED BY <3>1, <3>2, <4>1, <4>2
    <3>3. data' \subseteq boundary'.reqs BY <3>1 DEF RetrievalInv, Tracked
    <3> QED BY <3>1, <3>2, <3>3 DEF Tracked
  <2>8. BarredEnded' BY <1>2, <2>3 DEF RetrievalInv, BarredEnded, Quiet
  <2>9. Released' /\ NothingAfterRevocation' /\ NothingRemembered'
    BY <1>2 DEF RetrievalInv, Released, NothingAfterRevocation, NothingRemembered, Quiet
  <2> QED BY <2>5, <2>6, <2>7, <2>8, <2>9 DEF RetrievalInv
<1> QED BY <1>1, <1>2 DEF Use

LEMMA QueryStep == ASSUME RetrievalInv, Query PROVE RetrievalInv'
<1>1. CASE label[Resource[call]] = "absent" /\ Fail(Lost) BY <1>1, FailStep
<1>2. CASE /\ at = "query" /\ data' = data \cup {call}
           /\ at' \in {"tool", "provider"}
           /\ Quiet /\ UNCHANGED <<grantVars, boundary>>
  <2>1. call \in boundary.reqs BY <1>2 DEF RetrievalInv, Tracked
  <2>2. Tracked' BY <1>2, <2>1 DEF RetrievalInv, Tracked, grantVars
  <2>3. RowsTyped' /\ OneGrant' /\ BarredEnded'
    BY <1>2 DEF RetrievalInv, RowsTyped, OneGrant, BarredEnded, grantVars, Quiet
  <2>4. Released' /\ NothingAfterRevocation' /\ NothingRemembered'
    BY <1>2 DEF RetrievalInv, Released, NothingAfterRevocation, NothingRemembered, Quiet
  <2> QED BY <2>2, <2>3, <2>4 DEF RetrievalInv
<1> QED BY <1>1, <1>2 DEF Query

\* The answer takes the turns with it, under a check of every used grant.
LEMMA FinalStep == ASSUME RetrievalInv, RetrievalAssumption, Final PROVE RetrievalInv'
<1>1. CASE ~MayAnswer /\ Fail(req) BY <1>1, FailStep
<1>2. CASE /\ MayAnswer
           /\ at' = "idle" /\ out' = data /\ context' = Kept
           /\ UNCHANGED <<grantVars, turns, barred>>
  <2>1. data \cap barred = {} BY <1>2, AnswerChecks
  <2>2. context' = {} BY <1>2, NothingKept
  <2>3. RowsTyped' /\ OneGrant' /\ Tracked' /\ BarredEnded'
    BY <1>2 DEF RetrievalInv, RowsTyped, OneGrant, Tracked, BarredEnded, grantVars, turns
  <2>4. Released' /\ NothingAfterRevocation' /\ NothingRemembered'
    BY <1>2, <2>1, <2>2 DEF Released, NothingAfterRevocation, NothingRemembered
  <2> QED BY <2>3, <2>4 DEF RetrievalInv
<1>3. CASE Move("idle") BY <1>3, QuietStep DEF Move, Quiet, grantVars, turns
<1> QED BY <1>1, <1>2, <1>3 DEF Final

\* A grant is stored only for a request without a row.
LEMMA StoreGrantStep ==
  ASSUME RetrievalInv, NEW n \in Nonces, StoreGrant(n) PROVE RetrievalInv'
<1>0. /\ out' = {}
      /\ UNCHANGED <<call, boundary, data, barred, context, revoked, expired, at>>
  BY DEF StoreGrant, Quiet, turns
<1>1. CASE UNCHANGED row BY <1>0, <1>1, QuietStep
<1>2. CASE Of(RequestOf[n]) = {} /\ row' = [row EXCEPT ![n] = "granted"]
  <2>1. ASSUME NEW m \in Nonces, RequestOf[m] = RequestOf[n] PROVE row[m] = "none"
    BY <1>2, <2>1 DEF Of
  <2>2. row'[n] = "granted" /\ \A m \in Nonces : m # n => row'[m] = row[m]
    BY <1>2 DEF RetrievalInv, RowsTyped
  <2>3. ASSUME NEW m \in Nonces, row[m] = "used" PROVE row'[m] = "used"
    BY <2>1, <2>2, <2>3
  <2>4. RowsTyped' BY <1>2 DEF RetrievalInv, RowsTyped
  <2>5. OneGrant'
    <3>1. ASSUME NEW k \in Nonces, NEW m \in Nonces, row'[k] # "none", row'[m] # "none",
                 RequestOf[k] = RequestOf[m]
          PROVE  k = m
      <4>1. CASE k = n BY <2>1, <2>2, <3>1, <4>1
      <4>2. CASE m = n BY <2>1, <2>2, <3>1, <4>2
      <4>3. CASE k # n /\ m # n BY <2>2, <3>1, <4>3 DEF RetrievalInv, OneGrant
      <4> QED BY <4>1, <4>2, <4>3
    <3> QED BY <3>1 DEF OneGrant
  <2>6. Tracked' BY <1>0, <2>3 DEF RetrievalInv, Tracked
  <2>7. BarredEnded' BY <1>0, <2>3 DEF RetrievalInv, BarredEnded
  <2>8. Released' /\ NothingAfterRevocation' /\ NothingRemembered'
    BY <1>0 DEF RetrievalInv, Released, NothingAfterRevocation, NothingRemembered
  <2> QED BY <2>4, <2>5, <2>6, <2>7, <2>8 DEF RetrievalInv
<1> QED BY <1>1, <1>2 DEF StoreGrant

\* The end of a used grant bars its request, unless a release is under way.
LEMMA EndStep ==
  ASSUME RetrievalInv, NEW n \in Nonces, Revoke(n) \/ Expire(n) PROVE RetrievalInv'
<1>1. /\ out' = {} /\ Bar(n)
      /\ UNCHANGED <<row, call, boundary, data, context, at>>
  BY DEF Revoke, Expire, Ends, turns
<1>2. (revoked \cup expired) \cup {n} \subseteq (revoked' \cup expired')
  BY DEF Revoke, Expire
<1>3. RowsTyped' /\ OneGrant' /\ Tracked'
  BY <1>1 DEF RetrievalInv, RowsTyped, OneGrant, Tracked
<1>4. BarredEnded'
  <2>1. ASSUME NEW r \in barred'
        PROVE  \E m \in Nonces : RequestOf[m] = r /\ row'[m] = "used" /\ m \in revoked' \cup expired'
    <3>1. CASE r \in barred BY <1>1, <1>2, <3>1 DEF RetrievalInv, BarredEnded
    <3>2. CASE r \notin barred
      <4>1. row[n] = "used" /\ r = RequestOf[n] BY <1>1, <2>1, <3>2 DEF Bar
      <4> QED BY <1>1, <1>2, <4>1
    <3> QED BY <3>1, <3>2
  <2> QED BY <2>1 DEF BarredEnded
<1>5. Released'
  <2>1. CASE at = "send" BY <1>1, <2>1 DEF Bar, RetrievalInv, Released
  <2>2. CASE at # "send" BY <1>1, <2>2 DEF Released
  <2> QED BY <2>1, <2>2
<1>6. NothingAfterRevocation' /\ NothingRemembered'
  BY <1>1 DEF RetrievalInv, NothingAfterRevocation, NothingRemembered
<1> QED BY <1>3, <1>4, <1>5, <1>6 DEF RetrievalInv

LEMMA InvInit == ASSUME Init PROVE RetrievalInv
<1>1. RowsTyped /\ OneGrant BY DEF Init, RowsTyped, OneGrant
<1>2. Tracked BY DEF Init, Tracked, Nothing
<1>3. BarredEnded /\ Released /\ NothingAfterRevocation /\ NothingRemembered
  BY DEF Init, BarredEnded, Released, NothingAfterRevocation, NothingRemembered
<1> QED BY <1>1, <1>2, <1>3 DEF RetrievalInv

LEMMA InvStep == ASSUME RetrievalInv, RetrievalAssumption, [Next]_vars PROVE RetrievalInv'
<1>1. CASE Worker
  BY <1>1, ClaimStep, ReleaseStep, SendStep, PreflightStep, BeginStep, UseStep, QueryStep,
     FinalStep, FailStep DEF Worker, SendFails
<1>2. CASE Restart BY <1>2, QuietStep DEF Restart, Quiet, turns
<1>3. CASE ChangeAccess BY <1>3, QuietStep DEF ChangeAccess, Quiet, grantVars, turns
<1>4. CASE \E r \in Requests : Approve(r)
  BY <1>4, QuietStep DEF Approve, Quiet, grantVars, turns
<1>5. CASE \E n \in Nonces : BindGrant(n)
  BY <1>5, QuietStep DEF BindGrant, Quiet, turns
<1>6. CASE \E n \in Nonces : StoreGrant(n) BY <1>6, StoreGrantStep
<1>7. CASE \E n \in Nonces : Revoke(n) \/ Expire(n) BY <1>7, EndStep
<1>8. CASE UNCHANGED vars
  BY <1>8 DEF vars, grantVars, turns, RetrievalInv, RowsTyped, OneGrant, Tracked,
     BarredEnded, Released, NothingAfterRevocation, NothingRemembered
<1> QED BY <1>1, <1>2, <1>3, <1>4, <1>5, <1>6, <1>7, <1>8 DEF Next

\* In every instance the invariant holds.
THEOREM RetrievalInvHolds == Spec => []RetrievalInv
<1>1. Init => RetrievalInv BY InvInit
<1>2. RetrievalInv /\ [Next]_vars => RetrievalInv' BY InvStep, RetrievalAssumption
<1> QED BY <1>1, <1>2, PTL DEF Spec

\* What was retrieved under a used grant that was revoked or ran out goes neither to
\* the provider nor into an answer, unless the call had passed its check before, for
\* any number of calls, grants, revocations and restarts (aiVaultRelease,
\* aiVaultValidateFinal).
THEOREM NothingAfterRevocationHolds == Spec => []NothingAfterRevocation
<1>1. RetrievalInv => NothingAfterRevocation BY DEF RetrievalInv
<1> QED BY <1>1, RetrievalInvHolds, PTL

\* What was retrieved stays out of the context of later tasks (aiVaultContextFilter).
THEOREM NothingRememberedHolds == Spec => []NothingRemembered
<1>1. RetrievalInv => NothingRemembered BY DEF RetrievalInv
<1> QED BY <1>1, RetrievalInvHolds, PTL

=============================================================================
