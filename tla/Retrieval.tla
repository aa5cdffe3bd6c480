------------------------------ MODULE Retrieval ------------------------------
(***************************************************************************)
(* Retrieval from the encrypted AI storage (internal/modules/ai_storage.go)*)
(* by the conversation of one AI task (ai_policy_runtime.go).              *)
(*                                                                         *)
(* A storage tool call needs two things that arrive in either order: the   *)
(* approval of its policy request, and a signed grant, which management    *)
(* puts and may revoke by its nonce at any time, before the grant is put   *)
(* too.  What was retrieved may go to the provider and into the answer     *)
(* only while its grants stand.  The requests of a conversation are        *)
(* numbered in the order of its calls.  Its turns and its boundary are     *)
(* saved with a request that waits, so that they outlive a restart then.   *)
(* A resource that is absent, or of another owner than the task's, cannot  *)
(* be read; one that is not shared only in a direct chat of two.           *)
(*                                                                         *)
(* Definitions named Mut... are wrong variants of the definition they      *)
(* precede; no specification uses them (see the README).                   *)
(***************************************************************************)
EXTENDS Integers, FiniteSets

CONSTANTS
  MaxCalls,    \* storage calls of the conversation
  Nonces,
  RequestOf,   \* the request that the token with a nonce is bound to
  Resource,    \* the resource of a request's tool
  MaxAdmin,    \* bound on revocations, expiries and changes of members and resources
  MaxFaults    \* bound on restarts

Requests  == 1..MaxCalls
Resources == {Resource[r] : r \in Requests}
Labels    == {"shared", "own", "foreign"}

ASSUME RetrievalAssumption ==
  /\ MaxCalls \in Nat /\ MaxAdmin \in Nat /\ MaxFaults \in Nat
  /\ RequestOf \in [Nonces -> Requests]
  /\ DOMAIN Resource = Requests

VARIABLES
  task,      \* status of the task; "uncertain" stands for failed too
  req,       \* status of the policy request of a call
  row,       \* rows of ai_storage_grants, by nonce: "none", "granted" or "used"
  revoked,   \* nonces in ai_storage_revocations
  expired,   \* nonces of grants past their end
  binding,   \* nonces whose token was found to match its request
  label,     \* scope and owner of a resource, or "absent"
  private,   \* whether the chat is a direct one of two members
  allowed,   \* whether the task's members and devices stand
  at,        \* step of the worker
  call,      \* the call in turn
  boundary,  \* of the conversation: its label and the requests retrieved
  data,      \* the requests whose results are in the turns
  out,       \* the requests whose results the last step let out
  barred,    \* history: used grants that ended, no release being under way
  context,   \* the requests whose results the session's context keeps
  admin, faults

grantVars == <<row, revoked, expired, binding>>
aclVars   == <<label, private, allowed>>
turns     == <<call, boundary, data>>
vars == <<task, req, grantVars, aclVars, at, turns, out, barred, context, admin, faults>>

Nothing == [label |-> "none", reqs |-> {}]

Init ==
  /\ task = "queued" /\ req = [r \in Requests |-> "none"]
  /\ row = [n \in Nonces |-> "none"] /\ revoked = {} /\ expired = {} /\ binding = {}
  /\ label \in [Resources -> {"shared", "own"}] /\ private = TRUE /\ allowed = TRUE
  /\ at = "idle" /\ call = 1 /\ boundary = Nothing /\ data = {}
  /\ out = {} /\ barred = {} /\ context = {} /\ admin = 0 /\ faults = 0

-----------------------------------------------------------------------------
Of(r) == {n \in Nonces : RequestOf[n] = r /\ row[n] # "none"}

MutStanding(r, states) == \E n \in Of(r) : row[n] \in states /\ n \notin expired

\* vaultClaimsTx, and whether the grant is used.
Standing(r, states) ==
  \E n \in Of(r) : row[n] \in states /\ n \notin revoked /\ n \notin expired

\* vaultResourceAuthorized.
Readable(s) == label[s] = "shared" \/ (label[s] = "own" /\ private)

\* aiVaultRelease.
MayRelease ==
  boundary = Nothing \/
  /\ allowed
  /\ \A r \in boundary.reqs :
       /\ Standing(r, {"used"}) /\ Readable(Resource[r])
       /\ label[Resource[r]] = boundary.label

-----------------------------------------------------------------------------
(* The worker.                                                             *)

Quiet == out' = {} /\ UNCHANGED <<barred, context>>

Claim ==
  /\ task = "queued" /\ at = "idle"
  /\ task' = "running"
  /\ at' = IF req[call] = "none" THEN "provider" ELSE "tool"
  /\ Quiet /\ UNCHANGED <<req, grantVars, aclVars, turns, admin, faults>>

Fail(statuses) ==
  /\ task' = "uncertain" /\ at' = "idle"
  /\ req' = statuses
  /\ Quiet /\ UNCHANGED <<grantVars, aclVars, turns, admin, faults>>

Move(step) == at' = step /\ Quiet /\ UNCHANGED <<task, req, grantVars, aclVars, turns, admin, faults>>

\* Before a provider call, and before a tool.
Release ==
  \/ at = "provider" /\ MayRelease /\ Move("send")
  \/ at = "tool" /\ MayRelease /\ Move("preflight")
  \/ at \in {"provider", "tool"} /\ ~MayRelease /\ Fail(req)

\* The turns go to the provider; it asks for the next call, or answers.
Send ==
  /\ at = "send" /\ allowed
  /\ out' = data
  /\ at' \in {"tool", "final"} /\ (at' = "tool" => call <= MaxCalls)
  /\ UNCHANGED <<task, req, grantVars, aclVars, turns, barred, context, admin, faults>>

SendFails == at = "send" /\ ~allowed /\ Fail(req)

MustWait(r) == req[r] = "approved" /\ Of(r) = {}

\* The task goes back to waiting; the worker is released.
Await == task' = "awaiting" /\ at' = "idle"

\* aiVaultPreflight: approved, but no grant yet.
Preflight ==
  /\ at = "preflight"
  /\ \/ ~MustWait(call) /\ Move("begin")
     \/ /\ MustWait(call) /\ Await
        /\ Quiet /\ UNCHANGED <<req, grantVars, aclVars, turns, admin, faults>>

\* aiPolicyBegin of a storage tool, which always needs an approval.
Begin ==
  /\ at = "begin"
  /\ \/ /\ allowed /\ req[call] = "none"
        /\ Await /\ req' = [req EXCEPT ![call] = "awaiting"]
        /\ Quiet /\ UNCHANGED <<grantVars, aclVars, turns, admin, faults>>
     \/ /\ allowed /\ req[call] = "approved"
        /\ at' = "use" /\ req' = [req EXCEPT ![call] = "dispatched"]
        /\ Quiet /\ UNCHANGED <<task, grantVars, aclVars, turns, admin, faults>>
     \/ ~(allowed /\ req[call] \in {"none", "approved"}) /\ Fail(req)

\* What aiVaultTool checks in its transaction.
MayUse ==
  /\ allowed /\ Standing(call, {"granted"}) /\ Readable(Resource[call])
  /\ boundary = Nothing \/ boundary.label = label[Resource[call]]

Lost == [req EXCEPT ![call] = "uncertain"]

\* aiVaultTool: the grant is consumed before the query.
Use ==
  /\ at = "use"
  /\ \/ /\ MayUse
        /\ row' = [n \in Nonces |-> IF n \in Of(call) THEN "used" ELSE row[n]]
        /\ boundary' = [label |-> label[Resource[call]], reqs |-> boundary.reqs \cup {call}]
        /\ at' = "query"
        /\ Quiet /\ UNCHANGED <<task, req, revoked, expired, binding, aclVars, call, data, admin, faults>>
     \/ ~MayUse /\ Fail(Lost)

\* vaultQuery, and the settlement of the request.
Query ==
  /\ at = "query"
  /\ \/ /\ label[Resource[call]] # "absent"
        /\ data' = data \cup {call} /\ req' = [req EXCEPT ![call] = "completed"]
        /\ call' = call + 1
        /\ at' \in {"tool", "provider"} /\ (at' = "tool" => call' <= MaxCalls)
        /\ Quiet /\ UNCHANGED <<task, grantVars, aclVars, boundary, admin, faults>>
     \/ label[Resource[call]] = "absent" /\ Fail(Lost)

Retrieved == {r \in Requests : \E n \in Of(r) : row[n] = "used"}

MutKept == data

\* aiVaultContextFilter: the turns of a task that used a grant are dropped.
Kept == IF Retrieved # {} THEN {} ELSE data

\* aiVaultValidateFinal, in the transaction that stores the answer.
MayAnswer ==
  /\ allowed
  /\ \A r \in Retrieved : Standing(r, {"used"}) /\ Readable(Resource[r])

\* The worker of a task whose answer is refused ends it, and the worker of a direct
\* job leaves it running when the refusal is the storage's (ai.go:878).
Final ==
  /\ at = "final"
  /\ \/ /\ MayAnswer
        /\ task' = "succeeded" /\ at' = "idle" /\ out' = data /\ context' = Kept
        /\ UNCHANGED <<req, grantVars, aclVars, turns, barred, admin, faults>>
     \/ ~MayAnswer /\ Fail(req)
     \/ ~MayAnswer /\ Retrieved # {} /\ Move("idle")

Worker ==
  \/ Claim \/ Release \/ Send \/ SendFails \/ Preflight \/ Begin \/ Use \/ Query \/ Final

-----------------------------------------------------------------------------
(* Management, time and restarts.                                          *)

\* aiPolicyApprove.
Approve(r) ==
  /\ req[r] = "awaiting" /\ task = "awaiting" /\ allowed
  /\ req' = [req EXCEPT ![r] = "approved"] /\ task' = "queued"
  /\ Quiet /\ UNCHANGED <<grantVars, aclVars, at, turns, admin, faults>>

\* aiVaultGrant up to its transaction: vaultRequestBinding.
BindGrant(n) ==
  /\ req[RequestOf[n]] \in {"awaiting", "approved"} /\ n \notin expired \cup binding
  /\ task \in {"awaiting", "queued", "running"} /\ allowed /\ Readable(Resource[RequestOf[n]])
  /\ binding' = binding \cup {n}
  /\ Quiet /\ UNCHANGED <<task, req, row, revoked, expired, aclVars, at, turns, admin, faults>>

MutWaits(r) == task = "awaiting" /\ req[r] = "awaiting"

\* The task waited only for this grant.
Waits(r) == task = "awaiting" /\ req[r] = "approved"

\* aiVaultGrant: a nonce that is revoked, or a second grant of a request, is refused.
StoreGrant(n) ==
  LET r == RequestOf[n] IN
  /\ n \in binding /\ binding' = binding \ {n}
  /\ IF n \notin revoked /\ Of(r) = {}
       THEN /\ row' = [row EXCEPT ![n] = "granted"]
            /\ task' = IF Waits(r) THEN "queued" ELSE task
       ELSE UNCHANGED <<row, task>>
  /\ Quiet /\ UNCHANGED <<req, revoked, expired, aclVars, at, turns, admin, faults>>

Change == admin < MaxAdmin /\ admin' = admin + 1

\* A release that was checked before goes on: the call is under way.
Bar(n) ==
  barred' = IF row[n] = "used" /\ at # "send" THEN barred \cup {RequestOf[n]} ELSE barred

Ends(n) ==
  /\ Change /\ Bar(n)
  /\ out' = {}
  /\ UNCHANGED <<task, req, row, binding, aclVars, at, turns, context, faults>>

Revoke(n) == Ends(n) /\ n \notin revoked /\ revoked' = revoked \cup {n} /\ UNCHANGED expired
Expire(n) == Ends(n) /\ n \notin expired /\ expired' = expired \cup {n} /\ UNCHANGED revoked

ChangeAccess ==
  /\ Change
  /\ \/ private' = ~private /\ UNCHANGED <<label, allowed>>
     \/ allowed /\ allowed' = FALSE /\ UNCHANGED <<label, private>>
     \/ \E s \in Resources :
          /\ label' \in {[label EXCEPT ![s] = l] :
               l \in IF label[s] = "absent" THEN Labels ELSE {"absent"}}
          /\ UNCHANGED <<private, allowed>>
  /\ Quiet /\ UNCHANGED <<task, req, grantVars, at, turns, faults>>

Fault == faults < MaxFaults /\ faults' = faults + 1

\* A restart: what was running may have had an effect, and is not run again.
Restart ==
  /\ Fault
  /\ task' = IF task = "running" THEN "uncertain" ELSE task
  /\ req' = [r \in Requests |-> IF req[r] = "dispatched" THEN "uncertain" ELSE req[r]]
  /\ at' = "idle"
  /\ binding' = {}
  /\ Quiet /\ UNCHANGED <<row, revoked, expired, aclVars, turns, admin>>

Next ==
  \/ Worker \/ Restart \/ ChangeAccess
  \/ \E r \in Requests : Approve(r)
  \/ \E n \in Nonces : BindGrant(n) \/ StoreGrant(n) \/ Revoke(n) \/ Expire(n)

Spec == Init /\ [][Next]_vars
FairSpec == Spec /\ WF_vars(Worker)

-----------------------------------------------------------------------------
(* Properties.                                                             *)

\* Whichever of the approval and the grant comes last, the worker gets to the
\* call: the task does not go on waiting for what it has (ai_storage.go:326,
\* 349).
BothServed ==
  \A r \in Requests :
    (req[r] = "approved" /\ Of(r) # {}) ~> (req[r] # "approved" \/ task = "uncertain")

\* After a used grant was revoked or ran out, what it retrieved goes neither to
\* the provider nor into the answer, also of a conversation that waited and was
\* resumed in between; only a call that had passed its check goes on
\* (ai_storage.go:467, 507).
NothingAfterRevocation == out \cap barred = {}

\* Nothing that was retrieved stays in the context of later tasks
\* (ai_storage.go:499).
NothingRemembered == context = {}
=============================================================================
