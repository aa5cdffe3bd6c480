------------------------------- MODULE Policy -------------------------------
(***************************************************************************)
(* The policy gateway of AI effects (internal/modules/ai_policy*.go) on    *)
(* top of the jobs of module Tasks: every provider call and every tool of  *)
(* a conversation is a request, which may need an approval, reserves money *)
(* of daily accounts before it is sent, and is settled after it.           *)
(*                                                                         *)
(* An effect is <<task, step, action>>: its id in the code is the hash of  *)
(* these, so that a conversation that is resumed begins the same request   *)
(* again.  The continuation saved with a request is the place of the       *)
(* effect and the set of messages its turns come from.  A token is bound   *)
(* to one request; its nonce may be revoked before or after it is used.    *)
(* Bot and source-user accounts are one account per session here, next to  *)
(* the global one.                                                         *)
(***************************************************************************)
EXTENDS Tasks

CONSTANTS
  Required,   \* the actions that need an approval
  Reserve,    \* reservation of a provider call
  ToolCost,   \* fixed cost of a tool
  Costs,      \* what a provider call may turn out to cost
  GlobalCap, UserCap, \* daily budgets; 0: none
  MaxDay

Actions == {"provider", "tool"}
Effects == Tasks \X (0..(MaxSteps - 1)) \X Actions
Scopes  == {"global"} \cup Sessions
Days    == 0..MaxDay

ASSUME PolicyAssumption ==
  /\ Required \subseteq Actions
  /\ Reserve \in Nat /\ ToolCost \in Nat /\ Costs \subseteq Nat /\ Costs # {}
  /\ GlobalCap \in Nat /\ UserCap \in Nat /\ MaxDay \in Nat
  /\ "global" \notin Sessions

VARIABLES
  req,       \* status of the request of an effect
  saved,     \* the messages in its continuation; {} when scrubbed
  bound,     \* session version and epoch it was made with
  overdue,   \* requests past expires_at
  grant,     \* "none", "valid" or "used"
  revoked,   \* requests whose nonce is revoked
  ledger,    \* its ledger rows: [day, reserved, cost]
  account,   \* of each scope and day: [used, reserved]
  day,
  sent       \* history: how often an effect was handed out to be sent

reqVars == <<req, saved, bound, overdue, grant, revoked>>
moneyVars == <<ledger, account, day>>
polVars == <<reqVars, moneyVars, sent>>
pvars == <<vars, polVars>>

Out == {"dispatched", "uncertain", "completed"}
Open == {"awaiting", "approved"}
NoRow == [day |-> 0, reserved |-> 0, cost |-> 0]

PInit ==
  /\ Init
  /\ req = [e \in Effects |-> "none"] /\ saved = [e \in Effects |-> {}]
  /\ bound = [e \in Effects |-> <<0, 0>>]
  /\ overdue = {} /\ grant = [e \in Effects |-> "none"] /\ revoked = {}
  /\ ledger = [e \in Effects |-> NoRow]
  /\ account = [a \in Scopes \X Days |-> [used |-> 0, reserved |-> 0]]
  /\ day = 0 /\ sent = [e \in Effects |-> 0]

-----------------------------------------------------------------------------
Of(t) == {e \in Effects : e[1] = t}
Binding(t) == <<version[SessionOf[t]], epoch>>
Approved(t) == {e \in Of(t) : req[e] = "approved"}

\* aiPolicySaved: a task with requests goes on only from an approved one whose
\* continuation still fits.
Fresh(t) == \A e \in Of(t) : req[e] = "none"
Resumable(t) == {e \in Approved(t) : Authorized(t) /\ bound[e] = Binding(t)}
SavedOK(t) == Fresh(t) \/ Resumable(t) # {}

\* aiNextWith with the policy: a continuation that cannot be loaded leaves the job
\* queued, at the head of every queue.
PolicyClaimDirect(w) ==
  /\ \E t \in NextJobs :
       /\ SavedOK(t)
       /\ ClaimJob(w, t, IF Fresh(t) THEN context[SessionOf[t]] \cup {t}
                         ELSE UNION {saved[e] : e \in Resumable(t)})
  /\ UNCHANGED polVars

-----------------------------------------------------------------------------
(* The conversation.                                                        *)

Place(action) == IF action = "provider" THEN "loop" ELSE "tools"
Effect(w) == <<wk[w].job, wk[w].step, IF wk[w].at \in {"loop", "calling"} THEN "provider" ELSE "tool">>

\* runAIPolicyConversation, up to its loop: a new conversation starts with the
\* provider, a saved one before the effect that was approved.
Enter(w) ==
  LET t == wk[w].job IN
  /\ At(w, "check")
  /\ \/ /\ EffectsAllowed(t) /\ Fresh(t)
        /\ wk' = [wk EXCEPT ![w].at = "loop", ![w].ver = version[SessionOf[t]]]
        /\ UNCHANGED <<status, active, faults>>
     \/ /\ EffectsAllowed(t)
        /\ \E e \in Resumable(t) :
             wk' = [wk EXCEPT ![w].at = Place(e[3]), ![w].step = e[2],
                              ![w].ver = version[SessionOf[t]]]
        /\ UNCHANGED <<status, active, faults>>
     \/ ~(EffectsAllowed(t) /\ SavedOK(t)) /\ GiveUp(w, "uncertain")
  /\ UNCHANGED <<kind, context, version, agents, aclVars, outVars, runs, admin, polVars>>

Price(e) == IF e[3] = "tool" THEN ToolCost ELSE Reserve
ScopesOf(e) == {"global", SessionOf[e[1]]}
Cap(scope) == IF scope = "global" THEN GlobalCap ELSE UserCap

MutAffordable(e) ==
  \A scope \in ScopesOf(e) :
    Cap(scope) > 0 => account[<<scope, day>>].used + Price(e) <= Cap(scope)

\* aiPolicyReserveTx: what is used and reserved today, and this effect, fit.
Affordable(e) ==
  \A scope \in ScopesOf(e) :
    Cap(scope) > 0 =>
      account[<<scope, day>>].used + account[<<scope, day>>].reserved + Price(e) <= Cap(scope)

MutGranted(e) == e[3] \in Required => grant[e] = "valid"

\* A required approval is consumed by the dispatch, unless its nonce is revoked.
Granted(e) == e[3] \in Required => grant[e] = "valid" /\ e \notin revoked

MayBegin(w) ==
  /\ EffectsAllowed(wk[w].job)
  /\ version[SessionOf[wk[w].job]] = wk[w].ver /\ epoch = wk[w].epoch

\* aiPolicyBegin of an effect that needs an approval it does not have yet: the
\* continuation is saved and the task waits; its conversation is still in the map.
Ask(w) ==
  LET e == Effect(w) IN
  /\ wk[w].at \in {"loop", "tools"} /\ MayBegin(w)
  /\ req[e] = "none" /\ e[3] \in Required
  /\ req' = [req EXCEPT ![e] = "awaiting"]
  /\ saved' = [saved EXCEPT ![e] = wk[w].turns]
  /\ bound' = [bound EXCEPT ![e] = Binding(e[1])]
  /\ status' = [status EXCEPT ![e[1]] = "awaiting"]
  /\ Go(w, "leaving")
  /\ UNCHANGED <<kind, context, version, agents, aclVars, outVars, active, runs, admin, faults,
                 overdue, grant, revoked, moneyVars, sent>>

\* The conversation returns ErrAIApprovalPending and the worker is released; the
\* approval may have come before.
Leave(w) ==
  /\ At(w, "leaving") /\ LetGo(w)
  /\ UNCHANGED <<kind, jobVars, aclVars, outVars, runs, admin, faults, polVars>>

\* Only a request that is new or approved is dispatched; others are never sent again.
Replayable(e) == req[e] = "approved" /\ e \notin overdue

Dispatchable(e) ==
  /\ IF e[3] \in Required THEN Replayable(e) ELSE req[e] = "none" \/ Replayable(e)
  /\ Granted(e) /\ Affordable(e)

\* aiPolicyBegin and aiPolicyDispatchTx: grant, reservation and intent commit together.
Dispatch(w) ==
  LET e == Effect(w) IN
  /\ wk[w].at \in {"loop", "tools"} /\ MayBegin(w) /\ Dispatchable(e)
  /\ req' = [req EXCEPT ![e] = "dispatched"]
  /\ saved' = [saved EXCEPT ![e] = IF req[e] = "none" THEN wk[w].turns ELSE @]
  /\ bound' = [bound EXCEPT ![e] = IF req[e] = "none" THEN Binding(e[1]) ELSE @]
  /\ grant' = [grant EXCEPT ![e] = IF e[3] \in Required THEN "used" ELSE @]
  /\ ledger' = [ledger EXCEPT ![e] = [day |-> day, reserved |-> Price(e), cost |-> 0]]
  /\ account' = [a \in Scopes \X Days |->
       IF a[1] \in ScopesOf(e) /\ a[2] = day
         THEN [account[a] EXCEPT !.reserved = @ + Price(e)] ELSE account[a]]
  /\ sent' = [sent EXCEPT ![e] = @ + 1]
  /\ Go(w, IF e[3] = "provider" THEN "calling" ELSE "using")
  /\ UNCHANGED <<kind, jobVars, aclVars, outVars, active, runs, admin, faults,
                 overdue, revoked, day>>

\* Access, request, grant or budget refuses, or the store fails.  A token may be
\* past its own end before its request is.
TokenLapsed(e) == e[3] \in Required

Refused(w) ==
  /\ wk[w].at \in {"loop", "tools"}
  /\ (MayBegin(w) /\ Effect(w)[3] \in Required) => req[Effect(w)] # "none"
  /\ \/ /\ ~(MayBegin(w) /\ Dispatchable(Effect(w))) \/ TokenLapsed(Effect(w))
        /\ GiveUp(w, "uncertain")
     \/ StoreFails(w)
  /\ UNCHANGED <<kind, context, version, agents, aclVars, outVars, runs, admin, polVars>>

\* The rows of the day of the reservation are settled, not those of today.
Settled(e, cost) ==
  account' = [a \in Scopes \X Days |->
    IF a[1] \in ScopesOf(e) /\ a[2] = ledger[e].day
      THEN [used |-> account[a].used + cost, reserved |-> account[a].reserved - ledger[e].reserved]
      ELSE account[a]]

\* aiPolicySettle with a known result: a tool costs what was reserved.
Settle(w, cost) ==
  LET e == Effect(w) IN
  /\ req[e] = "dispatched" /\ (e[3] = "tool" => cost = ToolCost)
  /\ req' = [req EXCEPT ![e] = "completed"]
  /\ ledger' = [ledger EXCEPT ![e].reserved = 0, ![e].cost = cost]
  /\ Settled(e, cost)

\* A result that is unknown keeps the reservation.
Unsettled(w) ==
  req' = [req EXCEPT ![Effect(w)] = "uncertain"] /\ UNCHANGED <<ledger, account>>

\* The call succeeds; provider usage may be missing.  Then it was the answer, or
\* tools follow, or the next step.
Succeed(w) ==
  /\ wk[w].at \in {"calling", "using"}
  /\ \/ \E cost \in Costs \cup {ToolCost} :
          (wk[w].at = "calling" => cost \in Costs) /\ Settle(w, cost)
     \/ wk[w].at = "calling" /\ Unsettled(w)
  /\ \/ /\ wk[w].at = "calling" /\ Go(w, "answer") /\ active' = active \ {wk[w].job}
        /\ UNCHANGED <<status, faults>>
     \/ /\ wk[w].at = "calling" /\ Go(w, "tools") /\ UNCHANGED <<status, active, faults>>
     \/ /\ wk[w].at = "using" /\ wk[w].step + 1 < MaxSteps
        /\ wk' = [wk EXCEPT ![w].at = "loop", ![w].step = @ + 1]
        /\ UNCHANGED <<status, active, faults>>
     \/ /\ wk[w].at = "using" /\ wk[w].step + 1 = MaxSteps /\ GiveUp(w, "uncertain")
  /\ UNCHANGED <<kind, context, version, agents, aclVars, outVars, runs, admin,
                 saved, bound, overdue, grant, revoked, day, sent>>

\* The call fails, or its settlement cannot be written.
CallFails(w) ==
  /\ wk[w].at \in {"calling", "using"}
  /\ \/ Unsettled(w) /\ GiveUp(w, "uncertain")
     \/ StoreFails(w) /\ UNCHANGED <<req, ledger, account>>
  /\ UNCHANGED <<kind, context, version, agents, aclVars, outVars, runs, admin,
                 saved, bound, overdue, grant, revoked, day, sent>>

-----------------------------------------------------------------------------
(* The management backend, time and restarts.                               *)

Approvable(e) == req[e] = "awaiting"

\* aiPolicyApprove with a token that matches; the same token again changes nothing.
Approve(e) ==
  /\ Approvable(e) /\ e \notin overdue /\ e \notin revoked
  /\ status[e[1]] = "awaiting" /\ Authorized(e[1]) /\ bound[e][2] = epoch
  /\ grant' = [grant EXCEPT ![e] = "valid"]
  /\ req' = [req EXCEPT ![e] = "approved"]
  /\ status' = [status EXCEPT ![e[1]] = "queued"]
  /\ UNCHANGED <<kind, context, version, agents, aclVars, outVars, wk, active, runs, admin, faults,
                 saved, bound, overdue, revoked, moneyVars, sent>>

\* aiPolicyRevoke, of a nonce used or not.
Revoke(e) ==
  /\ Admin /\ e[3] \in Required /\ e \notin revoked
  /\ revoked' = revoked \cup {e}
  /\ UNCHANGED <<kind, jobVars, aclVars, outVars, wk, active, runs, faults,
                 req, saved, bound, overdue, grant, moneyVars, sent>>

PassTime(e) ==
  /\ req[e] \in Open /\ e \notin overdue /\ overdue' = overdue \cup {e}
  /\ UNCHANGED <<vars, req, saved, bound, grant, revoked, moneyVars, sent>>

NextDay ==
  /\ day < MaxDay /\ day' = day + 1
  /\ UNCHANGED <<vars, reqVars, ledger, account, sent>>

Scrub(es) == saved' = [e \in Effects |-> IF e \in es THEN {} ELSE saved[e]]
Close(es, new) == req' = [e \in Effects |-> IF e \in es THEN new ELSE req[e]]

MutReleased(st) == st
Released(st) == IF st \in {"queued", "awaiting"} THEN "failed" ELSE st

\* aiPolicyCleanupExpired: the queue behind an approval that never came moves on.
CleanupExpired ==
  LET gone == {e \in overdue : req[e] \in Open} IN
  /\ gone # {}
  /\ Close(gone, "expired") /\ Scrub(gone)
  /\ status' = [t \in Tasks |-> IF gone \cap Of(t) # {} THEN Released(status[t]) ELSE status[t]]
  /\ UNCHANGED <<kind, context, version, agents, aclVars, outVars, wk, active, runs, admin, faults,
                 bound, overdue, grant, revoked, moneyVars, sent>>

MutScrubbed(t) == {}
Scrubbed(t) == {e \in Effects : SessionOf[e[1]] \in ChatOf(t)}

\* The OnDelete hook of the policy, in the transaction of the deletion.
PolicyDelete(t) ==
  /\ Delete(t)
  /\ Scrub(Scrubbed(t))
  /\ Close({e \in Effects : SessionOf[e[1]] \in ChatOf(t) /\ req[e] \in Open}, "cancelled")
  /\ UNCHANGED <<bound, overdue, grant, revoked, moneyVars, sent>>

MutUnknown == {e \in Effects : req[e] \in Out}
Unknown == {e \in Effects : req[e] = "dispatched"}

\* installAIPolicy: what was dispatched may have been sent, and is not sent again.
PolicyRestart ==
  /\ Restart
  /\ Close(Unknown, "uncertain")
  /\ UNCHANGED <<saved, bound, overdue, grant, revoked, moneyVars, sent>>

PolicyTalk(w) == Enter(w) \/ Ask(w) \/ Leave(w) \/ Dispatch(w) \/ Refused(w) \/ Succeed(w) \/ CallFails(w)
PolicyLife(w) == PolicyClaimDirect(w) \/ (LifeOf(w) /\ UNCHANGED polVars) \/ PolicyTalk(w)

PNext ==
  \/ \E w \in Workers : PolicyLife(w)
  \/ Others /\ UNCHANGED polVars
  \/ \E e \in Effects : Approve(e) \/ Revoke(e) \/ PassTime(e)
  \/ NextDay \/ CleanupExpired \/ PolicyRestart
  \/ \E t \in Tasks : PolicyDelete(t)

PSpec == PInit /\ [][PNext]_pvars

\* Workers and the cleanup of core tick, calls end, and time passes; nobody has to
\* approve anything.
PFairness ==
  /\ \A w \in Workers : WF_pvars(PolicyLife(w))
  /\ \A e \in Effects : WF_pvars(PassTime(e))
  /\ WF_pvars(CleanupExpired)
PFairSpec == PSpec /\ PFairness

-----------------------------------------------------------------------------
(* Properties.                                                              *)

PTypeOK ==
  /\ TypeOK
  /\ req \in [Effects -> {"none", "expired", "cancelled"} \cup Open \cup Out]
  /\ saved \in [Effects -> SUBSET Tasks] /\ bound \in [Effects -> Nat \X Nat]
  /\ overdue \subseteq Effects /\ revoked \subseteq Effects
  /\ grant \in [Effects -> {"none", "valid", "used"}]
  /\ ledger \in [Effects -> [day : Days, reserved : Nat, cost : Nat]]
  /\ account \in [Scopes \X Days -> [used : Nat, reserved : Nat]]
  /\ day \in Days /\ sent \in [Effects -> Nat]

\* An effect is handed to the network at most once, however often its conversation
\* is resumed, its worker dies or its approval is repeated.  It follows from
\* ExecutesEffects.
SentOnce == \A e \in Effects : sent[e] <= 1

\* Once the nonce of an effect that was not sent is revoked, it is never sent.
RevokedNeverSent ==
  [][\A e \in revoked : req[e] \notin Out => req'[e] \notin Out]_pvars

\* The sum of natural amounts over a finite set: a pile of that many units of each.
Pile(es, amount) == UNION {{e} \X (1..amount[e]) : e \in es}
Total(es, amount) == Cardinality(Pile(es, amount))

Reserved == [e \in Effects |-> ledger[e].reserved]
Cost     == [e \in Effects |-> ledger[e].cost]
Excess   == [e \in Effects |-> IF ledger[e].cost > Price(e) THEN ledger[e].cost - Price(e) ELSE 0]
Rows(scope, d) ==
  {e \in Effects : req[e] \in Out /\ scope \in ScopesOf(e) /\ ledger[e].day = d}

\* Every account holds exactly what the ledger says of its day: reservations of
\* what is not settled, and the cost of what is; and it is over its cap only by
\* what settled costs exceeded their reservations.
Balanced ==
  \A scope \in Scopes, d \in Days :
    LET a == account[<<scope, d>>] rows == Rows(scope, d) IN
    /\ a.reserved = Total(rows, Reserved)
    /\ a.used = Total(rows, Cost)
    /\ Cap(scope) > 0 => a.used + a.reserved <= Cap(scope) + Total(rows, Excess)

\* No saved continuation holds a deleted message.
ContinuationsForgotten == \A e \in Effects : saved[e] \cap deleted = {}

\* A task that is queued, or waits for an approval that nobody gives, is finished, so
\* that it does not hold up its session, with the exceptions of QueueMoves.
PolicyQueueMoves == \A t \in Tasks :
  status[t] \in {"queued", "awaiting"} ~>
    \/ status[t] \in Finished
    \/ Named /\ ~NamedAuthorized(t)
    \/ \E s \in Sessions : Abandoned(s)

\* What the status of a request means for its effect.
Meaning(st) ==
  CASE st \in {"none"} \cup Open        -> "new"
    [] st \in {"expired", "cancelled"}  -> "refused"
    [] st = "dispatched"                -> "claimed"
    [] st = "completed"                 -> "done"
    [] st = "uncertain"                 -> "uncertain"

StateOf == [e \in Effects |-> Meaning(req[e])]

Gateway == INSTANCE Executor WITH Jobs <- Effects, From <- "new", state <- StateOf, handed <- sent

\* The gateway executes effects: what is dispatched is new, so nothing that was
\* refused, settled or left uncertain is sent, and an outcome, once recorded, is
\* never taken back, whatever restarts, expires or is deleted.
ExecutesEffects == Gateway!Spec
=============================================================================
