------------------------------ MODULE Endpoint ------------------------------
(***************************************************************************)
(* The micro-safer endpoint: a process of its own that polls the relay for *)
(* MLS messages of its one peer, runs the RPC requests they carry and      *)
(* answers them through a durable outbox.  It may die between any two      *)
(* transactions; frozen and everything else in memory is lost then.        *)
(*                                                                         *)
(* A request is a record of the constants: what Hash covers is its id,     *)
(* client and body; its handler follows from the body; nonce is that of    *)
(* the grant it carries, or 0.  A message is known by its place in the log of    *)
(* the relay, which is also its operation_id for the inbox.  The           *)
(* operation_id of a response is what responseOperationID digests.         *)
(*                                                                         *)
(* Definitions named Mut... are wrong variants of the definition they      *)
(* precede; no specification uses them (see the README).                   *)
(***************************************************************************)
EXTENDS Integers, FiniteSets, SequencesExt

CONSTANTS
  Requests,    \* [id, client, body, nonce, epoch]: epoch is the one the grant names
  HandlerOf,   \* of each body: "http", "mcp", "storage", "stream", "unknown", or what is
               \* wrong with it: "invalid" for Validate, or "empty"
  Approvals,   \* bodies whose handler requires approval
  MaxMessages, \* bound on messages of the peer
  MaxPending,  \* max_pending of the configuration
  PageLimit,   \* events of one page
  MaxFrames,   \* bound on delta frames of one stream
  MaxFaults    \* bound on crashes, failing calls and transactions, and changes of the epoch

Bodies  == {r.body : r \in Requests}
Clients == {r.client : r \in Requests}

ASSUME EndpointAssumption ==
  /\ Requests \subseteq [id : Nat \ {0}, client : Nat \ {0}, body : Nat \ {0}, nonce : Nat, epoch : Nat]
  /\ HandlerOf \in [Bodies -> {"http", "mcp", "storage", "stream", "unknown", "invalid", "empty"}]
  /\ Approvals \subseteq Bodies
  /\ MaxMessages \in Nat /\ MaxFrames \in Nat /\ MaxFaults \in Nat
  /\ MaxPending \in Nat \ {0} /\ PageLimit \in Nat \ {0}

VARIABLES
  log,      \* of the relay: messages of the peer and of the endpoint
  epoch, pending,               \* of the relay
  snap,     \* the stored MLS state: its epoch, generations sent and messages opened
  inbox,    \* of the messages received: [status, req]
  intents,  \* of the clients known: [id, body, status, answered]
  grants,   \* nonces consumed
  vault,    \* bodies whose grant of the vault is consumed
  outbox,   \* responses in the order they were stored
  cursor,   \* stored; 0 stands for the empty cursor
  mls,      \* the MLS state in memory
  at,       \* where the process is; "down" when it is not running
  item,     \* the message being processed
  back,     \* where its processing was called from: "drain" or "page"
  resp,     \* the response being persisted: [kind, seq]
  streamed, \* the sequence number of the last frame the stream has emitted
  pos, last, \* the page: the last message taken from it, and its last message
  frozen,
  effects,  \* history: the requests whose handler was called
  faults

relayVars == <<log, epoch, pending>>
store     == <<snap, inbox, intents, grants, vault, outbox, cursor>>
memory    == <<mls, at, item, back, resp, streamed, pos, last, frozen>>
vars == <<relayVars, store, memory, effects, faults>>

NoMLS     == [epoch |-> -2, sent |-> 0, opened |-> {}]
NoGroup   == [NoMLS EXCEPT !.epoch = -1] \* a key package, no group yet
Flush     == [kind |-> "flush", seq |-> 0]

Init ==
  /\ log = << >> /\ epoch = 0 /\ pending = FALSE
  /\ snap = NoMLS /\ inbox = << >> /\ intents = << >> /\ grants = {} /\ vault = {} /\ outbox = << >>
  /\ cursor = 0 /\ mls = NoMLS /\ at = "down" /\ item = 0 /\ back = "drain" /\ resp = Flush
  /\ streamed = 1 /\ pos = 0 /\ last = 0 /\ frozen = FALSE /\ effects = << >> /\ faults = 0

-----------------------------------------------------------------------------
Fault == faults < MaxFaults /\ faults' = faults + 1
FaultIf(c) == IF c THEN UNCHANGED faults ELSE Fault

\* The process ends and forgets what it had in memory.
Halt ==
  /\ at' = "down" /\ mls' = NoMLS /\ item' = 0 /\ back' = "drain" /\ resp' = Flush
  /\ streamed' = 1 /\ pos' = 0 /\ last' = 0 /\ frozen' = FALSE

Go(place) ==
  at' = place /\ UNCHANGED <<mls, item, back, resp, streamed, pos, last, frozen>>

\* verifyRelayState, of a relay that answers.
RelayAgrees == ~pending /\ mls.epoch = epoch

Request == inbox[item].req
OpOf(r, seq) == <<r.id, r.client, seq>>
Logged(op) == \E i \in DOMAIN log : log[i].from = "endpoint" /\ log[i].op = op
Stored(op) == \E i \in DOMAIN outbox : outbox[i].op = op
Unsent == {i \in DOMAIN outbox : ~outbox[i].sent}
Settle(status) == inbox' = [inbox EXCEPT ![item].status = status]

-----------------------------------------------------------------------------
(* The relay and the peer (external), and the operator.                     *)

PeerMessages == {i \in DOMAIN log : log[i].from = "peer"}

\* What the peer may send instead of a request: an envelope that the endpoint cannot
\* read, and a message it cannot decrypt.  The core checks neither.
Unreadable  == [id |-> 0, client |-> 0, body |-> 0, nonce |-> 0, epoch |-> 0]
Undecodable == [id |-> 0, client |-> 0, body |-> 0, nonce |-> 0, epoch |-> 1]

PeerSends(r) ==
  /\ ~pending /\ snap.epoch >= 0 /\ Cardinality(PeerMessages) < MaxMessages
  /\ log' = Append(log, [from |-> "peer", epoch |-> epoch, req |-> r])
  /\ UNCHANGED <<epoch, pending, store, memory, effects, faults>>

RelayRekeys ==
  /\ snap.epoch >= 0 /\ FaultIf(pending)
  /\ pending' = ~pending /\ epoch' = IF pending THEN epoch + 1 ELSE epoch
  /\ UNCHANGED <<log, store, memory, effects>>

\* Bootstrap refuses to replace a state.
Bootstrap ==
  /\ at = "down" /\ snap = NoMLS /\ snap' = NoGroup
  /\ UNCHANGED <<relayVars, inbox, intents, grants, vault, outbox, cursor, memory, effects, faults>>

\* JoinWelcome, offline, with a Welcome into the epoch of the relay that agrees
\* with the pins; nothing but the MLS state changes.  Join refuses a participant
\* that has a group: what has joined once never joins again.
JoinWelcome ==
  /\ at = "down" /\ snap = NoGroup /\ ~pending
  /\ snap' = [NoMLS EXCEPT !.epoch = epoch]
  /\ UNCHANGED <<relayVars, inbox, intents, grants, vault, outbox, cursor, memory, effects, faults>>

-----------------------------------------------------------------------------
(* Run: one turn of its loop.                                               *)

\* OpenRuntime; the operator starts a process that has ended.
Start ==
  /\ at = "down" /\ snap.epoch >= 0
  /\ mls' = snap /\ at' = "drain"
  /\ UNCHANGED <<relayVars, store, item, back, resp, streamed, pos, last, frozen, effects, faults>>

Crash == at # "down" /\ Fault /\ Halt /\ UNCHANGED <<relayVars, store, effects>>

\* drainInbox: the oldest message whose processing has not ended.
Waiting == {m \in DOMAIN inbox : inbox[m].status = "pending"}

DrainInbox ==
  /\ at = "drain"
  /\ IF Waiting = {} THEN Go("check")
     ELSE /\ item' = Min(Waiting) /\ back' = "drain" /\ at' = "rpc"
          /\ UNCHANGED <<mls, resp, streamed, pos, last, frozen>>
  /\ UNCHANGED <<relayVars, store, effects, faults>>

\* CheckMLS fails, or the relay's state is not the endpoint's: Run ends.
CheckFails == Halt /\ FaultIf(~RelayAgrees)

CheckRelay ==
  /\ at = "check"
  /\ \/ RelayAgrees /\ at' = "flush" /\ resp' = Flush /\ UNCHANGED faults
        /\ UNCHANGED <<mls, item, back, streamed, pos, last, frozen>>
     \/ CheckFails
  /\ UNCHANGED <<relayVars, store, effects>>

PageEnd == IF Len(log) = cursor THEN 0 ELSE Min({Len(log), cursor + PageLimit})

\* The relay cannot be reached, refuses, or answers with what cannot be read.
PollFails == Halt /\ Fault

\* Poll: a page of the events after the cursor.  The cursor of an empty page is
\* the empty cursor.
Poll ==
  /\ at = "poll"
  /\ \/ /\ last' = PageEnd
        /\ pos' = IF Len(log) = cursor THEN 0 ELSE cursor
        /\ at' = "page" /\ UNCHANGED <<mls, item, back, resp, streamed, frozen, faults>>
     \/ PollFails
  /\ UNCHANGED <<relayVars, store, effects>>

Taken(place) ==
  at' = place /\ pos' = pos + 1 /\ UNCHANGED <<mls, back, resp, streamed, last, frozen>>

\* receive ignores the echo of the endpoint's own message, and a message whose
\* processing has ended; drainInbox has left no other in the inbox.
Skip ==
  /\ at = "page" /\ pos < last
  /\ LET m == pos + 1 IN
       \/ log[m].from = "endpoint"
       \/ log[m].epoch = mls.epoch /\ m \in DOMAIN inbox \ Waiting
  /\ Taken("page") /\ item' = item /\ UNCHANGED <<relayVars, store, effects, faults>>

InboxFull == Cardinality(DOMAIN inbox) >= 4 * MaxPending \/ Cardinality(Waiting) >= MaxPending

MutReceived(m, req) ==
  /\ snap' = [mls EXCEPT !.opened = @ \cup {i \in PeerMessages : i <= last}]
  /\ inbox' = [i \in DOMAIN inbox \cup {m} |->
       IF i = m THEN [status |-> "pending", req |-> req] ELSE inbox[i]]

\* One transaction: the MLS state that has opened the message, and the message.
Received(m, req) ==
  /\ snap' = [mls EXCEPT !.opened = @ \cup {m}]
  /\ inbox' = [i \in DOMAIN inbox \cup {m} |->
       IF i = m THEN [status |-> "pending", req |-> req] ELSE inbox[i]]

\* What cannot be read is answered as a request for a handler that does not exist.
Malformed(m) == [Unreadable EXCEPT !.id = -m, !.client = -m]

Receive ==
  /\ at = "page" /\ pos < last
  /\ LET m == pos + 1 IN
       /\ log[m].from = "peer" /\ log[m].epoch = mls.epoch /\ m \notin DOMAIN inbox
       /\ m \notin mls.opened /\ ~InboxFull /\ log[m].req # Undecodable
       /\ Received(m, IF log[m].req = Unreadable THEN Malformed(m) ELSE log[m].req)
       /\ mls' = [mls EXCEPT !.opened = @ \cup {m}]
       /\ pos' = m /\ item' = m
  /\ at' = "rpc" /\ back' = "page"
  /\ UNCHANGED <<resp, streamed, last, frozen, relayVars, intents, grants, vault, outbox, cursor,
                 effects, faults>>

\* Any error of receive before the inbox has the message.  The cursor stays before
\* the page, so a message that cannot be decoded is met again by every process.
ReceiveFails ==
  /\ at = "page" /\ pos < last
  /\ LET m == pos + 1 IN
       /\ log[m].from = "peer"
       /\ FaultIf(\/ log[m].epoch # mls.epoch
                  \/ m \notin DOMAIN inbox
                     /\ (InboxFull \/ m \in mls.opened \/ log[m].req = Undecodable))
  /\ Halt /\ UNCHANGED <<relayVars, store, effects>>

MutSetCursor == cursor' = IF Len(log) > 0 THEN Len(log) ELSE last

\* The cursor of the page, whatever has been appended to the log since.
SetCursor == cursor' = last

EndPage ==
  /\ at = "page" /\ pos = last
  /\ SetCursor /\ at' = "drain" /\ pos' = 0 /\ last' = 0
  /\ UNCHANGED <<mls, item, back, resp, streamed, frozen, relayVars, snap, inbox, intents, grants, vault,
                 outbox, effects, faults>>

-----------------------------------------------------------------------------
(* processInbox and ProcessRPC.                                             *)

Handler(r) == IF r.body \in Bodies THEN HandlerOf[r.body] ELSE "unknown"
Known(r)   == r.client \in DOMAIN intents
Bound(r)   == <<intents[r.client].id, intents[r.client].body>> # <<r.id, r.body>>

\* The response is to be persisted next.
Persisting(kind, seq) ==
  /\ at' = "persist" /\ resp' = [kind |-> kind, seq |-> seq]
  /\ UNCHANGED <<mls, item, back, streamed, pos, last, frozen>>

\* processInbox returns to its caller.
Return ==
  /\ at' = back /\ item' = 0 /\ back' = "drain" /\ resp' = Flush /\ streamed' = 1
  /\ UNCHANGED <<mls, pos, last, frozen>>

\* An error that is not of the application: the message is marked rejected,
\* unless that fails too, and the process ends.
Reject == Settle("rejected") /\ Halt

\* Validate accepts the request.
Valid(r) == Handler(r) # "invalid"
Verified == Valid(Request) /\ RelayAgrees

\* The relay does not answer, or differs from the state of the participant.
RPCUnverified ==
  /\ at = "rpc" /\ Valid(Request) /\ FaultIf(~RelayAgrees) /\ Reject
  /\ UNCHANGED <<relayVars, snap, intents, grants, vault, outbox, cursor, effects>>

IntentsFull ==
  \/ Cardinality(DOMAIN intents) >= 4 * MaxPending
  \/ Cardinality({c \in DOMAIN intents : intents[c].status # "done"}) >= MaxPending

\* VerifyGrant binds the grant to the request and the epoch, for a limited time;
\* ConsumeGrantTx refuses a nonce it has.
MayRefuseGrant(r) == r.body \in Approvals
GrantRefused(r)   == MayRefuseGrant(r) /\ (r.epoch # mls.epoch \/ r.nonce \in grants)

\* A body that cannot be hashed, and a grant that cannot be parsed or is missing.
Unparsed(r) == Handler(r) = "empty" \/ (MayRefuseGrant(r) /\ r.nonce = 0)

\* These errors and those of Validate about its identifiers and its JSON are not
\* taken for errors of the application.
RPCInvalid ==
  /\ at = "rpc"
  /\ \/ ~Valid(Request)
     \/ Verified /\ ~Known(Request) /\ Unparsed(Request)
  /\ Reject
  /\ UNCHANGED <<relayVars, snap, intents, grants, vault, outbox, cursor, effects, faults>>

Admitted(r) == ~Known(r) /\ Handler(r) # "unknown" /\ ~Unparsed(r) /\ ~GrantRefused(r)

\* An error of the application is answered with an error.
RPCRefused ==
  /\ at = "rpc" /\ Verified
  /\ LET r == Request IN
       IF Known(r) THEN Bound(r) ELSE Handler(r) = "unknown" \/ (MayRefuseGrant(r) /\ ~Unparsed(r))
  /\ Settle("rejected") /\ Persisting("error", 1)
  /\ UNCHANGED <<relayVars, snap, intents, grants, vault, outbox, cursor, effects, faults>>

\* PutIntentTx fails: the intents are too many, or another client has used the
\* id of this request.
RPCNoRoom ==
  /\ at = "rpc" /\ Verified
  /\ LET r == Request IN
       /\ Admitted(r)
       /\ FaultIf(IntentsFull \/ (\E c \in DOMAIN intents : intents[c].id = r.id)
                  \/ (MayRefuseGrant(r) /\ Cardinality(grants) >= 4 * MaxPending))
  /\ Reject /\ UNCHANGED <<relayVars, snap, intents, grants, vault, outbox, cursor, effects>>

MutConsumeGrant(r) == UNCHANGED grants

ConsumeGrant(r) == grants' = IF r.body \in Approvals THEN grants \cup {r.nonce} ELSE grants

PutIntent(r) ==
  intents' = [c \in DOMAIN intents \cup {r.client} |->
    IF c = r.client THEN [id |-> r.id, body |-> r.body, status |-> "dispatched", answered |-> FALSE]
    ELSE intents[c]]

\* One transaction: the grant is consumed and the request is dispatched.
RPCDispatch ==
  /\ at = "rpc" /\ Verified
  /\ LET r == Request IN
       /\ Admitted(r)
       /\ ~IntentsFull /\ \A c \in DOMAIN intents : intents[c].id # r.id
       /\ MayRefuseGrant(r) => Cardinality(grants) < 4 * MaxPending
       /\ ConsumeGrant(r) /\ PutIntent(r)
  /\ Persisting("notice", 1)
  /\ UNCHANGED <<relayVars, snap, inbox, vault, outbox, cursor, effects, faults>>

MutAnswered(r) == FALSE

\* What is stored with the intent has the responses to it.
Answered(r) == intents[r.client].answered

\* The request was dispatched before: what is stored of its responses decides.
RPCAgain ==
  /\ at = "rpc" /\ Verified /\ Known(Request) /\ ~Bound(Request)
  /\ Answered(Request)
  /\ Settle(intents[Request.client].status) /\ Return
  /\ UNCHANGED <<relayVars, snap, intents, grants, vault, outbox, cursor, effects, faults>>

\* uncertainResponse: the intent is marked, which may fail, and then the response
\* is persisted.  Its number follows that of the notice or of the last frame.
MarkUncertain ==
  intents' = [intents EXCEPT ![Request.client].status = "uncertain",
                             ![Request.client].answered = FALSE]
Uncertain(seq) == MarkUncertain /\ Persisting("uncertain", seq)
UncertainSeq(kind) == IF kind = "notice" THEN 2 ELSE IF streamed = 1 THEN 1 ELSE streamed + 1

\* The process died, or an error was met, after the request was dispatched.
RPCInterrupted ==
  /\ at = "rpc" /\ Verified /\ Known(Request) /\ ~Bound(Request)
  /\ ~Answered(Request)
  /\ Uncertain(1)
  /\ UNCHANGED <<relayVars, snap, inbox, grants, vault, outbox, cursor, effects, faults>>

\* The handler has been called: it returned, or failed.
Effect == effects' = Append(effects, Request)
Returned ==
  \/ Persisting("result", 2) /\ UNCHANGED <<intents, faults>>
  \/ Uncertain(2) /\ Fault

\* callConfiguredHTTP.
CallHTTP ==
  /\ at = "call" /\ Handler(Request) = "http" /\ Effect /\ Returned
  /\ UNCHANGED <<relayVars, snap, inbox, grants, vault, outbox, cursor>>

\* callConfiguredMCP: the operation may not be the configured one.
CallMCP ==
  /\ at = "call" /\ Handler(Request) = "mcp"
  /\ \/ Effect /\ Returned
     \/ Uncertain(2) /\ UNCHANGED <<effects, faults>>
  /\ UNCHANGED <<relayVars, snap, inbox, grants, vault, outbox, cursor>>

\* authorize, in the storage handler's own database: the body carries a grant of the
\* vault, which is consumed before anything is read.
Used(body) == body \in vault

CallStorage ==
  /\ at = "call" /\ Handler(Request) = "storage"
  /\ \/ ~Used(Request.body) /\ vault' = vault \cup {Request.body} /\ Effect /\ Returned
     \/ Uncertain(2) /\ UNCHANGED <<vault, effects, faults>>
  /\ UNCHANGED <<relayVars, snap, inbox, grants, outbox, cursor>>

\* StreamRPC begins.
CallStream ==
  /\ at = "call" /\ Handler(Request) = "stream"
  /\ effects' = Append(effects, Request) /\ Go("stream")
  /\ UNCHANGED <<relayVars, store, faults>>

\* The frame emitted is the one before the frame that has arrived, so the last
\* one is emitted as the result.
Stream ==
  /\ at = "stream"
  /\ \/ streamed <= MaxFrames /\ Persisting("delta", streamed + 1) /\ UNCHANGED <<intents, faults>>
     \/ Persisting("final", streamed + 1) /\ UNCHANGED <<intents, faults>>
     \/ Uncertain(UncertainSeq("delta")) /\ Fault
  /\ UNCHANGED <<relayVars, snap, inbox, grants, vault, outbox, cursor, effects>>

\* UpdateIntent and then UpdateInbox, when the response has been persisted.
SettleIntent ==
  /\ at = "settle"
  /\ intents' = [intents EXCEPT ![Request.client].answered = TRUE,
       ![Request.client].status = IF resp.kind = "uncertain" THEN "uncertain" ELSE "done"]
  /\ Go("settled")
  /\ UNCHANGED <<relayVars, snap, inbox, grants, vault, outbox, cursor, effects, faults>>

SettleIntentFails ==
  /\ at = "settle" /\ Fault /\ Reject
  /\ UNCHANGED <<relayVars, snap, intents, grants, vault, outbox, cursor, effects>>

SettleInbox ==
  /\ at = "settled" /\ Settle(intents[Request.client].status) /\ Return
  /\ UNCHANGED <<relayVars, snap, intents, grants, vault, outbox, cursor, effects, faults>>

-----------------------------------------------------------------------------
(* persistResponse: encryptResponse and flushOutbox.                        *)

OutboxFull == Len(outbox) >= 8 * MaxPending \/ Cardinality(Unsent) >= MaxPending

MutSavedState == snap

\* The MLS state that is stored with the response: encrypting has advanced it.
SavedState == [mls EXCEPT !.sent = @ + 1]

\* SaveOutboxEpochTx keeps what it has under an operation_id.
SaveOutbox ==
  LET op == OpOf(Request, resp.seq) IN
    outbox' = IF Stored(op) THEN outbox
              ELSE Append(outbox, [op |-> op, kind |-> resp.kind, gen |-> mls.sent,
                                   epoch |-> mls.epoch, sent |-> FALSE])

\* encryptResponse: the response is encrypted, and one transaction stores it with
\* the MLS state.
EncryptResponse ==
  /\ at = "persist" /\ RelayAgrees
  /\ Stored(OpOf(Request, resp.seq)) \/ ~OutboxFull
  /\ mls' = [mls EXCEPT !.sent = @ + 1]
  /\ snap' = SavedState /\ SaveOutbox
  /\ at' = "flush" /\ UNCHANGED <<item, back, resp, streamed, pos, last, frozen>>
  /\ UNCHANGED <<relayVars, inbox, intents, grants, vault, cursor, effects, faults>>

\* An error of persistResponse, or of the loop's own flushOutbox.  Notices and
\* frames are followed by an uncertain response, with the state in memory.
Failed(state, froze) ==
  \/ /\ resp.kind \in {"notice", "delta", "final"}
     /\ at' = "persist" /\ resp' = [kind |-> "uncertain", seq |-> UncertainSeq(resp.kind)]
     /\ MarkUncertain /\ mls' = state /\ frozen' = froze
     /\ UNCHANGED <<inbox, item, back, streamed, pos, last>>
  \/ resp.kind \in {"result", "uncertain"} /\ Reject /\ UNCHANGED intents
  \/ resp.kind \in {"error", "flush"} /\ Halt /\ UNCHANGED <<inbox, intents>>

\* The encryption may have advanced the state in memory.
EncryptFails ==
  /\ at = "persist"
  /\ FaultIf(~RelayAgrees \/ (OutboxFull /\ ~Stored(OpOf(Request, resp.seq))))
  /\ Failed(mls, TRUE) \/ Failed([mls EXCEPT !.sent = @ + 1], TRUE)
  /\ UNCHANGED <<relayVars, snap, grants, vault, outbox, cursor, effects>>

\* The core acknowledges what it has under the operation_id, and refuses a message
\* of another epoch.
Accepts(x) == Logged(x.op) \/ x.epoch = epoch
Accepted(x) ==
  log' = IF Logged(x.op) THEN log
         ELSE Append(log, [from |-> "endpoint", epoch |-> x.epoch, op |-> x.op, gen |-> x.gen])

\* flushOutbox: the oldest response that is not marked sent.
FlushSend ==
  /\ at = "flush" /\ Unsent # {} /\ RelayAgrees
  /\ LET i == Min(Unsent) IN
       /\ Accepts(outbox[i]) /\ Accepted(outbox[i])
       /\ outbox' = [outbox EXCEPT ![i].sent = TRUE]
  /\ UNCHANGED <<epoch, pending, snap, inbox, intents, grants, vault, cursor, memory, effects, faults>>

\* The relay differs, or the message does not reach it or is refused; or the
\* answer is lost, or the response is not marked.
FlushFails ==
  /\ at = "flush" /\ Unsent # {}
  /\ LET x == outbox[Min(Unsent)] IN
       \/ FaultIf(~(RelayAgrees /\ Accepts(x))) /\ UNCHANGED log
       \/ RelayAgrees /\ Accepts(x) /\ Fault /\ Accepted(x)
  /\ Failed(mls, TRUE) \/ Failed(mls, frozen)
  /\ UNCHANGED <<epoch, pending, snap, grants, vault, outbox, cursor, effects>>

\* Everything is sent: the caller goes on.
FlushDone ==
  /\ at = "flush" /\ Unsent = {}
  /\ \/ resp.kind = "flush" /\ IF frozen THEN Halt ELSE Go("poll")
     \/ resp.kind = "notice" /\ Go("call")
     \/ /\ resp.kind = "delta" /\ at' = "stream" /\ streamed' = resp.seq
        /\ UNCHANGED <<mls, item, back, resp, pos, last, frozen>>
     \/ resp.kind \in {"result", "final", "uncertain"} /\ Go("settle")
     \/ resp.kind = "error" /\ Return
  /\ UNCHANGED <<relayVars, store, effects, faults>>

-----------------------------------------------------------------------------
Loop ==
  \/ DrainInbox \/ CheckRelay \/ Poll \/ Skip \/ Receive \/ EndPage
Process ==
  \/ RPCRefused \/ RPCNoRoom \/ RPCDispatch \/ RPCAgain \/ RPCInterrupted \/ RPCUnverified
  \/ RPCInvalid \/ CallHTTP \/ CallMCP \/ CallStorage \/ CallStream \/ Stream \/ SettleIntent \/ SettleInbox
Answer == EncryptResponse \/ EncryptFails \/ FlushSend \/ FlushFails \/ FlushDone
Endpoint == Start \/ Loop \/ ReceiveFails \/ Process \/ SettleIntentFails \/ Answer

Environment ==
  \/ \E r \in Requests \cup {Unreadable, Undecodable} : PeerSends(r)
  \/ RelayRekeys \/ Bootstrap \/ JoinWelcome \/ Crash

Next == Endpoint \/ Environment
Spec == Init /\ [][Next]_vars

\* The process takes its next step, and is started again when it has ended.
FairSpec == Spec /\ WF_vars(Endpoint)

-----------------------------------------------------------------------------
(* Properties.                                                              *)

TypeOK ==
  /\ epoch \in Nat /\ pending \in BOOLEAN /\ snap.epoch \in -2..epoch
  /\ DOMAIN inbox \subseteq PeerMessages
  /\ \A m \in DOMAIN inbox : inbox[m].status \in {"pending", "done", "uncertain", "rejected"}
  /\ DOMAIN intents \subseteq Clients
  /\ \A c \in DOMAIN intents : intents[c].status \in {"dispatched", "done", "uncertain"}
  /\ cursor \in 0..Len(log) /\ pos \in 0..last /\ last \in 0..Len(log) /\ frozen \in BOOLEAN
  /\ at \in {"down", "drain", "check", "flush", "poll", "page", "rpc", "persist", "call",
             "stream", "settle", "settled"}
  /\ at \in {"rpc", "persist", "call", "stream", "settle", "settled"} => item \in DOMAIN inbox

\* A handler is called at most once for a client_id, for a request_id, for a grant
\* and, in storage, for a grant of the vault, through crashes, retries of the peer and messages read again.
EffectOnce ==
  \A i, j \in DOMAIN effects : i # j =>
    /\ effects[i].client # effects[j].client /\ effects[i].id # effects[j].id
    /\ {effects[i].body, effects[j].body} \subseteq Approvals => effects[i].nonce # effects[j].nonce
    /\ Handler(effects[i]) = "storage" => effects[i].body # effects[j].body

\* No two responses that leave the endpoint are encrypted with the same generation
\* of the same epoch, though the process dies between encrypting and sending.
GenerationOnce ==
  /\ \A i, j \in DOMAIN outbox :
       i # j => <<outbox[i].epoch, outbox[i].gen>> # <<outbox[j].epoch, outbox[j].gen>>
  /\ \A i \in DOMAIN outbox : outbox[i].epoch = snap.epoch => outbox[i].gen < snap.sent

\* A message of the epoch that the inbox does not have can still be opened with the
\* stored MLS state: a crash never makes a message undecryptable.
StillReadable ==
  \A m \in PeerMessages :
    log[m].epoch = snap.epoch /\ m \notin DOMAIN inbox => m \notin snap.opened

\* The kinds of the responses to a request that are stored.
Answers(r) == {outbox[i].kind : i \in {j \in DOMAIN outbox : outbox[j].op = OpOf(r, outbox[j].op[3])}}

\* A message that cannot be decoded stops the endpoint before it.
Barred(m) == \E n \in PeerMessages : n <= m /\ log[n].req = Undecodable

\* Every message the relay has taken is received and its processing ends, and every
\* response is sent, unless the epoch changes, the inbox is full or a message before
\* it cannot be decoded.  The requester of what is done is sent its result, and the
\* requester of what is uncertain a response, though it may be the notice alone; what
\* is rejected may have been answered with an error or not at all.
WorkEnds ==
  <>[](\/ epoch > 0 \/ pending \/ InboxFull
       \/ /\ Waiting = {} /\ Unsent = {}
          /\ \A m \in PeerMessages : m \in DOMAIN inbox \/ Barred(m)
          /\ \A m \in DOMAIN inbox :
               /\ inbox[m].status = "done" => Answers(inbox[m].req) \cap {"result", "final"} # {}
               /\ inbox[m].status = "uncertain" => Answers(inbox[m].req) # {})

\* What the intent of a client_id means for its request, which is open until the
\* intent has its response; and how often a handler was called for it.
StateOf == [c \in Clients |->
  IF c \notin DOMAIN intents THEN "new"
  ELSE IF intents[c].answered THEN intents[c].status ELSE "claimed"]
CallsOf(c) == {i \in DOMAIN effects : effects[i].client = c}
Calls      == [c \in Clients |-> Cardinality(CallsOf(c))]

Execution == INSTANCE Executor WITH Jobs <- Clients, From <- "claimed", state <- StateOf, handed <- Calls

\* The endpoint executes requests: a handler is called only for an intent that is
\* stored, a request whose handler was not called is never answered as done, and
\* the outcome in an answered intent is never replaced.
ExecutesRequests == Execution!Spec
=============================================================================
