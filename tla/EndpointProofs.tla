--------------------------- MODULE EndpointProofs ---------------------------
(***************************************************************************)
(* Proofs about Endpoint, for every value of its constants.                *)
(*                                                                         *)
(* The invariant is a conjunction of parts that each follow a few          *)
(* variables, and each part is shown to be kept by the steps that change   *)
(* them.                                                                   *)
(***************************************************************************)
EXTENDS Endpoint, FiniteSetTheorems, WellFoundedInduction, TLAPS

-----------------------------------------------------------------------------
(* What the variables hold.                                                *)

Req       == {r \in [id : Int, client : Int, body : Nat, nonce : Nat, epoch : Nat] :
                r.body = 0 \/ r \in Requests}
Operation == Int \X Int \X Nat
Message   == [from : {"peer"}, epoch : Nat, req : Req]
             \cup [from : {"endpoint"}, epoch : Int, op : Operation, gen : Nat]
InboxRow  == [status : {"pending", "done", "uncertain", "rejected"}, req : Req]
Intent    == {i \in [id : Int, body : Nat, status : {"dispatched", "done", "uncertain"},
                     answered : BOOLEAN] : i.answered => i.status # "dispatched"}
MLSState  == [epoch : Int, sent : Nat, opened : SUBSET Nat]
Kinds     == {"flush", "error", "notice", "delta", "final", "result", "uncertain"}
Reply     == [kind : Kinds, seq : Nat]
Response  == [op : Operation, kind : Kinds, gen : Nat, epoch : Int, sent : BOOLEAN]
Places    == {"down", "drain", "check", "flush", "poll", "page", "rpc", "persist", "call",
              "stream", "settle", "settled"}
Busy      == {"rpc", "persist", "call", "stream", "settle", "settled"}

\* The smaller of two numbers.
LEMMA MinFacts ==
  ASSUME NEW a \in Int, NEW b \in Int
  PROVE  Min({a, b}) \in {a, b} /\ Min({a, b}) <= a /\ Min({a, b}) <= b
<1>1. \E x \in {a, b} : \A y \in {a, b} : x <= y
  OBVIOUS
<1> QED BY <1>1 DEF Min

\* Every set of naturals has its minimum (well-founded induction, instantiated).
LEMMA MinOfNaturals ==
  ASSUME NEW S \in SUBSET Nat, S # {}
  PROVE  Min(S) \in S
<1>1. PICK x \in S : \A y \in S : <<y, x>> \notin OpToRel(<, Nat)
  BY WFMin, NatLessThanWellFounded
<1>2. ASSUME NEW y \in S PROVE x <= y
  <2>1. y \in Nat /\ x \in Nat
    OBVIOUS
  <2>2. <<y, x>> \notin {ss \in Nat \X Nat : ss[1] < ss[2]}
    BY <1>1, Zenon DEF OpToRel
  <2> QED BY <2>1, <2>2
<1> QED BY <1>2 DEF Min

\* Requests and what stands for broken ones.
LEMMA RequestTyped ==
  /\ Requests \cup {Unreadable, Undecodable} \subseteq Req
  /\ \A m \in Nat : Malformed(m) \in Req
  /\ \A r \in Requests : r.body # 0 /\ r.body \in Bodies /\ r.client \in Clients
<1>1. \A r \in Requests :
        r \in [id : Nat \ {0}, client : Nat \ {0}, body : Nat \ {0}, nonce : Nat, epoch : Nat]
  BY EndpointAssumption
<1>2. \A r \in Requests : r \in Req /\ r.body # 0
  BY <1>1 DEF Req
<1>3. Unreadable \in Req /\ Undecodable \in Req
  <2>1. Unreadable \in Req
    BY DEF Unreadable, Req
  <2>2. /\ Undecodable \in [id : Int, client : Int, body : Nat, nonce : Nat, epoch : Nat]
        /\ Undecodable.body = 0
    BY DEF Undecodable
  <2> QED BY <2>1, <2>2 DEF Req
<1>4. ASSUME NEW m \in Nat PROVE Malformed(m) \in Req
  <2>1. -m \in Int
    OBVIOUS
  <2>2. Malformed(m) \in [id : Int, client : Int, body : Nat, nonce : Nat, epoch : Nat]
    BY <2>1 DEF Malformed, Unreadable
  <2>3. Malformed(m).body = 0
    BY DEF Malformed, Unreadable
  <2> QED BY <2>2, <2>3 DEF Req
<1>5. \A r \in Requests : r.body \in Bodies /\ r.client \in Clients
  BY DEF Bodies, Clients
<1> QED BY <1>2, <1>3, <1>4, <1>5

-----------------------------------------------------------------------------
(* Which steps change what.                                                *)

\* The log of the relay and its epoch.
LEMMA RelayKept ==
  ASSUME [Next]_vars,
         ~\E r \in Requests \cup {Unreadable, Undecodable} : PeerSends(r),
         ~(RelayRekeys \/ FlushSend \/ FlushFails)
  PROVE  UNCHANGED <<log, epoch, pending>>
<1> USE DEF relayVars, store, memory
<1>1. CASE Loop \/ ReceiveFails \/ Start
  BY <1>1 DEF Loop, DrainInbox, CheckRelay, Poll, Skip, Receive, EndPage, ReceiveFails, Start
<1>2. CASE Process \/ SettleIntentFails
  BY <1>2 DEF Process, RPCRefused, RPCNoRoom, RPCDispatch, RPCAgain, RPCInterrupted, RPCUnverified, RPCInvalid,
     CallHTTP, CallMCP, CallStorage, CallStream, Stream, SettleIntent, SettleInbox, SettleIntentFails
<1>3. CASE EncryptResponse \/ EncryptFails \/ FlushDone \/ Bootstrap \/ JoinWelcome \/ Crash
  BY <1>3 DEF EncryptResponse, EncryptFails, FlushDone, Bootstrap, JoinWelcome, Crash
<1>4. CASE UNCHANGED vars
  BY <1>4 DEF vars
<1> QED BY <1>1, <1>2, <1>3, <1>4 DEF Next, Endpoint, Environment, Answer

\* What the inbox has received, and the state of its rows.
LEMMA InboxKept ==
  ASSUME [Next]_vars
  PROVE  \/ UNCHANGED inbox \/ Receive
         \/ \E st \in {"done", "uncertain", "rejected"} : Settle(st)
         \/ SettleInbox \/ RPCAgain
<1> USE DEF relayVars, store, memory
<1>1. CASE Loop \/ ReceiveFails \/ Start
  BY <1>1 DEF Loop, DrainInbox, CheckRelay, Poll, Skip, EndPage, ReceiveFails, Start
<1>2. CASE Process \/ SettleIntentFails
  BY <1>2 DEF Process, RPCRefused, RPCNoRoom, RPCDispatch, RPCInterrupted, RPCUnverified, RPCInvalid, Reject,
     CallHTTP, CallMCP, CallStorage, CallStream, Stream, SettleIntent, SettleIntentFails
<1>3. CASE Answer
  BY <1>3 DEF Answer, EncryptResponse, EncryptFails, FlushSend, FlushFails, FlushDone, Failed, Reject
<1>4. CASE Environment \/ UNCHANGED vars
  BY <1>4 DEF Environment, PeerSends, RelayRekeys, Bootstrap, JoinWelcome, Crash, vars
<1> QED BY <1>1, <1>2, <1>3, <1>4 DEF Next, Endpoint

\* The log only grows, and the epoch with it.
Grows ==
  /\ Len(log) <= Len(log') /\ epoch <= epoch'
  /\ \A m \in DOMAIN log : m \in DOMAIN log' /\ log'[m] = log[m]

\* Appending keeps what a sequence has.
LEMMA AppendGrows ==
  ASSUME NEW S, NEW q \in Seq(S), NEW x \in S
  PROVE  /\ Append(q, x) \in Seq(S) /\ Len(q) <= Len(Append(q, x))
         /\ \A m \in DOMAIN q : m \in DOMAIN Append(q, x) /\ Append(q, x)[m] = q[m]
  OBVIOUS

\* What flush sends next is in the outbox.
LEMMA OldestUnsent ==
  ASSUME outbox \in Seq(Response), Unsent # {}
  PROVE  Min(Unsent) \in DOMAIN outbox /\ outbox[Min(Unsent)] \in Response
<1>1. Unsent \in SUBSET Nat /\ Unsent \subseteq DOMAIN outbox
  BY DEF Unsent
<1>2. Min(Unsent) \in DOMAIN outbox
  BY <1>1, MinOfNaturals
<1> QED BY <1>2

\* The relay's log only grows.
LEMMA RelayGrows ==
  ASSUME log \in Seq(Message), epoch \in Nat, pending \in BOOLEAN, outbox \in Seq(Response), [Next]_vars
  PROVE  log' \in Seq(Message) /\ epoch' \in Nat /\ pending' \in BOOLEAN /\ Grows
<1>1. ASSUME NEW x \in Message, log' = Append(log, x), UNCHANGED <<epoch, pending>>
      PROVE  log' \in Seq(Message) /\ epoch' \in Nat /\ pending' \in BOOLEAN /\ Grows
  BY <1>1, AppendGrows DEF Grows
<1>2. CASE UNCHANGED <<log, epoch, pending>>
  BY <1>2 DEF Grows
<1>3. ASSUME NEW r \in Requests \cup {Unreadable, Undecodable}, PeerSends(r)
      PROVE  log' \in Seq(Message) /\ epoch' \in Nat /\ pending' \in BOOLEAN /\ Grows
  <2>1. [from |-> "peer", epoch |-> epoch, req |-> r] \in Message
    BY RequestTyped DEF Message
  <2> QED BY <1>1, <1>3, <2>1 DEF PeerSends
<1>4. CASE RelayRekeys
  BY <1>4 DEF RelayRekeys, Grows
<1>5. ASSUME NEW x \in Response, Accepted(x), UNCHANGED <<epoch, pending>>
      PROVE  log' \in Seq(Message) /\ epoch' \in Nat /\ pending' \in BOOLEAN /\ Grows
  <2>1. [from |-> "endpoint", epoch |-> x.epoch, op |-> x.op, gen |-> x.gen] \in Message
    BY DEF Response, Message
  <2> QED BY <1>1, <1>2, <1>5, <2>1 DEF Accepted
<1>6. CASE FlushSend \/ FlushFails
  <2>1. outbox[Min(Unsent)] \in Response
    BY <1>6, OldestUnsent DEF FlushSend, FlushFails
  <2> QED BY <1>2, <1>5, <1>6, <2>1 DEF FlushSend, FlushFails
<1> QED BY <1>2, <1>3, <1>4, <1>6, RelayKept

-----------------------------------------------------------------------------
(* Types, one part of the state after the other.                           *)

PlaceTyped == at \in Places /\ back \in {"drain", "page"} /\ resp \in Reply /\ streamed \in Nat

\* Every step keeps the place of the run loop typed.
LEMMA PlaceStep ==
  ASSUME PlaceTyped, [Next]_vars
  PROVE  PlaceTyped'
<1> USE DEF memory
<1>1. \A kind : UncertainSeq(kind) \in Nat
  BY DEF PlaceTyped, UncertainSeq
<1>2. \A k \in Kinds, n \in Nat : [kind |-> k, seq |-> n] \in Reply
  BY DEF Reply
<1>3. "uncertain" \in Kinds /\ \A k \in {"flush", "error", "notice", "delta", "final", "result"} : k \in Kinds
  BY DEF Kinds
<1>4. Flush \in Reply
  BY <1>2, <1>3 DEF Flush
<1>5. CASE Halt
  BY <1>4, <1>5 DEF Halt, PlaceTyped, Places
<1>6. ASSUME NEW kind \in Kinds, NEW seq \in Nat, Persisting(kind, seq) PROVE PlaceTyped'
  BY <1>2, <1>6 DEF Persisting, PlaceTyped, Places
<1>7. CASE Return
  BY <1>4, <1>7 DEF Return, PlaceTyped, Places
<1>8. ASSUME NEW place \in Places, Go(place) PROVE PlaceTyped'
  BY <1>8 DEF Go, PlaceTyped
<1>9. CASE Start \/ DrainInbox \/ CheckRelay \/ Poll
  BY <1>4, <1>5, <1>8, <1>9 DEF Start, DrainInbox, CheckRelay, CheckFails, Poll, PollFails,
     PlaceTyped, Places
<1>10. CASE Skip \/ Receive \/ EndPage \/ ReceiveFails
  BY <1>5, <1>10 DEF Skip, Taken, Receive, EndPage, ReceiveFails, PlaceTyped, Places
<1>11. CASE RPCRefused \/ RPCNoRoom \/ RPCDispatch \/ RPCAgain \/ RPCInterrupted \/ RPCUnverified \/ RPCInvalid
  BY <1>3, <1>5, <1>6, <1>7, <1>11 DEF RPCRefused, RPCNoRoom, RPCDispatch, RPCAgain, RPCInterrupted,
     RPCUnverified, RPCInvalid, Reject, Uncertain
<1>12. CASE CallHTTP \/ CallMCP \/ CallStorage
  BY <1>3, <1>6, <1>12 DEF CallHTTP, CallMCP, CallStorage, Returned, Uncertain
<1>13. CASE CallStream \/ Stream
  <2>1. streamed + 1 \in Nat
    BY DEF PlaceTyped
  <2> QED BY <1>1, <1>3, <1>6, <1>8, <1>13, <2>1 DEF CallStream, Stream, Uncertain, Places
<1>14. CASE SettleIntent \/ SettleInbox \/ SettleIntentFails
  BY <1>5, <1>7, <1>8, <1>14 DEF SettleIntent, SettleInbox, SettleIntentFails, Reject, Places
<1>15. CASE EncryptResponse \/ FlushSend
  BY <1>15 DEF EncryptResponse, FlushSend, PlaceTyped, Places
<1>16. ASSUME NEW state, NEW froze, Failed(state, froze) PROVE PlaceTyped'
  BY <1>1, <1>2, <1>3, <1>5, <1>16 DEF Failed, Reject, PlaceTyped, Places
<1>17. CASE EncryptFails \/ FlushFails
  BY <1>16, <1>17 DEF EncryptFails, FlushFails
<1>18. CASE FlushDone
  BY <1>5, <1>7, <1>8, <1>18 DEF FlushDone, PlaceTyped, Places, Reply
<1>19. CASE Environment \/ UNCHANGED vars
  BY <1>5, <1>19 DEF Environment, PeerSends, RelayRekeys, Bootstrap, JoinWelcome, Crash, vars,
     PlaceTyped
<1> QED BY <1>9, <1>10, <1>11, <1>12, <1>13, <1>14, <1>15, <1>17, <1>18, <1>19
        DEF Next, Endpoint, Loop, Process, Answer

\* The page that is read lies within the log.
PageTyped ==
  /\ cursor \in 0..Len(log) /\ last \in 0..Len(log) /\ pos \in 0..last /\ frozen \in BOOLEAN

\* Every step keeps the page within the relay's log.
LEMMA PageStep ==
  ASSUME PageTyped, log \in Seq(Message), Grows, log' \in Seq(Message), [Next]_vars
  PROVE  PageTyped'
<1> USE DEF memory, store, relayVars
<1>1. Len(log) \in Nat /\ Len(log') \in Nat /\ Len(log) <= Len(log')
  BY DEF Grows
<1>2. PageTyped => cursor \in 0..Len(log') /\ last \in 0..Len(log')
  BY <1>1 DEF PageTyped
<1>3. CASE UNCHANGED <<cursor, last, pos, frozen>>
  BY <1>2, <1>3 DEF PageTyped
<1>4. CASE Halt /\ UNCHANGED cursor
  <2>1. pos' = 0 /\ last' = 0 /\ frozen' = FALSE /\ cursor' \in 0..Len(log')
    BY <1>2, <1>4 DEF Halt
  <2>2. last' \in 0..Len(log') /\ pos' \in 0..last'
    BY <1>1, <2>1
  <2>3. frozen' \in BOOLEAN
    BY <2>1, Zenon
  <2> QED BY <2>1, <2>2, <2>3, Zenon DEF PageTyped
<1>5. CASE Poll
  <2>1. PageEnd \in 0..Len(log) /\ (Len(log) # cursor => PageEnd >= cursor)
    <3>1. CASE Len(log) = cursor
      BY <1>1, <3>1 DEF PageEnd
    <3>2. CASE Len(log) # cursor
      <4>1. PageLimit \in Nat /\ cursor + PageLimit \in Int /\ cursor <= Len(log) /\ cursor \in Nat
        BY EndpointAssumption DEF PageTyped
      <4>2. Min({Len(log), cursor + PageLimit}) \in {Len(log), cursor + PageLimit}
            /\ Min({Len(log), cursor + PageLimit}) <= Len(log)
        <5>1. PICK a \in Int, b \in Int : a = Len(log) /\ b = cursor + PageLimit
          BY <1>1, <4>1
        <5>2. Min({a, b}) \in {a, b} /\ Min({a, b}) <= a
          BY MinFacts
        <5> QED BY <5>1, <5>2
      <4> QED BY <1>1, <3>2, <4>1, <4>2 DEF PageEnd
    <3> QED BY <3>1, <3>2
  <2> QED BY <1>1, <1>4, <1>5, <2>1 DEF Poll, PollFails, PageTyped
<1>6. CASE Skip \/ Receive
  BY <1>1, <1>6 DEF Skip, Taken, Receive, PageTyped
<1>7. CASE EndPage
  BY <1>1, <1>7 DEF EndPage, SetCursor, PageTyped
<1>8. CASE Start \/ DrainInbox \/ CheckRelay \/ ReceiveFails
  BY <1>3, <1>4, <1>8 DEF Start, DrainInbox, Go, CheckRelay, CheckFails, ReceiveFails
<1>9. CASE Process \/ SettleIntentFails
  BY <1>3, <1>4, <1>9 DEF Process, RPCRefused, RPCNoRoom, RPCDispatch, RPCAgain, RPCInterrupted,
     RPCUnverified, RPCInvalid, Reject, Uncertain, Persisting, Return, Go, Returned,
     CallHTTP, CallMCP, CallStorage, CallStream, Stream, SettleIntent, SettleInbox, SettleIntentFails
<1>10. CASE EncryptResponse \/ FlushSend \/ FlushDone
  BY <1>3, <1>4, <1>10 DEF EncryptResponse, FlushSend, FlushDone, Go, Return
<1>11. ASSUME NEW state, NEW froze \in BOOLEAN, Failed(state, froze), UNCHANGED cursor PROVE PageTyped'
  BY <1>2, <1>4, <1>11 DEF Failed, Reject, PageTyped
<1>12. CASE EncryptFails \/ FlushFails
  BY <1>11, <1>12 DEF EncryptFails, FlushFails, PageTyped
<1>13. CASE Environment \/ UNCHANGED vars
  BY <1>3, <1>4, <1>13 DEF Environment, PeerSends, RelayRekeys, Bootstrap, JoinWelcome, Crash, vars
<1> QED BY <1>5, <1>6, <1>7, <1>8, <1>9, <1>10, <1>12, <1>13 DEF Next, Endpoint, Loop, Answer

-----------------------------------------------------------------------------
(* The inbox and the intents.                                              *)

\* A request is being answered: its handler may be called, or has been, or the
\* response to it is on its way.
Serving ==
  \/ at \in {"call", "stream", "settle", "settled"}
  \/ at \in {"persist", "flush"} /\ resp.kind \notin {"error", "flush"}

\* The steps that change an intent.
LEMMA IntentsKept ==
  ASSUME [Next]_vars
  PROVE  UNCHANGED intents \/ RPCDispatch \/ MarkUncertain \/ SettleIntent
<1> USE DEF relayVars, store, memory
<1>1. CASE Loop \/ ReceiveFails \/ Start
  BY <1>1 DEF Loop, DrainInbox, CheckRelay, Poll, Skip, Receive, EndPage, ReceiveFails, Start
<1>2. CASE Process \/ SettleIntentFails
  BY <1>2 DEF Process, RPCRefused, RPCNoRoom, RPCAgain, RPCInterrupted, RPCUnverified, RPCInvalid, Reject,
     Uncertain, Returned, CallHTTP, CallMCP, CallStorage, CallStream, Stream, SettleInbox,
     SettleIntentFails
<1>3. CASE Answer
  BY <1>3 DEF Answer, EncryptResponse, EncryptFails, FlushSend, FlushFails, FlushDone, Failed
<1>4. CASE Environment \/ UNCHANGED vars
  BY <1>4 DEF Environment, PeerSends, RelayRekeys, Bootstrap, JoinWelcome, Crash, vars
<1> QED BY <1>1, <1>2, <1>3, <1>4 DEF Next, Endpoint

\* While a request is served, its place and the inbox stay as they are.
LEMMA ServingKept ==
  ASSUME PlaceTyped, [Next]_vars, Serving'
  PROVE  UNCHANGED <<inbox, item>> /\ (Serving \/ RPCDispatch \/ RPCInterrupted)
<1> USE DEF relayVars, store, memory
<1>1. ~Halt
  BY DEF Halt, Serving, Flush
<1>2. ~Return
  BY DEF Return, Serving, PlaceTyped
<1>3. ~(Loop \/ ReceiveFails \/ Start)
  <2>1. ~ReceiveFails
    BY <1>1 DEF ReceiveFails
  <2>2. ~(DrainInbox \/ CheckRelay \/ Poll \/ Start)
    BY <1>1 DEF Serving, DrainInbox, Go, CheckRelay, CheckFails, Poll, PollFails, Start, Flush
  <2>3. ~(Skip \/ Receive \/ EndPage)
    BY <1>1 DEF Serving, Skip, Taken, Receive, EndPage, Flush
  <2> QED BY <2>1, <2>2, <2>3 DEF Loop
<1>4. CASE Process \/ SettleIntentFails
  <2>1. ~(RPCRefused \/ RPCNoRoom \/ RPCAgain \/ RPCUnverified \/ RPCInvalid \/ SettleInbox \/ SettleIntentFails)
    BY <1>1, <1>2 DEF Serving, RPCRefused, Persisting, RPCNoRoom, RPCAgain, RPCUnverified, RPCInvalid, Reject,
       SettleInbox, SettleIntentFails
  <2>2. CASE RPCDispatch \/ RPCInterrupted
    BY <2>2 DEF RPCDispatch, RPCInterrupted, Uncertain, Persisting
  <2>3. CASE CallHTTP \/ CallMCP \/ CallStorage \/ CallStream \/ Stream \/ SettleIntent
    BY <2>3 DEF CallHTTP, CallMCP, CallStorage, CallStream, Stream, SettleIntent, Returned, Uncertain,
       Persisting, Go, Serving
  <2> QED BY <1>4, <2>1, <2>2, <2>3 DEF Process
<1>5. CASE Answer
  <2>1. CASE EncryptFails \/ FlushFails
    BY <1>1, <2>1 DEF EncryptFails, FlushFails, Failed, Reject, Serving
  <2>2. CASE EncryptResponse \/ FlushSend
    BY <2>2 DEF EncryptResponse, FlushSend, Serving
  <2>3. CASE FlushDone
    BY <1>1, <1>2, <2>3 DEF FlushDone, Go, Serving
  <2> QED BY <1>5, <2>1, <2>2, <2>3 DEF Answer
<1>6. CASE Environment \/ UNCHANGED vars
  BY <1>1, <1>6 DEF Environment, PeerSends, RelayRekeys, Bootstrap, JoinWelcome, Crash, vars, Serving
<1> QED BY <1>3, <1>4, <1>5, <1>6 DEF Next, Endpoint

\* The response that has been persisted is settled with its intent.
LEMMA SettledKept ==
  ASSUME PlaceTyped, [Next]_vars, at' = "settled"
  PROVE  SettleIntent \/ (at = "settled" /\ UNCHANGED intents)
<1> USE DEF relayVars, store, memory
<1>1. ~Halt /\ ~Return
  BY DEF Halt, Return, PlaceTyped
<1>2. ~(Loop \/ ReceiveFails \/ Start)
  BY <1>1 DEF Loop, DrainInbox, Go, CheckRelay, CheckFails, Poll, PollFails, Skip, Taken,
     Receive, EndPage, ReceiveFails, Start
<1>3. Process \/ SettleIntentFails => SettleIntent
  BY <1>1 DEF Process, RPCRefused, RPCNoRoom, RPCDispatch, RPCAgain, RPCInterrupted, RPCUnverified, RPCInvalid,
     Reject, CallHTTP, CallMCP, CallStorage, CallStream, Stream, SettleInbox, SettleIntentFails,
     Persisting, Uncertain, Returned, Go
<1>4. ~Answer
  BY <1>1 DEF Answer, EncryptResponse, EncryptFails, FlushSend, FlushFails, FlushDone, Failed, Reject, Go
<1>5. CASE Environment \/ UNCHANGED vars
  BY <1>1, <1>5 DEF Environment, PeerSends, RelayRekeys, Bootstrap, JoinWelcome, Crash, vars
<1> QED BY <1>2, <1>3, <1>4, <1>5 DEF Next, Endpoint

IntentsTyped ==
  /\ intents \in [DOMAIN intents -> Intent] /\ DOMAIN intents \subseteq Clients
  /\ Serving => Known(Request)
  /\ at = "settled" => intents[Request.client].answered

InboxTyped ==
  /\ inbox \in [DOMAIN inbox -> InboxRow] /\ DOMAIN inbox \subseteq PeerMessages
  /\ at \in Busy \/ Serving => item \in DOMAIN inbox

\* An intent keeps the request it stands for.
IntentsGrow == \A c \in DOMAIN intents :
  c \in DOMAIN intents' /\ intents'[c].id = intents[c].id /\ intents'[c].body = intents[c].body

\* A request that is dispatched is one of the constants.
LEMMA DispatchedRequest ==
  ASSUME IntentsTyped, InboxTyped, RPCDispatch
  PROVE  /\ Request \in Requests /\ item \in DOMAIN inbox /\ Request.client \notin DOMAIN intents
         /\ Request.client \in Clients /\ Request.id \in Int /\ Request.body \in Nat
<1>1. at = "rpc" /\ ~Known(Request) /\ Handler(Request) # "unknown"
  BY DEF RPCDispatch, Admitted
<1>2. item \in DOMAIN inbox
  BY <1>1 DEF InboxTyped, Busy
<1>3. Request \in Req
  BY <1>2 DEF InboxTyped, InboxRow, Request
<1>4. Request.body \in Bodies
  BY <1>1 DEF Handler
<1>5. Request.body # 0
  BY <1>4, RequestTyped DEF Bodies
<1>6. Request \in Requests
  BY <1>3, <1>5 DEF Req
<1> QED BY <1>1, <1>2, <1>3, <1>6, RequestTyped DEF Known, Req

\* The intents keep their types, and only RPCDispatch adds one.
LEMMA IntentsStep ==
  ASSUME PlaceTyped, IntentsTyped, InboxTyped, [Next]_vars
  PROVE  IntentsTyped' /\ IntentsGrow /\ (RPCDispatch \/ DOMAIN intents' = DOMAIN intents)
<1> DEFINE Fits == /\ intents' \in [DOMAIN intents' -> Intent] /\ DOMAIN intents' \subseteq Clients
                   /\ IntentsGrow /\ (RPCDispatch \/ DOMAIN intents' = DOMAIN intents)
<1>1. ASSUME UNCHANGED intents PROVE Fits
  BY <1>1 DEF IntentsTyped, IntentsGrow
<1>2. ASSUME NEW c, NEW st \in {"done", "uncertain"}, NEW an \in BOOLEAN,
             intents' = [intents EXCEPT ![c].status = st, ![c].answered = an]
      PROVE  Fits
  <2>1. DOMAIN intents' = DOMAIN intents
    BY <1>2
  <2>2. ASSUME NEW d \in DOMAIN intents
        PROVE  intents'[d] \in Intent /\ intents'[d].id = intents[d].id /\ intents'[d].body = intents[d].body
    <3>1. intents[d] \in Intent
      BY DEF IntentsTyped
    <3>2. CASE d # c
      BY <1>2, <3>1, <3>2
    <3>3. CASE d = c
      <4>1. intents'[d] = [intents[d] EXCEPT !.status = st, !.answered = an]
        BY <1>2, <3>3
      <4> QED BY <3>1, <4>1 DEF Intent
    <3> QED BY <3>2, <3>3
  <2>3. intents' = [d \in DOMAIN intents |-> intents'[d]]
    BY <1>2
  <2>4. intents' \in [DOMAIN intents' -> Intent]
    BY <2>1, <2>2, <2>3
  <2> QED BY <2>1, <2>2, <2>4 DEF IntentsTyped, IntentsGrow
<1>3. ASSUME MarkUncertain PROVE Fits
  BY <1>2, <1>3, Zenon DEF MarkUncertain
<1>4. ASSUME SettleIntent PROVE Fits
  <2>1. PICK st \in {"done", "uncertain"} :
           intents' = [intents EXCEPT ![Request.client].answered = TRUE, ![Request.client].status = st]
    BY <1>4 DEF SettleIntent
  <2>2. intents' = [intents EXCEPT ![Request.client].status = st, ![Request.client].answered = TRUE]
    BY <2>1
  <2> QED BY <1>2, <2>2
<1>5. ASSUME RPCDispatch PROVE Fits
  <2>1. PICK r : r = Request
    OBVIOUS
  <2>2. r.client \in Clients /\ r.id \in Int /\ r.body \in Nat /\ r.client \notin DOMAIN intents
    BY <1>5, <2>1, DispatchedRequest
  <2>3. intents' = [c \in DOMAIN intents \cup {r.client} |->
           IF c = r.client THEN [id |-> r.id, body |-> r.body, status |-> "dispatched", answered |-> FALSE]
           ELSE intents[c]]
    BY <1>5, <2>1 DEF RPCDispatch, PutIntent
  <2>4. [id |-> r.id, body |-> r.body, status |-> "dispatched", answered |-> FALSE] \in Intent
    BY <2>2 DEF Intent
  <2> QED BY <1>5, <2>2, <2>3, <2>4 DEF IntentsTyped, IntentsGrow
<1>6. Fits
  BY <1>1, <1>3, <1>4, <1>5, IntentsKept
<1>7. ASSUME Serving' PROVE Known(Request)'
  <2>1. Request' = Request /\ (Serving \/ RPCDispatch \/ RPCInterrupted)
    BY <1>7, ServingKept DEF Request
  <2>2. CASE Serving \/ RPCInterrupted
    BY <1>6, <2>1, <2>2 DEF IntentsTyped, RPCInterrupted, Known, IntentsGrow
  <2>3. CASE RPCDispatch
    BY <2>1, <2>3 DEF RPCDispatch, PutIntent, Known
  <2> QED BY <2>1, <2>2, <2>3
<1>8. ASSUME at' = "settled" PROVE (intents[Request.client].answered)'
  <2>1. Request' = Request
    BY <1>8, ServingKept DEF Request, Serving
  <2>2. CASE SettleIntent
    <3>1. Known(Request)
      BY <2>2 DEF SettleIntent, IntentsTyped, Serving
    <3> QED BY <2>1, <2>2, <3>1 DEF SettleIntent, Known, IntentsTyped, Intent
  <2> QED BY <1>8, <2>1, <2>2, SettledKept DEF IntentsTyped
<1> QED BY <1>6, <1>7, <1>8 DEF IntentsTyped

\* A message of the log stays what it is.
LEMMA PeerMessagesGrow ==
  ASSUME Grows
  PROVE  /\ PeerMessages \subseteq PeerMessages'
         /\ \A m \in PeerMessages : log'[m] = log[m]
  BY DEF Grows, PeerMessages

\* Where the message that is processed comes from.
LEMMA ItemKept ==
  ASSUME PlaceTyped, [Next]_vars, at' \in Busy \/ Serving'
  PROVE  \/ item' = item /\ (at \in Busy \/ Serving)
         \/ Receive \/ (DrainInbox /\ Waiting # {})
<1> USE DEF relayVars, store, memory
<1>1. ~Halt /\ ~Return
  BY DEF Halt, Return, PlaceTyped, Busy, Serving, Flush
<1>2. CASE Loop \/ ReceiveFails \/ Start
  <2>1. ~ReceiveFails
    BY <1>1 DEF ReceiveFails
  <2>2. CASE Loop \/ Start
    BY <1>1, <2>2 DEF Loop, DrainInbox, Go, CheckRelay, CheckFails, Poll, PollFails, Skip, Taken,
       EndPage, Start, Busy, Serving, Flush
  <2> QED BY <1>2, <2>1, <2>2
<1>3. CASE Process \/ SettleIntentFails
  BY <1>1, <1>3 DEF Process, RPCRefused, RPCNoRoom, RPCDispatch, RPCAgain, RPCInterrupted, RPCUnverified, RPCInvalid,
     Reject, CallHTTP, CallMCP, CallStorage, CallStream, Stream, SettleInbox, SettleIntentFails,
     SettleIntent, Persisting, Uncertain, Returned, Go, Busy
<1>4. CASE Answer
  BY <1>1, <1>4 DEF Answer, EncryptResponse, EncryptFails, FlushSend, FlushFails, FlushDone, Failed,
     Reject, Go, Busy, Serving
<1>5. CASE Environment \/ UNCHANGED vars
  BY <1>1, <1>5 DEF Environment, PeerSends, RelayRekeys, Bootstrap, JoinWelcome, Crash, vars, Busy, Serving
<1> QED BY <1>2, <1>3, <1>4, <1>5 DEF Next, Endpoint

\* The inbox keeps its types, and a message keeps its request.
LEMMA InboxStep ==
  ASSUME PlaceTyped, PageTyped, IntentsTyped, InboxTyped, log \in Seq(Message), Grows, [Next]_vars
  PROVE  /\ InboxTyped' /\ (Receive \/ DOMAIN inbox' = DOMAIN inbox)
         /\ DOMAIN inbox \subseteq DOMAIN inbox'
<1> DEFINE Fits == /\ inbox' \in [DOMAIN inbox' -> InboxRow] /\ DOMAIN inbox' \subseteq PeerMessages'
                   /\ (Receive \/ DOMAIN inbox' = DOMAIN inbox) /\ DOMAIN inbox \subseteq DOMAIN inbox'
<1>1. ASSUME UNCHANGED inbox PROVE Fits
  BY <1>1, PeerMessagesGrow DEF InboxTyped
<1>2. ASSUME NEW st \in {"done", "uncertain", "rejected"}, Settle(st) PROVE Fits
  <2>1. DOMAIN inbox' = DOMAIN inbox
    BY <1>2 DEF Settle
  <2>2. ASSUME NEW m \in DOMAIN inbox PROVE inbox'[m] \in InboxRow
    <3>1. inbox[m] \in InboxRow
      BY DEF InboxTyped
    <3>2. CASE m # item
      BY <1>2, <3>1, <3>2 DEF Settle
    <3>3. CASE m = item
      <4>1. inbox'[m] = [inbox[m] EXCEPT !.status = st]
        BY <1>2, <3>3 DEF Settle
      <4> QED BY <3>1, <4>1 DEF InboxRow
    <3> QED BY <3>2, <3>3
  <2>3. inbox' = [m \in DOMAIN inbox |-> inbox'[m]]
    BY <1>2 DEF Settle
  <2> QED BY <2>1, <2>2, <2>3, PeerMessagesGrow DEF InboxTyped
<1>3. ASSUME SettleInbox \/ RPCAgain PROVE Fits
  <2>1. Known(Request) /\ intents[Request.client].answered /\ Settle(intents[Request.client].status)
    BY <1>3 DEF SettleInbox, RPCAgain, Answered, IntentsTyped, Serving
  <2>2. intents[Request.client].status \in {"done", "uncertain"}
    BY <2>1 DEF Known, IntentsTyped, Intent
  <2> QED BY <1>2, <2>1, <2>2
<1>4. ASSUME Receive PROVE Fits /\ item' \in DOMAIN inbox'
  <2>1. PICK m : m = pos + 1
    OBVIOUS
  <2>2. PICK q : q = (IF log[m].req = Unreadable THEN Malformed(m) ELSE log[m].req)
    OBVIOUS
  <2>3. pos < last /\ log[m].from = "peer" /\ item' = m /\ Received(m, q)
    BY <1>4, <2>1, <2>2 DEF Receive
  <2>4. m \in DOMAIN log /\ m \in Nat
    BY <2>1, <2>3 DEF PageTyped
  <2>5. log[m] \in Message
    BY <2>4
  <2>6. log[m].req \in Req
    BY <2>3, <2>5 DEF Message
  <2>7. q \in Req
    BY <2>2, <2>4, <2>6, RequestTyped
  <2>8. [status |-> "pending", req |-> q] \in InboxRow
    BY <2>7 DEF InboxRow
  <2>9. m \in PeerMessages
    BY <2>3, <2>4 DEF PeerMessages
  <2>10. inbox' = [i \in DOMAIN inbox \cup {m} |->
            IF i = m THEN [status |-> "pending", req |-> q] ELSE inbox[i]]
    BY <2>3 DEF Received
  <2> QED BY <1>4, <2>3, <2>8, <2>9, <2>10, PeerMessagesGrow DEF InboxTyped
<1>5. Fits
  BY <1>1, <1>2, <1>3, <1>4, InboxKept
<1>6. ASSUME DrainInbox, Waiting # {} PROVE item' \in DOMAIN inbox'
  <2>1. Waiting \subseteq DOMAIN inbox /\ Waiting \subseteq Nat
    BY DEF Waiting, InboxTyped, PeerMessages
  <2>2. Min(Waiting) \in DOMAIN inbox
    BY <1>6, <2>1, MinOfNaturals
  <2> QED BY <1>6, <2>2 DEF DrainInbox, store
<1>7. at' \in Busy \/ Serving' => item' \in DOMAIN inbox'
  BY <1>4, <1>5, <1>6, ItemKept DEF InboxTyped
<1> QED BY <1>5, <1>7 DEF InboxTyped

-----------------------------------------------------------------------------
(* The MLS state and the outbox.                                           *)

\* What the process has in memory is the stored state, or the stored state after
\* encryptions that were not stored.
MLSAgrees ==
  /\ snap \in MLSState /\ mls \in MLSState /\ snap.epoch \in -2..epoch /\ snap.opened \subseteq DOMAIN inbox
  /\ at # "down" => mls.epoch = snap.epoch /\ mls.sent >= snap.sent /\ mls.opened = snap.opened

\* The steps that change the MLS state, or where the process is as to running.
LEMMA MLSKept ==
  ASSUME PlaceTyped, [Next]_vars
  PROVE  \/ UNCHANGED <<snap, mls>> /\ (at' # "down" => at # "down")
         \/ UNCHANGED snap /\ Halt
         \/ Start \/ Receive \/ EncryptResponse \/ Bootstrap \/ JoinWelcome
         \/ UNCHANGED snap /\ at # "down" /\ mls' = [mls EXCEPT !.sent = @ + 1]
<1> USE DEF relayVars, store, memory
<1>1. CASE Loop \/ ReceiveFails \/ Start
  BY <1>1 DEF Loop, DrainInbox, Go, CheckRelay, CheckFails, Poll, PollFails, Skip, Taken,
     EndPage, ReceiveFails
<1>2. CASE Process \/ SettleIntentFails
  BY <1>2 DEF Process, RPCRefused, RPCNoRoom, RPCDispatch, RPCAgain, RPCInterrupted, RPCUnverified, RPCInvalid,
     Reject, CallHTTP, CallMCP, CallStorage, CallStream, Stream, SettleInbox, SettleIntentFails,
     SettleIntent, Persisting, Uncertain, Returned, Go, Return
<1>3. CASE EncryptFails
  BY <1>3 DEF EncryptFails, Failed, Reject
<1>4. CASE EncryptResponse \/ FlushSend \/ FlushFails \/ FlushDone
  BY <1>4 DEF FlushSend, FlushFails, FlushDone, Failed, Reject, Go, Return
<1>5. CASE Environment \/ UNCHANGED vars
  BY <1>5 DEF Environment, PeerSends, RelayRekeys, Crash, vars
<1> QED BY <1>1, <1>2, <1>3, <1>4, <1>5 DEF Next, Endpoint, Answer

\* The fields of MLS states.
LEMMA MLSRecords ==
  /\ NoMLS \in MLSState /\ NoMLS.epoch = -2 /\ NoMLS.opened = {} /\ NoMLS.sent = 0
  /\ NoGroup \in MLSState /\ NoGroup.epoch = -1 /\ NoGroup.opened = {} /\ NoGroup.sent = 0
  /\ \A x \in MLSState, e \in Int : LET y == [x EXCEPT !.epoch = e] IN
       y \in MLSState /\ y.epoch = e /\ y.opened = x.opened /\ y.sent = x.sent
<1>1. \A x \in MLSState, e \in Int : LET y == [x EXCEPT !.epoch = e] IN
        y \in MLSState /\ y.epoch = e /\ y.opened = x.opened /\ y.sent = x.sent
  BY DEF MLSState
<1>2. NoMLS \in MLSState /\ NoMLS.epoch = -2 /\ NoMLS.opened = {} /\ NoMLS.sent = 0
  BY DEF NoMLS, MLSState
<1>3. NoGroup \in MLSState /\ NoGroup.epoch = -1 /\ NoGroup.opened = {} /\ NoGroup.sent = 0
  BY <1>1, <1>2 DEF NoGroup
<1> QED BY <1>1, <1>2, <1>3

\* Opening a message and encrypting one.
LEMMA MLSOpened ==
  ASSUME NEW x \in MLSState, NEW S \in SUBSET Nat, NEW y, y = [x EXCEPT !.opened = S]
  PROVE  y \in MLSState /\ y.epoch = x.epoch /\ y.opened = S /\ y.sent = x.sent
  BY DEF MLSState

LEMMA MLSSent ==
  ASSUME NEW x \in MLSState, NEW n \in Nat, NEW y, y = [x EXCEPT !.sent = n]
  PROVE  y \in MLSState /\ y.epoch = x.epoch /\ y.opened = x.opened /\ y.sent = n
  BY DEF MLSState

\* Memory and storage keep agreeing on the MLS state.
LEMMA MLSStep ==
  ASSUME PlaceTyped, PageTyped, InboxTyped, MLSAgrees, log \in Seq(Message), epoch \in Nat, epoch' \in Nat,
         Grows, DOMAIN inbox \subseteq DOMAIN inbox', [Next]_vars
  PROVE  MLSAgrees'
<1>1. epoch <= epoch' /\ snap.epoch \in -2..epoch' /\ snap.opened \subseteq DOMAIN inbox'
  BY DEF Grows, MLSAgrees
<1>2. CASE UNCHANGED <<snap, mls>> /\ (at' # "down" => at # "down")
  BY <1>1, <1>2 DEF MLSAgrees
<1>3. CASE UNCHANGED snap /\ Halt
  BY <1>1, <1>3, MLSRecords DEF MLSAgrees, Halt
<1>4. CASE Start
  <2>1. mls' = snap /\ snap' = snap /\ snap.sent \in Nat /\ snap \in MLSState
    BY <1>4 DEF Start, MLSAgrees, MLSState, store
  <2>2. mls'.sent >= snap'.sent
    BY <2>1
  <2> QED BY <1>1, <2>1, <2>2 DEF MLSAgrees
<1>5. CASE Receive
  <2> DEFINE m == pos + 1
             S == mls.opened \cup {m}
  <2>1. /\ m \in DOMAIN inbox' /\ m \in Nat /\ at # "down"
        /\ mls' = [mls EXCEPT !.opened = S] /\ snap' = [mls EXCEPT !.opened = S]
    <3>1. m \in DOMAIN inbox' /\ snap' = [mls EXCEPT !.opened = S]
      BY <1>5 DEF Receive, Received
    <3>2. m \in Nat
      BY DEF PageTyped
    <3> QED BY <1>5, <3>1, <3>2 DEF Receive
  <2>2. S \in SUBSET Nat
    BY <2>1 DEF MLSAgrees, MLSState
  <2>3. snap' = mls' /\ mls' \in MLSState /\ mls'.epoch = mls.epoch /\ mls'.sent = mls.sent
        /\ mls'.opened = mls.opened \cup {m}
    <3> HIDE DEF S
    <3>1. mls \in MLSState
      BY DEF MLSAgrees
    <3>2. mls' = [mls EXCEPT !.opened = S] /\ snap' = mls'
      BY <2>1
    <3>3. mls' \in MLSState /\ mls'.epoch = mls.epoch /\ mls'.opened = S /\ mls'.sent = mls.sent
      BY <2>2, <3>1, <3>2, MLSOpened
    <3> QED BY <3>2, <3>3 DEF S
  <2>4. mls'.sent >= snap'.sent
    BY <2>3 DEF MLSState
  <2> QED BY <1>1, <2>1, <2>3, <2>4 DEF MLSAgrees
<1>6. CASE EncryptResponse
  <2>1. mls' = [mls EXCEPT !.sent = mls.sent + 1] /\ snap' = mls' /\ at # "down" /\ mls.sent + 1 \in Nat
    BY <1>6 DEF EncryptResponse, SavedState, MLSAgrees, MLSState
  <2>2. mls' \in MLSState /\ mls'.epoch = mls.epoch /\ mls'.opened = mls.opened /\ mls'.sent = mls.sent + 1
    <3>1. mls \in MLSState
      BY DEF MLSAgrees
    <3> QED BY <2>1, <3>1, MLSSent
  <2>3. mls'.sent >= snap'.sent
    BY <2>1, <2>2
  <2> QED BY <1>1, <2>1, <2>2, <2>3 DEF MLSAgrees
<1>7. CASE Bootstrap \/ JoinWelcome
  <2>1. at' = "down" /\ UNCHANGED <<mls, epoch>>
    BY <1>7 DEF Bootstrap, JoinWelcome, memory, relayVars
  <2>2. snap' \in MLSState /\ snap'.epoch \in -2..epoch /\ snap'.opened = {}
    <3>1. CASE Bootstrap
      BY <3>1, MLSRecords DEF Bootstrap
    <3>2. CASE JoinWelcome
      BY <3>2, MLSRecords DEF JoinWelcome
    <3> QED BY <1>7, <3>1, <3>2
  <2> QED BY <2>1, <2>2 DEF MLSAgrees
<1>8. CASE UNCHANGED snap /\ at # "down" /\ mls' = [mls EXCEPT !.sent = @ + 1]
  <2>1. mls' = [mls EXCEPT !.sent = mls.sent + 1] /\ mls.sent + 1 \in Nat /\ snap.sent \in Nat
    BY <1>8 DEF MLSAgrees, MLSState
  <2>2. mls' \in MLSState /\ mls'.epoch = mls.epoch /\ mls'.opened = mls.opened /\ mls'.sent = mls.sent + 1
    <3>1. mls \in MLSState
      BY DEF MLSAgrees
    <3> QED BY <2>1, <3>1, MLSSent
  <2>3. mls'.sent >= snap'.sent
    <3>1. mls.sent \in Nat /\ mls.sent >= snap.sent /\ snap' = snap
      BY <1>8 DEF MLSAgrees, MLSState
    <3> QED BY <2>1, <2>2, <3>1
  <2> QED BY <1>1, <1>8, <2>2, <2>3 DEF MLSAgrees
<1> QED BY <1>2, <1>3, <1>4, <1>5, <1>6, <1>7, <1>8, MLSKept

\* Every response was encrypted with the state of an epoch the endpoint has been
\* in, and no two with the same generation of it.
OutboxTyped == outbox \in Seq(Response) /\ \A i \in DOMAIN outbox : outbox[i].epoch <= snap.epoch

\* The steps that change the outbox.
LEMMA OutboxKept ==
  ASSUME [Next]_vars
  PROVE  UNCHANGED outbox \/ EncryptResponse \/ FlushSend
<1> USE DEF relayVars, store, memory
<1>1. CASE Loop \/ ReceiveFails \/ Start
  BY <1>1 DEF Loop, DrainInbox, CheckRelay, Poll, Skip, Receive, EndPage, ReceiveFails, Start
<1>2. CASE Process \/ SettleIntentFails
  BY <1>2 DEF Process, RPCRefused, RPCNoRoom, RPCDispatch, RPCAgain, RPCInterrupted, RPCUnverified, RPCInvalid,
     CallHTTP, CallMCP, CallStorage, CallStream, Stream, SettleInbox, SettleIntentFails, SettleIntent
<1>3. CASE Answer
  BY <1>3 DEF Answer, EncryptFails, FlushFails, FlushDone
<1>4. CASE Environment \/ UNCHANGED vars
  BY <1>4 DEF Environment, PeerSends, RelayRekeys, Bootstrap, JoinWelcome, Crash, vars
<1> QED BY <1>1, <1>2, <1>3, <1>4 DEF Next, Endpoint

\* The stored state only goes on: to a later epoch, or a later generation of it.
LEMMA SnapAdvances ==
  ASSUME PlaceTyped, MLSAgrees, MLSAgrees', epoch \in Nat, [Next]_vars
  PROVE  snap'.epoch > snap.epoch \/ (snap'.epoch = snap.epoch /\ snap'.sent >= snap.sent)
<1>1. snap.epoch \in Int /\ snap.sent \in Nat /\ mls.sent \in Nat
  BY DEF MLSAgrees, MLSState
<1>2. CASE UNCHANGED snap
  BY <1>1, <1>2
<1>3. CASE Receive
  <2>1. PICK S : snap' = [mls EXCEPT !.opened = S] /\ at # "down"
    BY <1>3 DEF Receive, Received
  <2>2. snap'.epoch = mls.epoch /\ snap'.sent = mls.sent
    BY <2>1 DEF MLSAgrees, MLSState
  <2> QED BY <1>1, <2>1, <2>2 DEF MLSAgrees
<1>4. CASE EncryptResponse
  <2>1. snap' = [mls EXCEPT !.sent = mls.sent + 1] /\ at # "down"
    BY <1>4 DEF EncryptResponse, SavedState, MLSAgrees, MLSState
  <2>2. snap'.epoch = mls.epoch /\ snap'.sent = mls.sent + 1
    BY <2>1 DEF MLSAgrees, MLSState
  <2> QED BY <1>1, <2>1, <2>2 DEF MLSAgrees
<1>5. CASE Bootstrap
  BY <1>1, <1>5, MLSRecords DEF Bootstrap
<1>6. CASE JoinWelcome
  BY <1>1, <1>6, MLSRecords DEF JoinWelcome
<1>7. CASE Start
  BY <1>2, <1>7 DEF Start, store
<1> QED BY <1>2, <1>3, <1>4, <1>5, <1>6, <1>7, MLSKept

\* What is appended to the outbox, or marked in it.
LEMMA OutboxSteps ==
  ASSUME PlaceTyped, InboxTyped, MLSAgrees, OutboxTyped, [Next]_vars
  PROVE  \/ UNCHANGED outbox
         \/ /\ Len(outbox') = Len(outbox) /\ outbox' \in Seq(Response)
            /\ \A i \in DOMAIN outbox :
                 outbox'[i].epoch = outbox[i].epoch /\ outbox'[i].gen = outbox[i].gen
         \/ \E x \in Response :
              /\ outbox' = Append(outbox, x) /\ x.epoch = snap.epoch /\ x.gen = mls.sent
              /\ snap'.epoch = snap.epoch /\ snap'.sent = mls.sent + 1
<1>1. CASE FlushSend
  <2>1. PICK k : k \in DOMAIN outbox /\ outbox' = [outbox EXCEPT ![k].sent = TRUE]
    BY <1>1, OldestUnsent DEF FlushSend, OutboxTyped
  <2>2. outbox \in Seq(Response)
    BY DEF OutboxTyped
  <2>3. outbox[k] \in Response
    BY <2>1, <2>2
  <2>4. [outbox[k] EXCEPT !.sent = TRUE] \in Response
    BY <2>3 DEF Response
  <2>5. outbox' = [outbox EXCEPT ![k] = [outbox[k] EXCEPT !.sent = TRUE]]
    BY <2>1
  <2>6. Len(outbox') = Len(outbox) /\ outbox' \in Seq(Response)
    BY <2>1, <2>2, <2>4, <2>5
  <2>7. ASSUME NEW i \in DOMAIN outbox
        PROVE  outbox'[i].epoch = outbox[i].epoch /\ outbox'[i].gen = outbox[i].gen
    <3>1. outbox[i] \in Response
      BY <2>2
    <3>2. CASE i = k
      <4>1. outbox'[i] = [outbox[i] EXCEPT !.sent = TRUE]
        BY <2>1, <2>2, <3>2
      <4> QED BY <3>1, <4>1 DEF Response
    <3>3. CASE i # k
      BY <2>1, <2>2, <3>3
    <3> QED BY <3>2, <3>3
  <2> QED BY <2>6, <2>7
<1>2. CASE EncryptResponse
  <2>1. CASE Stored(OpOf(Request, resp.seq))
    BY <1>2, <2>1 DEF EncryptResponse, SaveOutbox
  <2>2. CASE ~Stored(OpOf(Request, resp.seq))
    <3> DEFINE x == [op |-> OpOf(Request, resp.seq), kind |-> resp.kind, gen |-> mls.sent,
                     epoch |-> mls.epoch, sent |-> FALSE]
    <3>1. at = "persist" /\ outbox' = Append(outbox, x) /\ snap' = [mls EXCEPT !.sent = mls.sent + 1]
      BY <1>2, <2>2 DEF EncryptResponse, SaveOutbox, SavedState
    <3>2. Request \in Req
      BY <3>1 DEF InboxTyped, InboxRow, Request, Busy
    <3>3. OpOf(Request, resp.seq) \in Operation /\ resp.kind \in Kinds
      BY <3>2 DEF Req, OpOf, Operation, PlaceTyped, Reply
    <3>4. x \in Response /\ x.epoch = mls.epoch /\ x.gen = mls.sent
      BY <3>3 DEF Response, MLSAgrees, MLSState
    <3>5. snap'.epoch = mls.epoch /\ snap'.sent = mls.sent + 1 /\ mls.epoch = snap.epoch
      BY <3>1 DEF MLSAgrees, MLSState
    <3> HIDE DEF x
    <3> QED BY <3>1, <3>4, <3>5
  <2> QED BY <2>1, <2>2
<1> QED BY <1>1, <1>2, OutboxKept

\* Generations are used in order, and what is stored is ahead of what was sent.
LEMMA OutboxStep ==
  ASSUME PlaceTyped, InboxTyped, MLSAgrees, MLSAgrees', OutboxTyped, GenerationOnce, epoch \in Nat, [Next]_vars
  PROVE  OutboxTyped' /\ GenerationOnce'
<1>1. snap.epoch \in Int /\ snap.sent \in Nat /\ mls.sent \in Nat /\ snap'.epoch \in Int /\ snap'.sent \in Nat
  BY DEF MLSAgrees, MLSState
<1>2. snap'.epoch > snap.epoch \/ (snap'.epoch = snap.epoch /\ snap'.sent >= snap.sent)
  BY SnapAdvances
<1>3. outbox \in Seq(Response) /\ \A i \in DOMAIN outbox : outbox[i].epoch \in Int /\ outbox[i].gen \in Nat
  <2>1. outbox \in Seq(Response)
    BY DEF OutboxTyped
  <2>2. \A i \in DOMAIN outbox : outbox[i] \in Response
    BY <2>1
  <2> QED BY <2>1, <2>2 DEF Response
<1>4. ASSUME Len(outbox') = Len(outbox), outbox' \in Seq(Response),
             \A i \in DOMAIN outbox : outbox'[i].epoch = outbox[i].epoch /\ outbox'[i].gen = outbox[i].gen
      PROVE  OutboxTyped' /\ GenerationOnce'
  <2>1. DOMAIN outbox' = DOMAIN outbox
    BY <1>3, <1>4
  <2>2. \A i \in DOMAIN outbox : outbox'[i].epoch <= snap'.epoch
    BY <1>1, <1>2, <1>3, <1>4 DEF OutboxTyped
  <2>3. \A i \in DOMAIN outbox : outbox'[i].epoch = snap'.epoch => outbox'[i].gen < snap'.sent
    BY <1>1, <1>2, <1>3, <1>4 DEF OutboxTyped, GenerationOnce
  <2>4. \A i, j \in DOMAIN outbox' :
          i # j => <<outbox'[i].epoch, outbox'[i].gen>> # <<outbox'[j].epoch, outbox'[j].gen>>
    BY <1>4, <2>1 DEF GenerationOnce
  <2> QED BY <1>4, <2>1, <2>2, <2>3, <2>4 DEF OutboxTyped, GenerationOnce
<1>5. CASE UNCHANGED outbox
  BY <1>3, <1>4, <1>5
<1>6. ASSUME NEW x \in Response, outbox' = Append(outbox, x), x.epoch = snap.epoch, x.gen = mls.sent,
             snap'.epoch = snap.epoch, snap'.sent = mls.sent + 1, mls.sent >= snap.sent
      PROVE  OutboxTyped' /\ GenerationOnce'
  <2>1. /\ outbox' \in Seq(Response) /\ DOMAIN outbox' = DOMAIN outbox \cup {Len(outbox) + 1}
        /\ Len(outbox) + 1 \notin DOMAIN outbox /\ outbox'[Len(outbox) + 1] = x
        /\ \A i \in DOMAIN outbox : outbox'[i] = outbox[i]
    BY <1>3, <1>6
  <2>2. \A i \in DOMAIN outbox' : outbox'[i].epoch <= snap'.epoch
    BY <1>1, <1>6, <2>1 DEF OutboxTyped
  <2>3. \A i \in DOMAIN outbox : outbox[i].epoch = snap.epoch => outbox[i].gen < mls.sent
    BY <1>1, <1>3, <1>6 DEF GenerationOnce
  <2>4. \A i \in DOMAIN outbox' : outbox'[i].epoch = snap'.epoch => outbox'[i].gen < snap'.sent
    BY <1>1, <1>3, <1>6, <2>1, <2>3
  <2>5. \A i \in DOMAIN outbox : outbox[i].epoch # x.epoch \/ outbox[i].gen # x.gen
    BY <1>1, <1>3, <1>6, <2>3
  <2>6. ASSUME NEW i \in DOMAIN outbox', NEW j \in DOMAIN outbox', i # j
        PROVE  outbox'[i].epoch # outbox'[j].epoch \/ outbox'[i].gen # outbox'[j].gen
    <3>1. CASE i \in DOMAIN outbox /\ j \in DOMAIN outbox
      BY <2>1, <2>6, <3>1 DEF GenerationOnce
    <3>2. CASE i \in DOMAIN outbox /\ j = Len(outbox) + 1
      BY <2>1, <2>5, <3>2
    <3>3. CASE i = Len(outbox) + 1 /\ j \in DOMAIN outbox
      BY <2>1, <2>5, <3>3
    <3> QED BY <2>1, <2>6, <3>1, <3>2, <3>3
  <2> QED BY <2>1, <2>2, <2>4, <2>6 DEF OutboxTyped, GenerationOnce
<1>7. at # "down" => mls.sent >= snap.sent
  BY DEF MLSAgrees
<1>8. CASE \E x \in Response :
              /\ outbox' = Append(outbox, x) /\ x.epoch = snap.epoch /\ x.gen = mls.sent
              /\ snap'.epoch = snap.epoch /\ snap'.sent = mls.sent + 1
  <2>1. at # "down"
    <3>1. Len(outbox') # Len(outbox)
      BY <1>3, <1>8
    <3>2. EncryptResponse \/ FlushSend
      BY <3>1, OutboxKept
    <3> QED BY <3>2 DEF EncryptResponse, FlushSend
  <2> QED BY <1>6, <1>7, <1>8, <2>1
<1> QED BY <1>4, <1>5, <1>8, OutboxSteps

-----------------------------------------------------------------------------
(* The handlers called.                                                    *)

\* The request dispatched has not reached its handler yet.
Calling == at = "call" \/ (at \in {"persist", "flush"} /\ resp.kind = "notice")

\* No two clients are bound to the same request.
IntentsDistinct ==
  \A c, d \in DOMAIN intents : c # d => intents[c].id # intents[d].id

\* What is stored about every handler called: its intent, its grant, the grant of the vault.
EffectsStored ==
  /\ effects \in Seq(Req)
  /\ \A i \in DOMAIN effects :
       /\ Known(effects[i]) /\ ~Bound(effects[i])
       /\ effects[i].body \in Approvals => effects[i].nonce \in grants
       /\ Handler(effects[i]) = "storage" => effects[i].body \in vault

\* What is stored about the request whose handler is about to be called, which is
\* not what is stored of an earlier one.
CallFresh == Calling =>
  /\ ~Bound(Request)
  /\ Request.body \in Approvals => Request.nonce \in grants
  /\ \A i \in DOMAIN effects :
       /\ effects[i].client # Request.client
       /\ {effects[i].body, Request.body} \subseteq Approvals => effects[i].nonce # Request.nonce

\* The steps that call a handler.
LEMMA EffectsKept ==
  ASSUME [Next]_vars
  PROVE  \/ UNCHANGED effects /\ vault \subseteq vault'
         \/ /\ at = "call" /\ effects' = Append(effects, Request) /\ UNCHANGED grants
            /\ ~Calling' /\ vault \subseteq vault'
            /\ Handler(Request) = "storage" => ~Used(Request.body) /\ Request.body \in vault'
<1> USE DEF relayVars, store, memory
<1>1. CASE Loop \/ ReceiveFails \/ Start
  BY <1>1 DEF Loop, DrainInbox, CheckRelay, Poll, Skip, Receive, EndPage, ReceiveFails, Start
<1>2. CASE CallHTTP \/ CallMCP \/ CallStorage \/ CallStream
  BY <1>2 DEF CallHTTP, CallMCP, CallStorage, CallStream, Effect, Returned, Persisting, Uncertain, Go, Calling
<1>3. CASE RPCRefused \/ RPCNoRoom \/ RPCDispatch \/ RPCAgain \/ RPCInterrupted \/ RPCUnverified \/ RPCInvalid \/ Stream
           \/ SettleInbox \/ SettleIntentFails \/ SettleIntent
  BY <1>3 DEF RPCRefused, RPCNoRoom, RPCDispatch, RPCAgain, RPCInterrupted, RPCUnverified, RPCInvalid,
     Stream, SettleInbox, SettleIntentFails, SettleIntent
<1>4. CASE Answer
  BY <1>4 DEF Answer, EncryptResponse, EncryptFails, FlushSend, FlushFails, FlushDone
<1>5. CASE Environment \/ UNCHANGED vars
  BY <1>5 DEF Environment, PeerSends, RelayRekeys, Bootstrap, JoinWelcome, Crash, vars
<1> QED BY <1>1, <1>2, <1>3, <1>4, <1>5 DEF Next, Endpoint, Process

\* The steps that consume a grant.
LEMMA GrantsKept ==
  ASSUME [Next]_vars
  PROVE  UNCHANGED grants \/ RPCDispatch
<1> USE DEF relayVars, store, memory
<1>1. CASE Loop \/ ReceiveFails \/ Start
  BY <1>1 DEF Loop, DrainInbox, CheckRelay, Poll, Skip, Receive, EndPage, ReceiveFails, Start
<1>2. CASE Process \/ SettleIntentFails
  BY <1>2 DEF Process, RPCRefused, RPCNoRoom, RPCAgain, RPCInterrupted, RPCUnverified, RPCInvalid,
     CallHTTP, CallMCP, CallStorage, CallStream, Stream, SettleInbox, SettleIntentFails, SettleIntent
<1>3. CASE Answer
  BY <1>3 DEF Answer, EncryptResponse, EncryptFails, FlushSend, FlushFails, FlushDone
<1>4. CASE Environment \/ UNCHANGED vars
  BY <1>4 DEF Environment, PeerSends, RelayRekeys, Bootstrap, JoinWelcome, Crash, vars
<1> QED BY <1>1, <1>2, <1>3, <1>4 DEF Next, Endpoint

\* A request is about to be called when it has just been dispatched, or was already.
LEMMA CallingKept ==
  ASSUME PlaceTyped, [Next]_vars, Calling'
  PROVE  Calling \/ RPCDispatch
<1> USE DEF relayVars, store, memory
<1>1. ~Halt /\ ~Return
  BY DEF Halt, Return, PlaceTyped, Calling, Flush
<1>2. ~(Loop \/ ReceiveFails \/ Start)
  <2>1. ~ReceiveFails
    BY <1>1 DEF ReceiveFails
  <2>2. ~(DrainInbox \/ CheckRelay \/ Poll \/ Start)
    BY <1>1 DEF Calling, DrainInbox, Go, CheckRelay, CheckFails, Poll, PollFails, Start, Flush
  <2>3. ~(Skip \/ Receive \/ EndPage)
    BY <1>1 DEF Calling, Skip, Taken, Receive, EndPage, Flush
  <2> QED BY <2>1, <2>2, <2>3 DEF Loop
<1>3. \A kind \in Kinds : \A seq : Persisting(kind, seq) => kind = "notice"
  BY DEF Persisting, Calling
<1>4. ~\E seq : Uncertain(seq)
  BY <1>3 DEF Uncertain, Kinds
<1>5. Process \/ SettleIntentFails => RPCDispatch
  BY <1>1, <1>3, <1>4 DEF Process, RPCRefused, RPCNoRoom, RPCAgain, RPCInterrupted, RPCUnverified, RPCInvalid,
     Reject, CallHTTP, CallMCP, CallStorage, CallStream, Stream, SettleInbox, SettleIntentFails,
     SettleIntent, Returned, Go, Kinds, Calling
<1>6. CASE Answer
  BY <1>1, <1>6 DEF Answer, EncryptResponse, EncryptFails, FlushSend, FlushFails, FlushDone, Failed,
     Reject, Go, Calling
<1>7. CASE Environment \/ UNCHANGED vars
  BY <1>1, <1>7 DEF Environment, PeerSends, RelayRekeys, Bootstrap, JoinWelcome, Crash, vars, Calling
<1> QED BY <1>2, <1>5, <1>6, <1>7 DEF Next, Endpoint

\* No step stores two intents of one request.
LEMMA DistinctStep ==
  ASSUME PlaceTyped, IntentsTyped, InboxTyped, IntentsDistinct, [Next]_vars
  PROVE  IntentsDistinct'
<1>1. IntentsGrow /\ (RPCDispatch \/ DOMAIN intents' = DOMAIN intents)
  BY IntentsStep
<1>2. CASE DOMAIN intents' = DOMAIN intents
  BY <1>1, <1>2 DEF IntentsGrow, IntentsDistinct
<1>3. CASE RPCDispatch
  <2>1. PICK r : r = Request
    OBVIOUS
  <2>2. \A c \in DOMAIN intents : intents[c].id # r.id
    BY <1>3, <2>1 DEF RPCDispatch
  <2>3. intents' = [c \in DOMAIN intents \cup {r.client} |->
           IF c = r.client THEN [id |-> r.id, body |-> r.body, status |-> "dispatched", answered |-> FALSE]
           ELSE intents[c]]
    BY <1>3, <2>1 DEF RPCDispatch, PutIntent
  <2>4. r.client \notin DOMAIN intents
    BY <1>3, <2>1, DispatchedRequest
  <2>5. DOMAIN intents' = DOMAIN intents \cup {r.client} /\ intents'[r.client].id = r.id
        /\ \A c \in DOMAIN intents : intents'[c] = intents[c]
    BY <2>3, <2>4
  <2> QED BY <2>2, <2>5 DEF IntentsDistinct
<1> QED BY <1>1, <1>2, <1>3

\* Nothing stored about a handler called is lost.
LEMMA StoredKept ==
  ASSUME IntentsGrow, grants \subseteq grants', vault \subseteq vault', NEW e,
         Known(e), ~Bound(e), e.body \in Approvals => e.nonce \in grants,
         Handler(e) = "storage" => e.body \in vault
  PROVE  /\ e.client \in DOMAIN intents' /\ intents'[e.client].id = e.id /\ intents'[e.client].body = e.body
         /\ e.body \in Approvals => e.nonce \in grants'
         /\ Handler(e) = "storage" => e.body \in vault'
<1>1. e.client \in DOMAIN intents /\ intents[e.client].id = e.id /\ intents[e.client].body = e.body
  BY DEF Known, Bound
<1> QED BY <1>1 DEF IntentsGrow

\* Nothing is forgotten of a handler that was called.
LEMMA StoredStep ==
  ASSUME PlaceTyped, IntentsTyped, InboxTyped, EffectsStored, CallFresh, [Next]_vars
  PROVE  EffectsStored'
<1>1. IntentsGrow
  BY IntentsStep
<1>2. grants \subseteq grants'
  BY GrantsKept DEF RPCDispatch, ConsumeGrant
<1> DEFINE Fine(e) == /\ e.client \in DOMAIN intents'
                      /\ intents'[e.client].id = e.id /\ intents'[e.client].body = e.body
                      /\ e.body \in Approvals => e.nonce \in grants'
                      /\ Handler(e) = "storage" => e.body \in vault'
<1>3. vault \subseteq vault'
  BY EffectsKept
<1>4. \A i \in DOMAIN effects : Fine(effects[i])
  BY <1>1, <1>2, <1>3, StoredKept DEF EffectsStored
<1>5. effects' \in Seq(Req) /\ \A i \in DOMAIN effects' : Fine(effects'[i])
  <2>1. CASE UNCHANGED effects
    BY <1>4, <2>1 DEF EffectsStored
  <2>2. CASE /\ at = "call" /\ effects' = Append(effects, Request)
             /\ Handler(Request) = "storage" => Request.body \in vault'
    <3>1. PICK r : r = Request
      OBVIOUS
    <3>2. r \in Req
      BY <2>2, <3>1 DEF InboxTyped, InboxRow, Request, Busy
    <3>3. Known(r) /\ ~Bound(r) /\ (r.body \in Approvals => r.nonce \in grants)
      BY <2>2, <3>1 DEF IntentsTyped, Serving, CallFresh, Calling
    <3>4. r.client \in DOMAIN intents /\ intents[r.client].id = r.id /\ intents[r.client].body = r.body
      BY <3>3 DEF Known, Bound
    <3>5. Fine(r)
      BY <1>1, <1>2, <2>2, <3>1, <3>3, <3>4 DEF IntentsGrow
    <3>6. effects \in Seq(Req)
      BY DEF EffectsStored
    <3>7. /\ effects' \in Seq(Req) /\ DOMAIN effects' = DOMAIN effects \cup {Len(effects) + 1}
          /\ effects'[Len(effects) + 1] = r /\ \A i \in DOMAIN effects : effects'[i] = effects[i]
      BY <2>2, <3>1, <3>2, <3>6
    <3> HIDE DEF Fine
    <3> QED BY <1>4, <3>5, <3>7
  <2> QED BY <2>1, <2>2, EffectsKept
<1> QED BY <1>5 DEF EffectsStored, Known, Bound

\* The request about to be called is not one that was called before.
LEMMA FreshStep ==
  ASSUME PlaceTyped, IntentsTyped, InboxTyped, EffectsStored, CallFresh, [Next]_vars
  PROVE  CallFresh'
<1> SUFFICES ASSUME Calling'
             PROVE  /\ ~(Bound(Request))'
                    /\ Request'.body \in Approvals => Request'.nonce \in grants'
                    /\ \A i \in DOMAIN effects' :
                         /\ effects'[i].client # Request'.client
                         /\ {effects'[i].body, Request'.body} \subseteq Approvals
                              => effects'[i].nonce # Request'.nonce
  BY DEF CallFresh
<1>1. Request' = Request
  <2>1. Serving'
    BY DEF Calling, Serving
  <2> QED BY <2>1, ServingKept DEF Request
<1>2. UNCHANGED effects
  BY EffectsKept
<1>3. PICK r : r = Request
  OBVIOUS
<1>4. IntentsGrow
  BY IntentsStep
<1>5. CASE Calling
  <2>1. Known(r) /\ ~Bound(r) /\ (r.body \in Approvals => r.nonce \in grants)
    BY <1>3, <1>5 DEF CallFresh, IntentsTyped, Serving, Calling
  <2>2. intents'[r.client].id = r.id /\ intents'[r.client].body = r.body
    BY <1>4, <2>1 DEF IntentsGrow, Known, Bound
  <2>3. grants \subseteq grants'
    BY GrantsKept DEF RPCDispatch, ConsumeGrant
  <2>4. ~Bound(Request)'
    BY <1>1, <1>3, <2>2 DEF Bound
  <2> QED BY <1>1, <1>2, <1>3, <1>5, <2>1, <2>3, <2>4 DEF CallFresh
<1>6. CASE RPCDispatch
  <2>1. r.client \notin DOMAIN intents
    BY <1>3, <1>6, DispatchedRequest
  <2>2. r.body \in Approvals => r.nonce \notin grants /\ r.nonce \in grants'
    BY <1>3, <1>6 DEF RPCDispatch, Admitted, GrantRefused, MayRefuseGrant, ConsumeGrant
  <2>3. intents' = [c \in DOMAIN intents \cup {r.client} |->
           IF c = r.client THEN [id |-> r.id, body |-> r.body, status |-> "dispatched", answered |-> FALSE]
           ELSE intents[c]]
    BY <1>3, <1>6 DEF RPCDispatch, PutIntent
  <2>4. intents'[r.client].id = r.id /\ intents'[r.client].body = r.body
    BY <2>3
  <2>5. ~Bound(Request)'
    BY <1>1, <1>3, <2>4 DEF Bound
  <2>6. \A i \in DOMAIN effects :
          effects[i].client # r.client
          /\ ({effects[i].body, r.body} \subseteq Approvals => effects[i].nonce # r.nonce)
    BY <2>1, <2>2 DEF EffectsStored, Known
  <2> QED BY <1>1, <1>2, <1>3, <2>2, <2>5, <2>6
<1> QED BY <1>5, <1>6, CallingKept

\* No step calls a handler twice.
LEMMA OnceStep ==
  ASSUME PlaceTyped, IntentsTyped, InboxTyped, IntentsDistinct, EffectsStored, CallFresh, EffectOnce, [Next]_vars
  PROVE  EffectOnce'
<1>1. CASE UNCHANGED effects
  BY <1>1 DEF EffectOnce
<1>2. CASE /\ at = "call" /\ effects' = Append(effects, Request)
           /\ Handler(Request) = "storage" => ~Used(Request.body)
  <2>1. PICK r : r = Request
    OBVIOUS
  <2>2. r \in Req /\ effects \in Seq(Req)
    BY <1>2, <2>1 DEF InboxTyped, InboxRow, Request, Busy, EffectsStored
  <2>3. /\ effects' \in Seq(Req) /\ DOMAIN effects' = DOMAIN effects \cup {Len(effects) + 1}
        /\ effects'[Len(effects) + 1] = r /\ \A i \in DOMAIN effects : effects'[i] = effects[i]
    BY <1>2, <2>1, <2>2
  <2>4. Known(r) /\ ~Bound(r)
    BY <1>2, <2>1 DEF IntentsTyped, Serving, CallFresh, Calling
  <2>5. ASSUME NEW i \in DOMAIN effects
        PROVE  /\ effects[i].client # r.client /\ effects[i].id # r.id
               /\ {effects[i].body, r.body} \subseteq Approvals => effects[i].nonce # r.nonce
               /\ Handler(effects[i]) = "storage" \/ Handler(r) = "storage" => effects[i].body # r.body
    <3>1. effects[i].client # r.client
          /\ ({effects[i].body, r.body} \subseteq Approvals => effects[i].nonce # r.nonce)
      BY <1>2, <2>1 DEF CallFresh, Calling
    <3>2. Known(effects[i]) /\ ~Bound(effects[i])
      BY DEF EffectsStored
    <3>3. effects[i].id # r.id
      BY <2>4, <3>1, <3>2 DEF Known, Bound, IntentsDistinct
    <3>4. Handler(effects[i]) = "storage" => effects[i].body \in vault
      BY DEF EffectsStored
    <3>5. Handler(r) = "storage" => r.body \notin vault
      BY <1>2, <2>1 DEF Used
    <3>6. effects[i].body = r.body => Handler(effects[i]) = Handler(r)
      BY DEF Handler
    <3> QED BY <3>1, <3>3, <3>4, <3>5, <3>6
  <2>6. ASSUME NEW i \in DOMAIN effects', NEW j \in DOMAIN effects', i # j
        PROVE  /\ effects'[i].client # effects'[j].client /\ effects'[i].id # effects'[j].id
               /\ {effects'[i].body, effects'[j].body} \subseteq Approvals
                    => effects'[i].nonce # effects'[j].nonce
               /\ Handler(effects'[i]) = "storage" => effects'[i].body # effects'[j].body
    <3>1. CASE i \in DOMAIN effects /\ j \in DOMAIN effects
      BY <2>3, <2>6, <3>1 DEF EffectOnce
    <3>2. CASE i \in DOMAIN effects /\ j = Len(effects) + 1
      BY <2>3, <2>5, <3>2
    <3>3. CASE i = Len(effects) + 1 /\ j \in DOMAIN effects
      BY <2>3, <2>5, <3>3
    <3> QED BY <2>3, <2>6, <3>1, <3>2, <3>3
  <2> QED BY <2>6 DEF EffectOnce
<1> QED BY <1>1, <1>2, EffectsKept

-----------------------------------------------------------------------------
(* The invariant, and what follows from it.                                *)

Typed == log \in Seq(Message) /\ epoch \in Nat /\ pending \in BOOLEAN

EndpointInvariant ==
  /\ Typed /\ PlaceTyped /\ PageTyped /\ InboxTyped /\ IntentsTyped
  /\ MLSAgrees /\ OutboxTyped /\ GenerationOnce
  /\ IntentsDistinct /\ EffectsStored /\ CallFresh /\ EffectOnce

\* The invariant holds when the endpoint starts.
LEMMA EndpointInit == Init => EndpointInvariant
<1> SUFFICES ASSUME Init PROVE EndpointInvariant
  OBVIOUS
<1>1. Typed /\ PageTyped
  <2>1. pending \in BOOLEAN /\ frozen \in BOOLEAN
    BY Zenon DEF Init
  <2>2. log \in Seq(Message) /\ epoch \in Nat /\ Len(log) = 0
    BY DEF Init
  <2>3. cursor \in 0..Len(log) /\ last \in 0..Len(log) /\ pos \in 0..last
    BY <2>2 DEF Init
  <2> QED BY <2>1, <2>2, <2>3, Zenon DEF Typed, PageTyped
<1>2. PlaceTyped
  BY DEF Init, PlaceTyped, Places, Reply, Kinds, Flush
<1>3. InboxTyped /\ IntentsTyped /\ IntentsDistinct
  BY DEF Init, InboxTyped, IntentsTyped, IntentsDistinct, Serving, Busy
<1>4. MLSAgrees
  BY MLSRecords DEF Init, MLSAgrees
<1>5. OutboxTyped /\ GenerationOnce
  BY DEF Init, OutboxTyped, GenerationOnce
<1>6. EffectsStored /\ CallFresh /\ EffectOnce
  BY DEF Init, EffectsStored, CallFresh, Calling, EffectOnce
<1> QED BY <1>1, <1>2, <1>3, <1>4, <1>5, <1>6 DEF EndpointInvariant

\* No step breaks the invariant.
LEMMA EndpointStep == EndpointInvariant /\ [Next]_vars => EndpointInvariant'
<1> SUFFICES ASSUME EndpointInvariant, [Next]_vars PROVE EndpointInvariant'
  OBVIOUS
<1> USE DEF EndpointInvariant
<1>1. Typed' /\ Grows
  BY RelayGrows DEF Typed, OutboxTyped
<1>2. PlaceTyped' /\ PageTyped'
  BY <1>1, PlaceStep, PageStep DEF Typed
<1>3. InboxTyped' /\ DOMAIN inbox \subseteq DOMAIN inbox'
  BY <1>1, InboxStep DEF Typed
<1>4. IntentsTyped' /\ IntentsDistinct'
  BY IntentsStep, DistinctStep
<1>5. MLSAgrees'
  BY <1>1, <1>3, MLSStep DEF Typed
<1>6. OutboxTyped' /\ GenerationOnce'
  BY <1>5, OutboxStep DEF Typed
<1>7. EffectsStored' /\ CallFresh' /\ EffectOnce'
  BY StoredStep, FreshStep, OnceStep
<1> QED BY <1>1, <1>2, <1>3, <1>4, <1>5, <1>6, <1>7

\* The endpoint's invariant: what the process has in memory agrees with what is stored, every
\* response stored was encrypted before the stored generation, and every handler called has its
\* intent and its grants stored.
THEOREM EndpointInvariantHolds == Spec => []EndpointInvariant
<1>1. Init => EndpointInvariant
  BY EndpointInit
<1>2. EndpointInvariant /\ [Next]_vars => EndpointInvariant'
  BY EndpointStep
<1> QED BY <1>1, <1>2, PTL DEF Spec

\* The variables keep their types: the page lies within the log, the inbox has only messages of
\* the peer, and a message that is processed is in the inbox.
THEOREM TypeOKHolds == Spec => []TypeOK
<1>1. EndpointInvariant => TypeOK
  <2> SUFFICES ASSUME EndpointInvariant PROVE TypeOK
    OBVIOUS
  <2> USE DEF EndpointInvariant
  <2>1. /\ epoch \in Nat /\ pending \in BOOLEAN /\ snap.epoch \in -2..epoch
        /\ DOMAIN inbox \subseteq PeerMessages /\ DOMAIN intents \subseteq Clients
        /\ cursor \in 0..Len(log) /\ pos \in 0..last /\ last \in 0..Len(log) /\ frozen \in BOOLEAN
    BY Zenon DEF Typed, MLSAgrees, InboxTyped, IntentsTyped, PageTyped
  <2>2. \A m \in DOMAIN inbox : inbox[m].status \in {"pending", "done", "uncertain", "rejected"}
    BY DEF InboxTyped, InboxRow
  <2>3. \A c \in DOMAIN intents : intents[c].status \in {"dispatched", "done", "uncertain"}
    BY DEF IntentsTyped, Intent
  <2>4. at \in Places /\ (at \in Busy => item \in DOMAIN inbox)
    BY DEF PlaceTyped, InboxTyped
  <2> QED BY <2>1, <2>2, <2>3, <2>4, Zenon DEF TypeOK, Places, Busy
<1> QED BY <1>1, EndpointInvariantHolds, PTL

\* A handler is called at most once for a client, a request, a grant and a grant of the vault,
\* through crashes, retries and messages read again (RPCDispatch stores the intent and the nonce
\* before the call, only of a client it does not know, an id no client has and a nonce not consumed).
THEOREM EffectOnceHolds == Spec => []EffectOnce
<1>1. EndpointInvariant => EffectOnce
  BY DEF EndpointInvariant
<1> QED BY <1>1, EndpointInvariantHolds, PTL

\* No generation of an epoch is used by two responses in the outbox (encryptResponse stores the
\* advanced state in the transaction that stores the response).
THEOREM GenerationOnceHolds == Spec => []GenerationOnce
<1>1. EndpointInvariant => GenerationOnce
  BY DEF EndpointInvariant
<1> QED BY <1>1, EndpointInvariantHolds, PTL

\* A message that is not in the inbox has not been opened by the stored MLS state (receive stores
\* the state and the message together).
THEOREM StillReadableHolds == Spec => []StillReadable
<1>1. EndpointInvariant => StillReadable
  BY DEF EndpointInvariant, MLSAgrees, StillReadable
<1> QED BY <1>1, EndpointInvariantHolds, PTL

-----------------------------------------------------------------------------
(* The endpoint executes requests.                                          *)

\* A response of the handler is on its way, so the handler was called.
Delivering ==
  \/ at = "stream"
  \/ at \in {"persist", "flush"} /\ resp.kind \in {"delta", "final", "result"}
  \/ at = "settle" /\ resp.kind # "uncertain"

\* A request that is served has no response with its intent until it is settled.
Unanswered == Serving /\ at # "settled" => ~Answered(Request)
Handled    == Delivering => \E i \in DOMAIN effects : effects[i].client = Request.client

\* The last step of serving a request ends it.
LEMMA SettledEnds ==
  ASSUME PlaceTyped, [Next]_vars, at = "settled", Serving'
  PROVE  at' = "settled"
<1> USE DEF relayVars, store, memory
<1>1. ~Return /\ ~Halt
  BY DEF Return, Halt, Serving, PlaceTyped, Flush
<1>2. ~(Loop \/ ReceiveFails \/ Start)
  BY DEF Loop, DrainInbox, CheckRelay, Poll, Skip, Receive, EndPage, ReceiveFails, Start
<1>3. ~(Process \/ SettleIntentFails)
  BY <1>1 DEF Process, RPCRefused, RPCNoRoom, RPCDispatch, RPCAgain, RPCInterrupted, RPCUnverified, RPCInvalid,
     CallHTTP, CallMCP, CallStorage, CallStream, Stream, SettleInbox, SettleIntent, SettleIntentFails
<1>4. ~Answer
  BY DEF Answer, EncryptResponse, EncryptFails, FlushSend, FlushFails, FlushDone
<1>5. CASE Environment \/ UNCHANGED vars
  BY <1>1, <1>5 DEF Environment, PeerSends, RelayRekeys, Bootstrap, JoinWelcome, Crash, vars
<1> QED BY <1>2, <1>3, <1>4, <1>5 DEF Next, Endpoint

\* An intent is marked uncertain only while it has no response.
LEMMA MarkedInTime ==
  ASSUME PlaceTyped, [Next]_vars
  PROVE  \/ UNCHANGED intents \/ RPCDispatch \/ SettleIntent
         \/ MarkUncertain /\ (RPCInterrupted \/ (Serving /\ at # "settled"))
<1> USE DEF relayVars, store, memory
<1>1. CASE Loop \/ ReceiveFails \/ Start
  BY <1>1 DEF Loop, DrainInbox, CheckRelay, Poll, Skip, Receive, EndPage, ReceiveFails, Start
<1>2. CASE RPCRefused \/ RPCNoRoom \/ RPCDispatch \/ RPCAgain \/ RPCInterrupted \/ RPCUnverified \/ RPCInvalid
           \/ SettleInbox \/ SettleIntent \/ SettleIntentFails
  BY <1>2 DEF RPCRefused, RPCNoRoom, RPCAgain, RPCInterrupted, RPCUnverified, RPCInvalid, Reject,
     Uncertain, SettleInbox, SettleIntentFails
<1>3. CASE CallHTTP \/ CallMCP \/ CallStorage \/ CallStream \/ Stream
  BY <1>3 DEF CallHTTP, CallMCP, CallStorage, CallStream, Stream, Returned, Uncertain, Serving
<1>4. CASE Answer
  BY <1>4 DEF Answer, EncryptResponse, EncryptFails, FlushSend, FlushFails, FlushDone, Failed, Serving
<1>5. CASE Environment \/ UNCHANGED vars
  BY <1>5 DEF Environment, PeerSends, RelayRekeys, Bootstrap, JoinWelcome, Crash, vars
<1> QED BY <1>1, <1>2, <1>3, <1>4, <1>5 DEF Next, Endpoint, Process

\* A response of the handler follows its call.
LEMMA DeliveringKept ==
  ASSUME PlaceTyped, [Next]_vars, Delivering'
  PROVE  Delivering \/ (at = "call" /\ effects' = Append(effects, Request))
<1> USE DEF relayVars, store, memory
<1>1. ~Halt /\ ~Return
  BY DEF Halt, Return, PlaceTyped, Delivering, Flush
<1>2. ~(Loop \/ ReceiveFails \/ Start)
  <2>1. ~ReceiveFails
    BY <1>1 DEF ReceiveFails
  <2>2. ~(DrainInbox \/ CheckRelay \/ Poll \/ Start)
    BY <1>1 DEF Delivering, DrainInbox, Go, CheckRelay, CheckFails, Poll, PollFails, Start, Flush
  <2>3. ~(Skip \/ Receive \/ EndPage)
    BY <1>1 DEF Delivering, Skip, Taken, Receive, EndPage, Flush
  <2> QED BY <2>1, <2>2, <2>3 DEF Loop
<1>3. CASE RPCRefused \/ RPCNoRoom \/ RPCDispatch \/ RPCAgain \/ RPCInterrupted \/ RPCUnverified \/ RPCInvalid
           \/ SettleInbox \/ SettleIntent \/ SettleIntentFails
  BY <1>1, <1>3 DEF RPCRefused, RPCNoRoom, RPCDispatch, RPCAgain, RPCInterrupted, RPCUnverified, RPCInvalid, Reject,
     Persisting, Uncertain, SettleInbox, SettleIntent, SettleIntentFails, Go, Delivering
<1>4. CASE CallHTTP \/ CallMCP \/ CallStorage \/ CallStream \/ Stream
  BY <1>4 DEF CallHTTP, CallMCP, CallStorage, CallStream, Stream, Returned, Uncertain, Persisting, Effect,
     Delivering
<1>5. CASE EncryptResponse \/ EncryptFails \/ FlushSend \/ FlushFails
  BY <1>1, <1>5 DEF EncryptResponse, EncryptFails, FlushSend, FlushFails, Failed, Reject, Delivering
<1>6. CASE FlushDone
  BY <1>1, <1>6 DEF FlushDone, Go, Delivering
<1>7. CASE Environment \/ UNCHANGED vars
  BY <1>1, <1>7 DEF Environment, PeerSends, RelayRekeys, Bootstrap, JoinWelcome, Crash, vars, Delivering
<1> QED BY <1>2, <1>3, <1>4, <1>5, <1>6, <1>7 DEF Next, Endpoint, Process, Answer

\* A request stays unanswered until it is settled.
LEMMA UnansweredStep ==
  ASSUME PlaceTyped, IntentsTyped, InboxTyped, Unanswered, [Next]_vars
  PROVE  Unanswered'
<1> SUFFICES ASSUME Serving', at' # "settled" PROVE ~Answered(Request)'
  BY DEF Unanswered
<1>1. Request' = Request /\ (Serving \/ RPCDispatch \/ RPCInterrupted)
  BY ServingKept DEF Request
<1>2. CASE RPCDispatch
  BY <1>1, <1>2 DEF RPCDispatch, PutIntent, Answered
<1>3. CASE Serving \/ RPCInterrupted
  <2>1. Known(Request) /\ ~Answered(Request)
    <3>1. CASE RPCInterrupted
      BY <3>1 DEF RPCInterrupted
    <3>2. CASE Serving
      BY <3>2, SettledEnds DEF Unanswered, IntentsTyped
    <3> QED BY <1>3, <3>1, <3>2
  <2>2. ~SettleIntent
    BY DEF SettleIntent, Go
  <2>3. CASE MarkUncertain
    BY <1>1, <2>1, <2>3 DEF MarkUncertain, Answered, Known, IntentsTyped, Intent
  <2>4. CASE UNCHANGED intents
    BY <1>1, <2>1, <2>4 DEF Answered
  <2> QED BY <1>2, <2>2, <2>3, <2>4, IntentsKept
<1> QED BY <1>1, <1>2, <1>3

\* What is delivered was called for.
LEMMA HandledStep ==
  ASSUME PlaceTyped, EffectsStored, InboxTyped, Handled, [Next]_vars
  PROVE  Handled'
<1> SUFFICES ASSUME Delivering' PROVE \E i \in DOMAIN effects' : effects'[i].client = Request'.client
  BY DEF Handled
<1>1. Request' = Request
  BY ServingKept DEF Request, Delivering, Serving
<1>2. CASE at = "call" /\ effects' = Append(effects, Request)
  <2>1. PICK r : r = Request
    OBVIOUS
  <2>2. r \in Req /\ effects \in Seq(Req)
    BY <1>2, <2>1 DEF InboxTyped, InboxRow, Request, Busy, EffectsStored
  <2>3. Len(effects) + 1 \in DOMAIN effects' /\ effects'[Len(effects) + 1] = r
    BY <1>2, <2>1, <2>2
  <2> QED BY <1>1, <2>1, <2>3
<1>3. CASE Delivering
  <2>1. PICK i \in DOMAIN effects : effects[i].client = Request.client
    BY <1>3 DEF Handled
  <2>2. at # "call"
    BY <1>3 DEF Delivering
  <2>3. UNCHANGED effects
    BY <2>2, EffectsKept
  <2> QED BY <1>1, <2>1, <2>3
<1> QED BY <1>2, <1>3, DeliveringKept

\* How often a handler was called for a client.
LEMMA CallsFacts ==
  ASSUME EffectOnce, NEW c \in Clients
  PROVE  /\ Calls[c] \in Nat
         /\ (\A i \in DOMAIN effects : effects[i].client # c) => Calls[c] = 0
         /\ (\E i \in DOMAIN effects : effects[i].client = c) => Calls[c] = 1
<1>1. Calls[c] = Cardinality(CallsOf(c))
  BY DEF Calls
<1>2. ASSUME \A i \in DOMAIN effects : effects[i].client # c PROVE Calls[c] = 0
  <2>1. CallsOf(c) = {}
    BY <1>2 DEF CallsOf
  <2> QED BY <1>1, <2>1, FS_EmptySet
<1>3. ASSUME NEW i \in DOMAIN effects, effects[i].client = c PROVE Calls[c] = 1
  <2>1. \A j \in DOMAIN effects : effects[j].client = c => j = i
    BY <1>3 DEF EffectOnce
  <2>2. CallsOf(c) = {i}
    BY <1>3, <2>1 DEF CallsOf
  <2> QED BY <1>1, <2>2, FS_Singleton
<1> QED BY <1>2, <1>3

LEMMA CallsFactsPrimed ==
  ASSUME EffectOnce', NEW c \in Clients
  PROVE  /\ Calls'[c] \in Nat
         /\ (\A i \in DOMAIN effects' : effects'[i].client # c) => Calls'[c] = 0
         /\ (\E i \in DOMAIN effects' : effects'[i].client = c) => Calls'[c] = 1
<1>1. Calls'[c] = Cardinality(CallsOf(c)')
  BY DEF Calls, CallsOf
<1>2. ASSUME \A i \in DOMAIN effects' : effects'[i].client # c PROVE Calls'[c] = 0
  <2>1. CallsOf(c)' = {}
    BY <1>2 DEF CallsOf
  <2> QED BY <1>1, <2>1, FS_EmptySet
<1>3. ASSUME NEW i \in DOMAIN effects', effects'[i].client = c PROVE Calls'[c] = 1
  <2>1. \A j \in DOMAIN effects' : effects'[j].client = c => j = i
    BY <1>3 DEF EffectOnce
  <2>2. CallsOf(c)' = {i}
    BY <1>3, <2>1 DEF CallsOf
  <2> QED BY <1>1, <2>2, FS_Singleton
<1> QED BY <1>2, <1>3

\* The abstract steps that one request may take.
ExecutionMoves(c) ==
  \/ Execution!Stays(c) \/ Execution!Refuse(c) \/ Execution!Claim(c) \/ Execution!HandOver(c)
  \/ Execution!Conclude(c)

\* Intents that do not change what they mean, and a handler that may have been called.
LEMMA CallMoves ==
  ASSUME EndpointInvariant, Unanswered, [Next]_vars, EffectOnce', NEW c \in Clients,
         StateOf'[c] = StateOf[c]
  PROVE  ExecutionMoves(c)
<1>1. CASE Calls'[c] = Calls[c]
  <2>1. Execution!Stays(c)
    BY <1>1 DEF Execution!Stays, Execution!Moves
  <2> QED BY <2>1 DEF ExecutionMoves
<1>2. CASE Calls'[c] # Calls[c]
  <2>1. ~UNCHANGED effects
    BY <1>2 DEF Calls, CallsOf
  <2>2. at = "call" /\ effects' = Append(effects, Request)
    BY <2>1, EffectsKept
  <2>3. PICK r : r = Request
    OBVIOUS
  <2>4. r \in Req /\ effects \in Seq(Req)
    BY <2>2, <2>3 DEF EndpointInvariant, InboxTyped, InboxRow, Request, Busy, EffectsStored
  <2>5. /\ DOMAIN effects' = DOMAIN effects \cup {Len(effects) + 1}
        /\ effects'[Len(effects) + 1] = r /\ \A i \in DOMAIN effects : effects'[i] = effects[i]
    BY <2>2, <2>3, <2>4
  <2>6. c = r.client
    <3>1. ASSUME c # r.client PROVE FALSE
      <4>1. CASE \E i \in DOMAIN effects : effects[i].client = c
        <5>1. \E i \in DOMAIN effects' : effects'[i].client = c
          BY <2>5, <4>1
        <5> QED BY <1>2, <4>1, <5>1, CallsFacts, CallsFactsPrimed DEF EndpointInvariant
      <4>2. CASE \A i \in DOMAIN effects : effects[i].client # c
        <5>1. \A i \in DOMAIN effects' : effects'[i].client # c
          BY <2>5, <3>1, <4>2
        <5> QED BY <1>2, <4>2, <5>1, CallsFacts, CallsFactsPrimed DEF EndpointInvariant
      <4> QED BY <4>1, <4>2
    <3> QED BY <3>1
  <2>7. \A i \in DOMAIN effects : effects[i].client # c
    BY <2>2, <2>3, <2>6 DEF EndpointInvariant, CallFresh, Calling
  <2>8. Calls[c] = 0
    BY <2>7, CallsFacts DEF EndpointInvariant
  <2>9. Calls'[c] = 1
    BY <2>5, <2>6, CallsFactsPrimed
  <2>10. Known(Request) /\ ~Answered(Request)
    BY <2>2 DEF EndpointInvariant, IntentsTyped, Unanswered, Serving
  <2>11. StateOf[c] = "claimed"
    BY <2>3, <2>6, <2>10 DEF StateOf, Known, Answered
  <2>12. Execution!HandOver(c)
    BY <2>8, <2>9, <2>11 DEF Execution!HandOver, Execution!Moves
  <2> QED BY <2>12 DEF ExecutionMoves
<1> QED BY <1>1, <1>2

\* The step of every request, by what becomes of its intent.
LEMMA RequestMoves ==
  ASSUME EndpointInvariant, EndpointInvariant', Unanswered, Handled, [Next]_vars, NEW c \in Clients
  PROVE  ExecutionMoves(c)
<1>1. /\ PlaceTyped /\ IntentsTyped /\ IntentsTyped' /\ EffectOnce /\ EffectOnce'
  BY DEF EndpointInvariant
<1>2. StateOf[c] = IF c \notin DOMAIN intents THEN "new"
                   ELSE IF intents[c].answered THEN intents[c].status ELSE "claimed"
  BY DEF StateOf
<1>3. StateOf'[c] = IF c \notin DOMAIN intents' THEN "new"
                    ELSE IF intents'[c].answered THEN intents'[c].status ELSE "claimed"
  BY DEF StateOf
<1>4. CASE StateOf'[c] = StateOf[c]
  BY <1>1, <1>4, CallMoves
<1>5. CASE StateOf'[c] # StateOf[c]
  <2>1. ~UNCHANGED intents
    BY <1>2, <1>3, <1>5
  <2>2. CASE RPCDispatch
    <3>1. c = Request.client /\ c \notin DOMAIN intents /\ at = "rpc"
      BY <1>2, <1>3, <1>5, <2>2 DEF RPCDispatch, Admitted, PutIntent, Known
    <3>2. StateOf[c] = "new" /\ StateOf'[c] = "claimed"
      BY <1>2, <1>3, <2>2, <3>1 DEF RPCDispatch, PutIntent
    <3>3. UNCHANGED effects
      BY <3>1, EffectsKept
    <3>4. Calls'[c] = Calls[c]
      BY <3>3 DEF Calls, CallsOf
    <3>5. Execution!Claim(c)
      BY <3>2, <3>4 DEF Execution!Claim, Execution!Moves
    <3> QED BY <3>5 DEF ExecutionMoves
  <2>3. CASE MarkUncertain /\ (RPCInterrupted \/ (Serving /\ at # "settled"))
    <3>1. Known(Request) /\ ~Answered(Request)
      <4>1. CASE RPCInterrupted
        BY <4>1 DEF RPCInterrupted
      <4>2. CASE Serving /\ at # "settled"
        BY <1>1, <4>2 DEF IntentsTyped, Unanswered
      <4> QED BY <2>3, <4>1, <4>2
    <3>2. StateOf'[c] = StateOf[c]
      BY <1>1, <1>2, <1>3, <2>3, <3>1 DEF MarkUncertain, Known, Answered, IntentsTyped, Intent
    <3> QED BY <1>5, <3>2
  <2>4. CASE SettleIntent
    <3>1. at = "settle" /\ Serving
      BY <2>4 DEF SettleIntent, Serving
    <3>2. Known(Request) /\ ~Answered(Request)
      BY <1>1, <3>1 DEF IntentsTyped, Unanswered
    <3>3. c = Request.client
      BY <1>1, <1>2, <1>3, <1>5, <2>4 DEF SettleIntent, IntentsTyped, Intent
    <3>4. StateOf[c] = "claimed"
      BY <1>2, <3>2, <3>3 DEF Known, Answered
    <3>5. StateOf'[c] = IF resp.kind = "uncertain" THEN "uncertain" ELSE "done"
      <4>1. PICK st : st = IF resp.kind = "uncertain" THEN "uncertain" ELSE "done"
        OBVIOUS
      <4>2. c \in DOMAIN intents /\ intents[c] \in Intent
        BY <1>1, <3>2, <3>3 DEF Known, IntentsTyped
      <4>3. intents' = [intents EXCEPT ![c].answered = TRUE, ![c].status = st]
        BY <2>4, <3>3, <4>1, Zenon DEF SettleIntent
      <4>4. c \in DOMAIN intents' /\ intents'[c].answered /\ intents'[c].status = st
        BY <4>2, <4>3 DEF Intent
      <4> QED BY <1>3, <4>1, <4>4
    <3>6. UNCHANGED effects
      BY <3>1, EffectsKept
    <3>7. Calls'[c] = Calls[c]
      BY <3>6 DEF Calls, CallsOf
    <3>8. resp.kind # "uncertain" => Calls[c] = 1
      <4> SUFFICES ASSUME resp.kind # "uncertain" PROVE Calls[c] = 1
        OBVIOUS
      <4>1. \E i \in DOMAIN effects : effects[i].client = c
        BY <3>1, <3>3 DEF Handled, Delivering
      <4> QED BY <1>1, <4>1, CallsFacts
    <3>9. Execution!Conclude(c)
      BY <3>4, <3>5, <3>7, <3>8 DEF Execution!Conclude, Execution!Moves
    <3> QED BY <3>9 DEF ExecutionMoves
  <2> QED BY <1>1, <2>1, <2>2, <2>3, <2>4, MarkedInTime
<1> QED BY <1>4, <1>5

\* Every step of the endpoint is one of the executor.
LEMMA ExecutionStep ==
  ASSUME EndpointInvariant, EndpointInvariant', Unanswered, Handled, [Next]_vars
  PROVE  Execution!Next
<1>1. ASSUME NEW c \in Clients PROVE ExecutionMoves(c)
  BY RequestMoves
<1>2. ASSUME NEW c \in Clients PROVE StateOf'[c] \in Execution!States
  <2>1. StateOf'[c] = IF c \notin DOMAIN intents' THEN "new"
                      ELSE IF intents'[c].answered THEN intents'[c].status ELSE "claimed"
    BY DEF StateOf
  <2>2. ASSUME c \in DOMAIN intents' PROVE intents'[c] \in Intent
    BY <2>2 DEF EndpointInvariant, IntentsTyped
  <2> QED BY <2>1, <2>2 DEF Intent, Execution!States
<1>3. StateOf' \in [Clients -> Execution!States]
  BY <1>2 DEF StateOf
<1>4. ASSUME NEW c \in Clients PROVE Calls'[c] \in Nat
  BY CallsFactsPrimed DEF EndpointInvariant
<1>5. Calls' \in [Clients -> Nat]
  BY <1>4 DEF Calls
<1> QED BY <1>1, <1>3, <1>5 DEF Execution!Next, ExecutionMoves

\* Nothing is known and nothing was called initially.
LEMMA ExecutionInit ==
  ASSUME Init
  PROVE  Execution!Init /\ Unanswered /\ Handled
<1>1. StateOf = [c \in Clients |-> "new"]
  BY DEF StateOf, Init
<1>2. EffectOnce
  BY EndpointInit DEF EndpointInvariant
<1>3. ASSUME NEW c \in Clients PROVE Calls[c] = 0
  BY <1>2, CallsFacts DEF Init
<1>4. Calls = [c \in Clients |-> 0]
  BY <1>3 DEF Calls
<1>5. Unanswered /\ Handled
  BY DEF Init, Unanswered, Handled, Serving, Delivering
<1> QED BY <1>1, <1>4, <1>5 DEF Execution!Init

\* ExecutesRequests: a handler is called once, for an intent that is stored before (RPCDispatch),
\* and an intent that has its response was called for or says uncertain, for ever.
THEOREM ExecutesRequestsHolds == Spec => ExecutesRequests
<1>1. Init => EndpointInvariant /\ Unanswered /\ Handled /\ Execution!Init
  BY EndpointInit, ExecutionInit
<1>2. EndpointInvariant /\ Unanswered /\ Handled /\ [Next]_vars
        => (EndpointInvariant /\ Unanswered /\ Handled)'
  <2> SUFFICES ASSUME EndpointInvariant, Unanswered, Handled, [Next]_vars
               PROVE  (EndpointInvariant /\ Unanswered /\ Handled)'
    OBVIOUS
  <2>1. PlaceTyped /\ IntentsTyped /\ InboxTyped /\ EffectsStored
    BY DEF EndpointInvariant
  <2> QED BY <2>1, EndpointStep, UnansweredStep, HandledStep
<1>3. EndpointInvariant /\ EndpointInvariant' /\ Unanswered /\ Handled /\ [Next]_vars
        => [Execution!Next]_<<StateOf, Calls>>
  BY ExecutionStep
<1> QED BY <1>1, <1>2, <1>3, PTL DEF Spec, ExecutesRequests, Execution!Spec
=============================================================================
