------------------------------ MODULE Delivery ------------------------------
(***************************************************************************)
(* Event delivery of internal/core: the journal as readers see it, the     *)
(* two reads of Core.Events (messages.go), the connection loop with its    *)
(* coalesced notifications (realtime.go), the shared head poll             *)
(* (sharedreplay.go), retention of events (store.go) and the membership    *)
(* changes that end a reader's access (management.go).                     *)
(*                                                                         *)
(* An event is its number; ref says which message it shows: its own        *)
(* number for message.created, an older one for an edit, deletion or       *)
(* reaction, 0 for an event without message.  A connection slot belongs to *)
(* one user and is reused when the client reconnects.                      *)
(*                                                                         *)
(* Definitions named Mut... are wrong variants of the definition they      *)
(* precede; no specification uses them (see the README).                   *)
(***************************************************************************)
EXTENDS Integers, Sequences, FiniteSets

CONSTANTS
  Conns,
  Chats,
  Old,         \* the messages a chat has at the start
  MaxSeq,      \* bound on the events of a chat
  PageLimit,   \* page size of flush (100)
  MaxPages,    \* pages of one flush turn (10)
  Kinds,       \* kinds of events: "message", "change" of an older one, "notice"
  Afters,      \* how far behind the head clients subscribe
  Silent,      \* whether some appenders do not call Wake
  Retention,   \* whether events expire
  Membership,  \* whether members are removed and added again
  AllHistory   \* Policy.History = "all": putMember may grant past history

NoChat == "none"

ASSUME DeliveryAssumption ==
  /\ NoChat \notin Chats
  /\ Kinds \subseteq {"message", "change", "notice"} /\ Afters \subseteq Int
  /\ Old \in Nat /\ MaxSeq \in Nat /\ Old <= MaxSeq /\ PageLimit \in Nat \ {0} /\ MaxPages \in Nat \ {0}
  /\ Silent \in BOOLEAN /\ Retention \in BOOLEAN /\ Membership \in BOOLEAN
  /\ AllHistory \in BOOLEAN

VARIABLES
  \* the database
  head,        \* chats.seq
  low,         \* the events up to low have expired
  ref,         \* the message each event shows
  active, joined,   \* members, by chat and connection
  \* Core
  owed,        \* Wake calls that committed appenders have yet to make
  evict,       \* users whom putMember has yet to disconnect
  subs,        \* Core.subscribers
  known,       \* Core.replayHeads, Unknown when absent
  poll,        \* the poll in progress: its stage, chats and heads read
  \* the connections
  st,          \* "closed", "select" or "flush"
  done,        \* conn.done is closed
  cursor,      \* subscriptions, NotSubscribed when absent
  wake, pend,  \* conn.wake holds a token; conn.pending
  todo,        \* what is left of the pending set taken last
  fl,          \* the flush in progress
  \* history
  start, got,  \* where a subscription began and what it was sent
  hidden,      \* the latest join position its replay met
  audience     \* who may know of each event: the members at its time, and
               \* those granted the history later

Unknown == -1
NotSubscribed == -1

dbVars   == <<head, low, ref, active, joined>>
coreVars == <<owed, evict, subs, known, poll>>
connVars == <<st, done, cursor, wake, pend, todo, fl>>
ghost    == <<start, got, hidden, audience>>
sent     == <<start, got, hidden>>
vars == <<dbVars, coreVars, connVars, ghost>>

Larger(a, b) == IF a > b THEN a ELSE b

IdleFlush == [chat |-> NoChat, page |-> 0, stage |-> "none", after |-> 0, current |-> 0,
              rows |-> {}, full |-> FALSE]
IdlePoll  == [stage |-> "idle", chats |-> {}, heads |-> [ch \in Chats |-> 0]]

\* The chats have a history, which a member may or may not see.
Init ==
  /\ head = [ch \in Chats |-> Old]
  /\ low = [ch \in Chats |-> 0]
  /\ ref = [ch \in Chats |-> [n \in 1..Old |-> n]]
  /\ active = [ch \in Chats |-> [k \in Conns |-> TRUE]]
  /\ joined \in [Chats -> [Conns -> 1..(Old + 1)]]
  /\ owed = [ch \in Chats |-> 0]
  /\ evict = [k \in Conns |-> FALSE]
  /\ subs = [ch \in Chats |-> {}]
  /\ known = [ch \in Chats |-> Unknown]
  /\ poll = IdlePoll
  /\ st = [k \in Conns |-> "closed"]
  /\ done = [k \in Conns |-> FALSE]
  /\ cursor = [k \in Conns |-> [ch \in Chats |-> NotSubscribed]]
  /\ wake = [k \in Conns |-> FALSE]
  /\ pend = [k \in Conns |-> {}]
  /\ todo = [k \in Conns |-> {}]
  /\ fl = [k \in Conns |-> IdleFlush]
  /\ start = [k \in Conns |-> [ch \in Chats |-> 0]]
  /\ got = [k \in Conns |-> [ch \in Chats |-> {}]]
  /\ hidden = [k \in Conns |-> [ch \in Chats |-> 0]]
  /\ audience = [ch \in Chats |-> [n \in 1..Old |-> {k \in Conns : joined[ch][k] <= n}]]

-----------------------------------------------------------------------------
(* Writers.                                                                *)

\* What a new event may show: a new message, an earlier one, or none.
Refs(ch) ==
  {r \in 0..(head[ch] + 1) :
     \/ "message" \in Kinds /\ r = head[ch] + 1
     \/ "change" \in Kinds /\ r \in 1..head[ch] /\ ref[ch][r] = r
     \/ "notice" \in Kinds /\ r = 0}

\* A committed transaction that appended one event.  Most appenders call
\* Wake afterwards; confirmMLSEpoch and other processes do not.
AppendEvent(ch, r, wakes) ==
  /\ head[ch] < MaxSeq
  /\ r \in Refs(ch)
  /\ wakes \/ Silent
  /\ head' = [head EXCEPT ![ch] = @ + 1]
  /\ ref' = [ref EXCEPT ![ch] = Append(@, r)]
  /\ owed' = [owed EXCEPT ![ch] = IF wakes THEN @ + 1 ELSE @]
  /\ audience' = [audience EXCEPT ![ch] = Append(@, {k \in Conns : active[ch][k]})]
  /\ UNCHANGED <<low, active, joined, evict, subs, known, poll, connVars, sent>>

\* notify: the chat joins the pending set, and the token the wake channel.
NotifyAll(S, ch) ==
  /\ pend' = [k \in Conns |-> IF k \in S THEN pend[k] \cup {ch} ELSE pend[k]]
  /\ wake' = [k \in Conns |-> wake[k] \/ k \in S]

\* Core.Wake, called by a handler after its commit.
Wake(ch) ==
  /\ owed[ch] > 0
  /\ owed' = [owed EXCEPT ![ch] = @ - 1]
  /\ NotifyAll(subs[ch], ch)
  /\ UNCHANGED <<dbVars, evict, subs, known, poll, st, done, cursor, todo, fl, ghost>>

\* A retention batch removes the oldest events.
CleanupRetention(ch) ==
  /\ Retention
  /\ \E n \in (low[ch] + 1)..head[ch] : low' = [low EXCEPT ![ch] = n]
  /\ UNCHANGED <<head, ref, active, joined, coreVars, connVars, ghost>>

\* The join position putMember stores: the start when history is granted,
\* what it was for a member who stays, the next event otherwise.
JoinedAfter(ch, k, isActive, history) ==
  IF history THEN 1
  ELSE IF active[ch][k] /\ isActive THEN joined[ch][k] ELSE head[ch] + 1

\* putMember: removal, return and grant of history, with a membership event;
\* after its commit the handler wakes the chat and disconnects a removed user.
PutMember(ch, k, isActive, history) ==
  /\ Membership /\ head[ch] < MaxSeq
  /\ history => AllHistory
  /\ active' = [active EXCEPT ![ch][k] = isActive]
  /\ joined' = [joined EXCEPT ![ch][k] = JoinedAfter(ch, k, isActive, history)]
  /\ head' = [head EXCEPT ![ch] = @ + 1]
  /\ ref' = [ref EXCEPT ![ch] = Append(@, 0)]
  /\ owed' = [owed EXCEPT ![ch] = @ + 1]
  /\ evict' = [evict EXCEPT ![k] = @ \/ ~isActive]
  /\ LET granted == IF history /\ isActive THEN {k} ELSE {}
     IN audience' = [audience EXCEPT ![ch] =
          Append([n \in DOMAIN @ |-> @[n] \cup granted],
                 {c \in Conns : active'[ch][c]})]
  /\ UNCHANGED <<low, subs, known, poll, connVars, sent>>

\* conn.close() closes done and the socket; the loop notices later.
DisconnectUser(k) ==
  /\ evict[k]
  /\ evict' = [evict EXCEPT ![k] = FALSE]
  /\ done' = [done EXCEPT ![k] = @ \/ st[k] # "closed"]
  /\ UNCHANGED <<dbVars, owed, subs, known, poll, st, cursor, wake, pend, todo, fl, ghost>>

-----------------------------------------------------------------------------
(* The head poll.                                                          *)

PollStart ==
  /\ poll.stage = "idle"
  /\ LET chats == {ch \in Chats : subs[ch] # {}}
     IN /\ known' = [ch \in Chats |-> IF ch \in chats THEN known[ch] ELSE Unknown]
        /\ poll' = IF chats = {} THEN IdlePoll
                   ELSE [stage |-> "read", chats |-> chats, heads |-> IdlePoll.heads]
  /\ UNCHANGED <<dbVars, owed, evict, subs, connVars, ghost>>

\* durableReplayHeads; a failed read leaves everything for the next tick.
PollRead(fail) ==
  /\ poll.stage = "read"
  /\ poll' = IF fail THEN IdlePoll ELSE [poll EXCEPT !.stage = "apply", !.heads = head]
  /\ UNCHANGED <<dbVars, owed, evict, subs, known, connVars, ghost>>

MutMoved(ch) == known[ch] # Unknown /\ poll.heads[ch] # known[ch]

\* A head that is new to the poll.
Moved(ch) == known[ch] = Unknown \/ poll.heads[ch] # known[ch]

PollApply ==
  /\ poll.stage = "apply"
  /\ LET told(k) == {ch \in poll.chats : k \in subs[ch] /\ Moved(ch)}
     IN /\ pend' = [k \in Conns |-> pend[k] \cup told(k)]
        /\ wake' = [k \in Conns |-> wake[k] \/ told(k) # {}]
  /\ known' = [ch \in Chats |->
       IF ch \notin poll.chats THEN known[ch]
       ELSE IF subs[ch] = {} THEN Unknown ELSE poll.heads[ch]]
  /\ poll' = IdlePoll
  /\ UNCHANGED <<dbVars, owed, evict, subs, st, done, cursor, todo, fl, ghost>>

-----------------------------------------------------------------------------
(* The connection.                                                         *)

Connect(k) ==
  /\ st[k] = "closed"
  /\ st' = [st EXCEPT ![k] = "select"]
  /\ UNCHANGED <<dbVars, coreVars, done, cursor, wake, pend, todo, fl, ghost>>

\* The deferred calls of runWebsocket.
Unregister(k) == [ch \in Chats |-> subs[ch] \ {k}]

Closed(k) ==
  /\ st' = [st EXCEPT ![k] = "closed"]
  /\ done' = [done EXCEPT ![k] = FALSE]
  /\ subs' = Unregister(k)
  /\ cursor' = [cursor EXCEPT ![k] = [ch \in Chats |-> NotSubscribed]]
  /\ wake' = [wake EXCEPT ![k] = FALSE]
  /\ pend' = [pend EXCEPT ![k] = {}]
  /\ todo' = [todo EXCEPT ![k] = {}]
  /\ fl' = [fl EXCEPT ![k] = IdleFlush]
  /\ start' = [start EXCEPT ![k] = [ch \in Chats |-> 0]]
  /\ got' = [got EXCEPT ![k] = [ch \in Chats |-> {}]]
  /\ hidden' = [hidden EXCEPT ![k] = [ch \in Chats |-> 0]]
  /\ UNCHANGED audience

\* The peer goes away, a deadline passes or the socket expires.
Disconnect(k) ==
  /\ st[k] = "select"
  /\ Closed(k)
  /\ UNCHANGED <<dbVars, owed, evict, known, poll>>

\* select sees conn.done, or a write meets the closed socket.
CloseDone(k) ==
  /\ done[k] /\ st[k] # "closed"
  /\ Closed(k)
  /\ UNCHANGED <<dbVars, owed, evict, known, poll>>

StartFlush(ch) == [IdleFlush EXCEPT !.chat = ch, !.stage = "check"]

\* A subscribe command: a membership check, the cursor, registration, and
\* the first flush.
Subscribe(k, ch, after) ==
  /\ st[k] = "select" /\ active[ch][k]
  /\ after >= 0 /\ head[ch] - after \in Afters
  /\ cursor' = [cursor EXCEPT ![k][ch] = after]
  /\ subs' = [subs EXCEPT ![ch] = @ \cup {k}]
  /\ st' = [st EXCEPT ![k] = "flush"]
  /\ fl' = [fl EXCEPT ![k] = StartFlush(ch)]
  /\ start' = [start EXCEPT ![k][ch] = after]
  /\ got' = [got EXCEPT ![k][ch] = {}]
  /\ hidden' = [hidden EXCEPT ![k][ch] = 0]
  /\ UNCHANGED <<dbVars, owed, evict, known, poll, done, wake, pend, todo, audience>>

\* subscribe(conn, chat, false) and the cursor's removal.
Drop(k, ch) ==
  /\ subs' = [subs EXCEPT ![ch] = @ \ {k}]
  /\ pend' = [pend EXCEPT ![k] = @ \ {ch}]
  /\ cursor' = [cursor EXCEPT ![k][ch] = NotSubscribed]
  /\ start' = [start EXCEPT ![k][ch] = 0]
  /\ got' = [got EXCEPT ![k][ch] = {}]
  /\ hidden' = [hidden EXCEPT ![k][ch] = 0]
  /\ UNCHANGED audience

Unsubscribe(k, ch) ==
  /\ st[k] = "select" /\ cursor[k][ch] # NotSubscribed
  /\ Drop(k, ch)
  /\ UNCHANGED <<dbVars, owed, evict, known, poll, st, done, wake, todo, fl>>

\* The chats that a turn still has to flush; those without subscription are
\* passed over.
Flushable(k, S) == {ch \in S : cursor[k][ch] # NotSubscribed}

TakePending(k) ==
  /\ st[k] = "select" /\ wake[k]
  /\ wake' = [wake EXCEPT ![k] = FALSE]
  /\ pend' = [pend EXCEPT ![k] = {}]
  /\ LET S == Flushable(k, pend[k])
     IN IF S = {} THEN UNCHANGED <<st, todo, fl>>
        ELSE \E ch \in S :
               /\ st' = [st EXCEPT ![k] = "flush"]
               /\ fl' = [fl EXCEPT ![k] = StartFlush(ch)]
               /\ todo' = [todo EXCEPT ![k] = S \ {ch}]
  /\ UNCHANGED <<dbVars, coreVars, done, cursor, ghost>>

\* flush returned true: the next chat of the turn, or the select again.
EndFlush(k) ==
  IF todo[k] = {}
    THEN /\ st' = [st EXCEPT ![k] = "select"]
         /\ fl' = [fl EXCEPT ![k] = IdleFlush]
         /\ UNCHANGED todo
    ELSE \E ch \in todo[k] :
           /\ fl' = [fl EXCEPT ![k] = StartFlush(ch)]
           /\ todo' = [todo EXCEPT ![k] = @ \ {ch}]
           /\ UNCHANGED st

-----------------------------------------------------------------------------
(* Core.Events and the rest of flush.                                      *)

From(k, ch) == Larger(cursor[k][ch], joined[ch][k] - 1)

\* MIN(seq) of the retained events is low + 1, or NULL when none is left.
Expired(ch, after) == after < head[ch] /\ (low[ch] = head[ch] \/ after < low[ch])

Refused(k, ch) ==
  \/ ~active[ch][k]
  \/ Expired(ch, From(k, ch))
  \/ From(k, ch) > head[ch]

\* An error of Events: the subscription is dropped and sync.error sent.
SyncError(k, ch) ==
  /\ ~done[k]
  /\ Drop(k, ch)
  /\ EndFlush(k)
  /\ UNCHANGED <<dbVars, owed, evict, known, poll, done, wake>>

EventsRefused(k) ==
  /\ st[k] = "flush" /\ fl[k].stage = "check"
  /\ Refused(k, fl[k].chat)
  /\ SyncError(k, fl[k].chat)

\* Either read fails or times out.
EventsFails(k) ==
  /\ st[k] = "flush" /\ fl[k].stage # "send"
  /\ SyncError(k, fl[k].chat)

EventsChecked(k) ==
  LET ch == fl[k].chat IN
  /\ st[k] = "flush" /\ fl[k].stage = "check"
  /\ ~Refused(k, ch) /\ From(k, ch) < head[ch]
  /\ fl' = [fl EXCEPT ![k].stage = "page", ![k].after = From(k, ch), ![k].current = head[ch]]
  /\ hidden' = [hidden EXCEPT ![k][ch] = Larger(@, joined[ch][k])]
  /\ UNCHANGED <<dbVars, coreVars, st, done, cursor, wake, pend, todo, start, got, audience>>

EventsNone(k) ==
  LET ch == fl[k].chat IN
  /\ st[k] = "flush" /\ fl[k].stage = "check"
  /\ ~Refused(k, ch) /\ From(k, ch) = head[ch]
  /\ EndFlush(k)
  /\ UNCHANGED <<dbVars, coreVars, done, cursor, wake, pend, ghost>>

MutPageOf(k) ==
  LET ch   == fl[k].chat
      rows == {n \in (low[ch] + 1)..head[ch] : n > fl[k].after}
  IN {n \in rows : Cardinality({m \in rows : m > n}) < PageLimit}

\* The second read.  The single-event form is bounded by the head seen first.
PageOf(k) ==
  LET ch   == fl[k].chat
      fast == fl[k].current - fl[k].after = 1 \/ PageLimit = 1
      top  == IF fast THEN fl[k].current ELSE head[ch]
      size == IF fast THEN 1 ELSE PageLimit
      rows == {n \in (low[ch] + 1)..top : n > fl[k].after}
  IN {n \in rows : Cardinality({m \in rows : m < n}) < size}

MutReadable(k, P) == active[fl[k].chat][k]

\* Access and every message shown are checked again with the page.
Readable(k, P) ==
  LET ch == fl[k].chat
  IN active[ch][k] /\ \A n \in P : ref[ch][n] # 0 => ref[ch][n] >= joined[ch][k]

PageRefused(k) ==
  /\ st[k] = "flush" /\ fl[k].stage = "page"
  /\ PageOf(k) # {} /\ ~Readable(k, PageOf(k))
  /\ SyncError(k, fl[k].chat)

\* The page is in the handler's memory; access may change from here on.
PageRead(k) ==
  LET P == PageOf(k) IN
  /\ st[k] = "flush" /\ fl[k].stage = "page"
  /\ P = {} \/ Readable(k, P)
  /\ fl' = [fl EXCEPT ![k] =
       [IdleFlush EXCEPT !.chat = fl[k].chat, !.page = fl[k].page, !.stage = "send",
                         !.rows = P, !.full = (Cardinality(P) >= PageLimit)]]
  /\ UNCHANGED <<dbVars, coreVars, st, done, cursor, wake, pend, todo, ghost>>

\* The next event of the page is written, and the cursor follows it.
WriteEvent(k) ==
  LET ch == fl[k].chat IN
  /\ st[k] = "flush" /\ fl[k].stage = "send" /\ ~done[k]
  /\ \E n \in fl[k].rows :
       /\ \A m \in fl[k].rows : n <= m
       /\ fl' = [fl EXCEPT ![k].rows = @ \ {n}]
       /\ cursor' = [cursor EXCEPT ![k][ch] = n]
       /\ got' = [got EXCEPT ![k][ch] = @ \cup {n}]
  /\ UNCHANGED <<dbVars, coreVars, st, done, wake, pend, todo, start, hidden, audience>>

\* After a short page the flush is over, after a full one it goes on, and
\* after MaxPages it notifies itself.
PageDone(k) ==
  LET ch == fl[k].chat IN
  /\ st[k] = "flush" /\ fl[k].stage = "send" /\ fl[k].rows = {}
  /\ \/ /\ ~fl[k].full
        /\ EndFlush(k)
        /\ UNCHANGED <<wake, pend>>
     \/ /\ fl[k].full /\ fl[k].page + 1 < MaxPages
        /\ fl' = [fl EXCEPT ![k] = [StartFlush(ch) EXCEPT !.page = fl[k].page + 1]]
        /\ UNCHANGED <<st, todo, wake, pend>>
     \/ /\ fl[k].full /\ fl[k].page + 1 = MaxPages
        /\ NotifyAll({k}, ch)
        /\ EndFlush(k)
  /\ UNCHANGED <<dbVars, coreVars, done, cursor, ghost>>

\* A write fails, of an event after part of the page or of sync.error: the
\* connection is over.
WriteFails(k) ==
  /\ st[k] = "flush" /\ (fl[k].stage = "send" => fl[k].rows # {})
  /\ Closed(k)
  /\ UNCHANGED <<dbVars, owed, evict, known, poll>>

FlushStep(k) ==
  EventsRefused(k) \/ EventsChecked(k) \/ EventsNone(k)
  \/ PageRefused(k) \/ PageRead(k) \/ WriteEvent(k) \/ PageDone(k)

Next ==
  \/ \E ch \in Chats :
       \/ \E r \in 0..MaxSeq, w \in BOOLEAN : AppendEvent(ch, r, w)
       \/ Wake(ch) \/ CleanupRetention(ch)
       \/ \E k \in Conns, a, h \in BOOLEAN : PutMember(ch, k, a, h)
  \/ \E k \in Conns : DisconnectUser(k)
  \/ PollStart \/ (\E f \in BOOLEAN : PollRead(f)) \/ PollApply
  \/ \E k \in Conns :
       \/ Connect(k) \/ Disconnect(k) \/ CloseDone(k) \/ TakePending(k)
       \/ FlushStep(k) \/ EventsFails(k) \/ WriteFails(k)
       \/ \E ch \in Chats, a \in 0..(MaxSeq + 1) : Subscribe(k, ch, a)
       \/ \E ch \in Chats : Unsubscribe(k, ch)

Spec == Init /\ [][Next]_vars

\* Handlers reach their Wake, the ticker ticks and its reads do not fail for
\* ever, a flush goes on, and select, which picks any of its ready cases,
\* does not ignore a token for ever.
FairSpec ==
  /\ Spec
  /\ \A ch \in Chats : WF_vars(Wake(ch))
  /\ WF_vars(PollStart) /\ SF_vars(PollRead(FALSE)) /\ WF_vars(PollApply)
  /\ \A k \in Conns : WF_vars(FlushStep(k)) /\ SF_vars(TakePending(k))
                       /\ WF_vars(DisconnectUser(k)) /\ WF_vars(CloseDone(k))

-----------------------------------------------------------------------------
(* Properties.                                                             *)

\* Types of the journal, the registry and the connections.
TypeOK ==
  /\ head \in [Chats -> 0..MaxSeq] /\ low \in [Chats -> 0..MaxSeq]
  /\ ref \in [Chats -> Seq(Nat)]
  /\ active \in [Chats -> [Conns -> BOOLEAN]]
  /\ joined \in [Chats -> [Conns -> Nat]]
  /\ owed \in [Chats -> Nat] /\ evict \in [Conns -> BOOLEAN]
  /\ subs \in [Chats -> SUBSET Conns]
  /\ known \in [Chats -> Nat \cup {Unknown}]
  /\ poll \in [stage : {"idle", "read", "apply"}, chats : SUBSET Chats, heads : [Chats -> Nat]]
  /\ st \in [Conns -> {"closed", "select", "flush"}]
  /\ done \in [Conns -> BOOLEAN]
  /\ cursor \in [Conns -> [Chats -> Nat \cup {NotSubscribed}]]
  /\ wake \in [Conns -> BOOLEAN]
  /\ pend \in [Conns -> SUBSET Chats] /\ todo \in [Conns -> SUBSET Chats]
  /\ fl \in [Conns -> [chat : Chats \cup {NoChat}, page : Nat,
                       stage : {"none", "check", "page", "send"}, after : Nat, current : Nat,
                       rows : SUBSET Nat, full : BOOLEAN]]
  /\ start \in [Conns -> [Chats -> Nat]]
  /\ got \in [Conns -> [Chats -> SUBSET Nat]]
  /\ hidden \in [Conns -> [Chats -> Nat]]
  /\ audience \in [Chats -> Seq(SUBSET Conns)]

Subscribed(k, ch) == cursor[k][ch] # NotSubscribed

\* Events the connection could be sent and has not been.
Behind(k, ch) ==
  /\ Subscribed(k, ch) /\ active[ch][k]
  /\ head[ch] > Larger(low[ch], From(k, ch))

\* A subscribed connection that is behind and not busy with the chat has a
\* token and the chat pending, or a Wake is due, or the next poll will see a
\* head it does not know: coalesced and missing notifications lose nothing.
NoLostWake ==
  \A k \in Conns, ch \in Chats :
    (Behind(k, ch) /\ fl[k].chat # ch /\ ch \notin todo[k]) =>
      \/ ch \in pend[k] /\ wake[k]
      \/ owed[ch] > 0
      \/ known[ch] # head[ch]

\* Between where a subscription began and its cursor, every event was sent,
\* has expired, or preceded the member's history when the replay passed it:
\* paging, retention, coalesced turns and moves of the join position in both
\* directions lose nothing.
NothingSkipped ==
  \A k \in Conns, ch \in Chats :
    Subscribed(k, ch) =>
      \A n \in (start[k][ch] + 1)..cursor[k][ch] :
        n \in got[k][ch] \/ n <= low[ch] \/ n < hidden[k][ch]

\* No connection is sent a message, or news of one, from a time when its user
\* was not a member, unless the history was granted: not by a removal and a
\* return between the two reads of a page, and not while a page read before
\* a removal is still being written.
OnlyEntitled ==
  \A k \in Conns, ch \in Chats : \A n \in got[k][ch] :
    ref[ch][n] # 0 => /\ k \in audience[ch][n]
                      /\ k \in audience[ch][ref[ch][n]]

\* A connection that is behind catches up, or loses its subscription with a
\* sync.error, or its access, or the events it lacks expire.
CatchesUp == \A k \in Conns, ch \in Chats : Behind(k, ch) ~> ~Behind(k, ch)

=============================================================================
