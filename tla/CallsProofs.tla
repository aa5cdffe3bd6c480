----------------------------- MODULE CallsProofs -----------------------------
(***************************************************************************)
(* Proofs about Calls, for every value of its constants.                   *)
(*                                                                         *)
(* OneCall is not inductive: the row is inserted two steps after the table *)
(* was searched, and a signal writes a state it computed from an earlier   *)
(* read.  The mutex makes both sound, which Held says: what the holder     *)
(* found is still true when it writes.                                     *)
(***************************************************************************)
EXTENDS Calls, FiniteSetTheorems, TLAPS

States == {"none", "ringing", "active", "ended"}

Rows == [state : States, age : 0..2, stale : BOOLEAN,
         caller : Users \cup {None}, callee : Users \cup {None}]

RowsTyped == calls \in [CallIds -> Rows]

Held ==
  /\ at = "insert" => ~Busy /\ callee \in Users /\ dev \in Devices
  /\ at = "peer" => dev \in Devices
  /\ at = "signal" => sig \in Signals /\ InProgress(sig.call)

CallInv == RowsTyped /\ Held /\ OneCall /\ waiting \subseteq Devices /\ todo \subseteq CallIds

\* Initially no call exists and nobody holds the mutex.
LEMMA InitCallInv == Init => CallInv
  BY CallsAssumption
  DEF Init, CallInv, RowsTyped, Rows, States, NoCall, Held, OneCall, InProgress

\* What a handler that gives up, or a crash, leaves behind.
LEMMA RefuseCallInv ==
  ASSUME CallInv, Refuse, waiting' \subseteq Devices
  PROVE  CallInv'
  BY DEF CallInv, RowsTyped, Held, OneCall, InProgress, Refuse, Unlock, tables

\* A step that touches neither the table nor the holder.
LEMMA AsideCallInv ==
  ASSUME CallInv, UNCHANGED <<calls, lockVars>>, waiting' \subseteq Devices
  PROVE  CallInv'
  BY DEF CallInv, RowsTyped, Held, OneCall, InProgress, Busy, lockVars

\* Creating a call: the search of the table holds until the insertion.
LEMMA CreateCallInv ==
  ASSUME CallInv,
         (\E d \in Devices : CreateRequest(d) \/ CreateLock(d)) \/ CreatePeer \/ CreateInsert
  PROVE  CallInv'
<1>1. ASSUME NEW d \in Devices, CreateRequest(d) PROVE CallInv'
  BY <1>1, AsideCallInv DEF CallInv, CreateRequest, tables
<1>2. ASSUME NEW d \in Devices, CreateLock(d) PROVE CallInv'
  BY <1>2 DEF CallInv, CreateLock, RowsTyped, Held, OneCall, InProgress, Busy, tables, lockVars
<1>3. CASE CreatePeer
  <2>1. CASE Refuse /\ UNCHANGED waiting
    BY <2>1, RefuseCallInv DEF CallInv
  <2>2. ASSUME NEW u \in Active \ {Owner[dev]}, ~Busy, at' = "insert", callee' = u,
               UNCHANGED <<tables, dev, sig, todo, waiting>>, at = "peer"
        PROVE  CallInv'
    BY <2>2 DEF CallInv, RowsTyped, Held, OneCall, InProgress, Busy, tables, Active
  <2> QED BY <1>3, <2>1, <2>2 DEF CreatePeer
<1>4. CASE CreateInsert
  <2>1. CASE Refuse /\ UNCHANGED waiting
    BY <2>1, RefuseCallInv DEF CallInv
  <2>2. ASSUME NEW c, Unlock, UNCHANGED waiting, at = "insert",
               calls' = [calls EXCEPT ![c] = Ringing(Owner[dev], callee)]
        PROVE  CallInv'
    <3>a. Owner[dev] \in Users /\ callee \in Users
      BY <2>2, CallsAssumption DEF CallInv, Held
    <3>b. Ringing(Owner[dev], callee) \in Rows
      BY <3>a DEF Ringing, Rows, States
    <3>1. RowsTyped'
      BY <2>2, <3>b DEF CallInv, RowsTyped
    <3>2. \A b \in CallIds : InProgress(b)' => b = c
      BY <2>2 DEF CallInv, RowsTyped, Held, Busy, InProgress
    <3> QED BY <2>2, <3>1, <3>2 DEF CallInv, Held, OneCall, Unlock
  <2> QED BY <1>4, <2>1, <2>2 DEF CreateInsert
<1> QED BY <1>1, <1>2, <1>3, <1>4

\* A signal moves only a call that is still in progress.
LEMMA SignalCallInv ==
  ASSUME CallInv, (\E s \in Signals : SignalRead(s)) \/ SignalCommit \/ SignalAnswer
  PROVE  CallInv'
<1>1. ASSUME NEW s \in Signals, SignalRead(s) PROVE CallInv'
  <2>1. CASE UNCHANGED lockVars
    BY <1>1, <2>1, AsideCallInv DEF CallInv, SignalRead, tables
  <2>2. CASE Transition(s) /\ at' = "signal" /\ sig' = s /\ UNCHANGED <<dev, callee, todo>>
    <3>1. InProgress(s.call)
      BY <2>2 DEF Transition, InProgress
    <3> QED
      BY <1>1, <2>2, <3>1
      DEF CallInv, SignalRead, RowsTyped, Held, OneCall, InProgress, tables
  <2> QED BY <1>1, <2>1, <2>2 DEF SignalRead
<1>2. CASE SignalCommit
  <2>1. CASE Refuse /\ UNCHANGED waiting
    BY <2>1, RefuseCallInv DEF CallInv
  <2>2. CASE /\ at = "signal" /\ at' = "answer"
             /\ calls' = [calls EXCEPT ![sig.call].state = NextState(sig)]
             /\ UNCHANGED <<dev, sig, callee, todo, waiting>>
    <3>1. sig.call \in CallIds /\ InProgress(sig.call)
      BY <2>2, CallsAssumption DEF CallInv, Held, Request
    <3>2. NextState(sig) \in States
      BY <3>1 DEF NextState, States, InProgress
    <3>a. [calls[sig.call] EXCEPT !.state = NextState(sig)] \in Rows
      BY <3>1, <3>2 DEF CallInv, RowsTyped, Rows
    <3>3. RowsTyped'
      BY <2>2, <3>a DEF CallInv, RowsTyped
    <3>4. \A b \in CallIds : InProgress(b)' => InProgress(b)
      BY <2>2, <3>1 DEF CallInv, RowsTyped, InProgress
    <3> QED BY <2>2, <3>3, <3>4 DEF CallInv, Held, OneCall
  <2> QED BY <1>2, <2>1, <2>2 DEF SignalCommit
<1>3. CASE SignalAnswer
  BY <1>3 DEF SignalAnswer, CallInv, RowsTyped, Held, OneCall, InProgress, Unlock, tables
<1> QED BY <1>1, <1>2, <1>3

\* Cleanup and time end calls, age them and delete them.
LEMMA CleanupCallInv ==
  ASSUME CallInv,
         \/ CleanupSelect \/ (\E c \in CallIds : CleanupExpire(c) \/ Age(c))
         \/ CleanupOperations \/ CleanupCalls
  PROVE  CallInv'
<1>1. CASE CleanupSelect
  BY <1>1 DEF CleanupSelect, CallInv, RowsTyped, Held, OneCall, InProgress, tables
<1>2. ASSUME NEW c \in CallIds, CleanupExpire(c) PROVE CallInv'
  <2>1. RowsTyped'
    BY <1>2 DEF CallInv, RowsTyped, Rows, States, CleanupExpire
  <2>2. \A b \in CallIds : InProgress(b)' => InProgress(b)
    BY <1>2 DEF CallInv, RowsTyped, InProgress, CleanupExpire
  <2> QED BY <1>2, <2>1, <2>2 DEF CallInv, Held, OneCall, CleanupExpire
<1>3. ASSUME NEW c \in CallIds, Age(c) PROVE CallInv'
  <2>1. RowsTyped'
    <3>1. calls[c] \in Rows
      BY DEF CallInv, RowsTyped
    <3>2. ASSUME calls[c].age < 2 PROVE [calls[c] EXCEPT !.age = @ + 1] \in Rows
      <4>1. calls[c].age + 1 \in 0..2
        BY <3>1, <3>2 DEF Rows
      <4> QED BY <3>1, <4>1 DEF Rows
    <3>3. [calls[c] EXCEPT !.stale = TRUE] \in Rows
      BY <3>1 DEF Rows
    <3> QED BY <1>3, <3>2, <3>3 DEF CallInv, RowsTyped, Age
  <2>2. \A b \in CallIds : InProgress(b)' <=> InProgress(b)
    BY <1>3 DEF CallInv, RowsTyped, Rows, InProgress, Age
  <2>3. UNCHANGED <<lockVars, waiting>>
    BY <1>3 DEF Age
  <2>4. at = "signal" => sig.call \in CallIds
    BY CallsAssumption DEF CallInv, Held, Request
  <2> QED BY <2>1, <2>2, <2>3, <2>4 DEF CallInv, Held, OneCall, Busy, lockVars
<1>4. CASE CleanupOperations
  BY <1>4 DEF CleanupOperations, CallInv, RowsTyped, Held, OneCall, InProgress
<1>5. CASE CleanupCalls
  <2>1. RowsTyped'
    BY <1>5 DEF CallInv, RowsTyped, Rows, States, NoCall, CleanupCalls
  <2>2. \A b \in CallIds : InProgress(b)' => InProgress(b)
    BY <1>5 DEF CallInv, RowsTyped, InProgress, CleanupCalls, NoCall
  <2> QED BY <1>5, <2>1, <2>2 DEF CallInv, Held, OneCall, CleanupCalls, Unlock
<1> QED BY <1>1, <1>2, <1>3, <1>4, <1>5

\* Every step keeps the invariant.
LEMMA NextCallInv ==
  ASSUME CallInv, [Next]_vars
  PROVE  CallInv'
<1>1. CASE RequestFails \/ CleanupFails \/ Restart
  BY <1>1, RefuseCallInv DEF CallInv, RequestFails, CleanupFails, Restart
<1>2. ASSUME NEW d \in Devices, RevokeDevice(d) PROVE CallInv'
  BY <1>2, AsideCallInv DEF CallInv, RevokeDevice, tables
<1>3. ASSUME NEW u \in Users, NEW s, PutMember(u, s) PROVE CallInv'
  BY <1>3, AsideCallInv DEF CallInv, PutMember
<1>4. CASE ConfirmEpoch
  BY <1>4, AsideCallInv DEF CallInv, ConfirmEpoch
<1>5. ASSUME NEW a \in Agents, AttachAgent(a) PROVE CallInv'
  BY <1>5, AsideCallInv DEF CallInv, AttachAgent
<1>6. ASSUME NEW o, AgeOperation(o) PROVE CallInv'
  BY <1>6, AsideCallInv DEF CallInv, AgeOperation
<1>7. CASE UNCHANGED vars
  BY <1>7, AsideCallInv DEF CallInv, vars, tables
<1> QED
  BY <1>1, <1>2, <1>3, <1>4, <1>5, <1>6, <1>7, CreateCallInv, SignalCallInv, CleanupCallInv
  DEF Next, Holder

\* The chat never has two calls at once, however creations, signals, the
\* timeout, failures and crashes interleave.
THEOREM OneCallHolds == Spec => []OneCall
<1>1. CallInv => OneCall
  BY DEF CallInv
<1> QED BY InitCallInv, NextCallInv, <1>1, PTL DEF Spec

-----------------------------------------------------------------------------
(* The log.                                                                *)

EventKinds ==
  Media \cup {"ringing", "accept", "reject", "end", "timeout", "member", "left", "joined",
             "confirmed", "attached"}

Entry ==
  [kind : EventKinds, call : Nat, dev : Devices \cup {None},
   sig : Signals \cup {None}, user : Users \cup {None}]

LogTyped == log \in Seq(Entry)

\* Every step leaves the log alone or appends one event, and the barrier of the
\* group moves only with certain events.
Quiet == UNCHANGED log /\ (pending => pending') /\ pending' \in BOOLEAN

Appends(e) ==
  /\ e \in Entry /\ log' = Append(log, e) /\ pending' \in BOOLEAN
  /\ e.kind \in Media => (E2EE => ~pending)
  /\ e.kind \in {"left", "joined"} => (E2EE => pending')
  /\ e.kind # "confirmed" => (pending => pending')

\* The call that CreateInsert makes.
LEMMA CreatedFinite == IsFiniteSet(Created) /\ Cardinality(Created) \in Nat
<1>1. 1 \in Int /\ MaxCalls \in Int
  BY CallsAssumption
<1>2. IsFiniteSet(CallIds)
  BY <1>1, FS_Interval DEF CallIds
<1>3. Created \subseteq CallIds
  BY DEF Created
<1> QED BY <1>2, <1>3, FS_Subset, FS_CardinalityType

\* Every step appends at most one event to the log.
LEMMA NextLog ==
  ASSUME CallInv, pending \in BOOLEAN, [Next]_vars
  PROVE  Quiet \/ \E e : Appends(e)
<1>1. CASE CreateInsert
  <2> DEFINE e == Event("ringing", Cardinality(Created) + 1, dev, None, Owner[dev])
  <2>1. CASE Refuse
    BY <2>1 DEF Refuse, tables, aclVars, Quiet
  <2>2. CASE Append1(e) /\ UNCHANGED aclVars
    <3>1. dev \in Devices /\ Owner[dev] \in Users
      BY <1>1, CallsAssumption DEF CallInv, Held, CreateInsert
    <3>2. e \in Entry /\ e.kind = "ringing"
      BY <3>1, CreatedFinite DEF Entry, EventKinds, Event
    <3> HIDE DEF e
    <3>3. Appends(e)
      BY <2>2, <3>2 DEF Appends, Append1, aclVars, Media
    <3> QED BY <3>3
  <2> QED BY <1>1, <2>1, <2>2 DEF CreateInsert
<1>2. CASE SignalCommit
  <2> DEFINE e == Event(sig.type, sig.call, sig.dev, sig, Owner[sig.dev])
  <2>1. CASE Refuse
    BY <2>1 DEF Refuse, tables, aclVars, Quiet
  <2>2. CASE Append1(e) /\ UNCHANGED aclVars /\ MediaAllowed(sig)
    <3>1. sig \in Signals /\ sig \in Request
      BY <1>2, CallsAssumption DEF CallInv, Held, SignalCommit
    <3>2. /\ sig.type \in Media \cup {"accept", "reject", "end"} /\ sig.call \in Nat
          /\ sig.dev \in Devices /\ Owner[sig.dev] \in Users
      BY <3>1, CallsAssumption DEF Request, CallIds
    <3>3. e \in Entry /\ e.kind = sig.type
      BY <3>1, <3>2 DEF Entry, EventKinds, Event, Media
    <3> HIDE DEF e
    <3>4. Appends(e)
      BY <2>2, <3>2, <3>3 DEF Appends, Append1, aclVars, Media, MediaAllowed
    <3> QED BY <3>4
  <2> QED BY <1>2, <2>1, <2>2 DEF SignalCommit
<1>3. ASSUME NEW c \in CallIds, CleanupExpire(c) PROVE \E e : Appends(e)
  <2> DEFINE e == Event("timeout", c, None, None, None)
  <2>1. e \in Entry /\ e.kind = "timeout"
    BY CallsAssumption DEF Entry, EventKinds, Event, CallIds
  <2> HIDE DEF e
  <2>2. Appends(e)
    BY <1>3, <2>1 DEF CleanupExpire, Appends, Append1, aclVars, Media, e
  <2> QED BY <2>2
<1>4. ASSUME NEW u \in Users, NEW s \in {"out", "muted", "sender"}, PutMember(u, s)
      PROVE  \E e : Appends(e)
  <2> DEFINE kind == IF (member[u] = "out") = (s = "out") THEN "member"
                     ELSE IF s = "out" THEN "left" ELSE "joined"
             e == Event(kind, 0, None, None, u)
  <2>1. e \in Entry /\ e.kind = kind
    BY CallsAssumption DEF Entry, EventKinds, Event
  <2>2. Append1(e)
    BY <1>4 DEF PutMember
  <2> HIDE DEF e
  <2>3. /\ kind \notin Media
        /\ pending' = (pending \/ (E2EE /\ (member[u] = "out") # (s = "out")))
    BY <1>4 DEF PutMember, Media
  <2>4. kind \in {"left", "joined"} => (member[u] = "out") # (s = "out")
    OBVIOUS
  <2>5. pending' \in BOOLEAN /\ (kind \in {"left", "joined"} => (E2EE => pending')) /\ (pending => pending')
    BY <2>3, <2>4
  <2> HIDE DEF kind
  <2>6. Appends(e)
    BY <2>1, <2>2, <2>3, <2>5 DEF Appends, Append1
  <2> QED BY <2>6
<1>5. CASE ConfirmEpoch
  <2> DEFINE e == Event("confirmed", 0, None, None, None)
  <2>1. e \in Entry /\ e.kind = "confirmed"
    BY CallsAssumption DEF Entry, EventKinds, Event
  <2>2. Append1(e)
    BY <1>5 DEF ConfirmEpoch
  <2> HIDE DEF e
  <2>3. Appends(e)
    BY <1>5, <2>1, <2>2 DEF ConfirmEpoch, Appends, Append1, Media
  <2> QED BY <2>3
<1>6. ASSUME NEW a \in Agents, AttachAgent(a) PROVE \E e : Appends(e)
  <2> DEFINE e == Event("attached", 0, None, None, a)
  <2>1. e \in Entry /\ e.kind = "attached"
    BY DEF Entry, EventKinds, Event, Users
  <2>2. Append1(e)
    BY <1>6 DEF AttachAgent
  <2> HIDE DEF e
  <2>3. Appends(e)
    BY <1>6, <2>1, <2>2 DEF AttachAgent, Appends, Append1, Media
  <2> QED BY <2>3
<1>7. ASSUME NEW d \in Devices, RevokeDevice(d) PROVE Quiet
  BY <1>7 DEF RevokeDevice, tables, Quiet
<1>8. CASE UNCHANGED <<log, pending>>
  BY <1>8 DEF Quiet
<1>9. CASE \/ RequestFails \/ CleanupFails \/ Restart \/ CreatePeer \/ SignalAnswer
          \/ CleanupSelect \/ CleanupOperations \/ CleanupCalls
          \/ (\E d \in Devices : CreateRequest(d) \/ CreateLock(d))
          \/ (\E s \in Signals : SignalRead(s))
          \/ (\E c \in CallIds : Age(c)) \/ (\E o \in ops : AgeOperation(o))
          \/ UNCHANGED vars
  BY <1>8, <1>9 DEF RequestFails, CleanupFails, Restart, CreatePeer, SignalAnswer, CleanupSelect,
     CleanupOperations, CleanupCalls, CreateRequest, CreateLock, SignalRead, Age, AgeOperation,
     Refuse, tables, aclVars, vars
<1> QED BY <1>1, <1>2, <1>3, <1>4, <1>5, <1>6, <1>7, <1>9 DEF Next, Holder

-----------------------------------------------------------------------------
(* Media and the group of an e2ee chat.                                    *)

\* NoMediaInRekey is inductive with the barrier: it is up from the moment
\* somebody left or joined until an epoch is confirmed.
Rekeying ==
  /\ LogTyped /\ pending \in BOOLEAN
  /\ E2EE => \A i \in 1..Len(log) : log[i].kind \in {"left", "joined"} =>
       pending \/ \E k \in i..Len(log) : log[k].kind = "confirmed"
  /\ NoMediaInRekey

\* The log keeps saying whether a rekey is pending.
LEMMA NextRekeying ==
  ASSUME CallInv, Rekeying, [Next]_vars
  PROVE  Rekeying'
<1>1. CASE Quiet
  BY <1>1 DEF Quiet, Rekeying, LogTyped, NoMediaInRekey
<1>2. ASSUME NEW e, Appends(e) PROVE Rekeying'
  <2> DEFINE n == Len(log)
  <2>1. /\ log' \in Seq(Entry) /\ n \in Nat /\ Len(log') = n + 1 /\ log'[n + 1] = e
        /\ \A i \in 1..n : log'[i] = log[i]
    BY <1>2 DEF Appends, Rekeying, LogTyped
  <2> HIDE DEF n
  <2>2. ASSUME E2EE, NEW i \in 1..n, log[i].kind \in {"left", "joined"}
        PROVE  pending \/ \E k \in i..n : log[k].kind = "confirmed"
    BY <2>2 DEF Rekeying, n
  <2>3. ASSUME E2EE, NEW i \in 1..(n + 1), log'[i].kind \in {"left", "joined"}
        PROVE  pending' \/ \E k \in i..(n + 1) : log'[k].kind = "confirmed"
    <3>1. CASE i = n + 1
      BY <1>2, <2>1, <2>3, <3>1 DEF Appends
    <3>2. CASE i \in 1..n
      <4>1. CASE pending
        <5>1. CASE e.kind = "confirmed"
          BY <2>1, <3>2, <5>1
        <5>2. CASE e.kind # "confirmed"
          BY <1>2, <4>1, <5>2 DEF Appends
        <5> QED BY <5>1, <5>2
      <4>2. ASSUME NEW k \in i..n, log[k].kind = "confirmed"
            PROVE  \E x \in i..(n + 1) : log'[x].kind = "confirmed"
        BY <2>1, <3>2, <4>2
      <4> QED BY <2>1, <2>2, <2>3, <3>2, <4>1, <4>2
    <3> QED BY <2>1, <3>1, <3>2
  <2>4. ASSUME E2EE, NEW i \in 1..(n + 1), NEW j \in 1..(n + 1), i < j,
               log'[i].kind \in {"left", "joined"}, log'[j].kind \in Media
        PROVE  \E k \in i..j : log'[k].kind = "confirmed"
    <3>1. i \in 1..n /\ log'[i] = log[i]
      BY <2>1, <2>4
    <3>2. CASE j = n + 1
      <4>1. ~pending
        BY <1>2, <2>1, <2>4, <3>2 DEF Appends
      <4>2. PICK k \in i..n : log[k].kind = "confirmed"
        BY <2>2, <2>4, <3>1, <4>1
      <4>3. k \in i..j /\ k \in 1..n
        BY <2>1, <3>1, <3>2
      <4> QED BY <2>1, <4>2, <4>3
    <3>3. CASE j \in 1..n
      <4>1. PICK k \in i..j : log[k].kind = "confirmed"
        BY <2>1, <2>4, <3>1, <3>3 DEF Rekeying, NoMediaInRekey, n
      <4>2. k \in 1..n
        BY <2>1, <3>1, <3>3
      <4> QED BY <2>1, <4>1, <4>2
    <3> QED BY <2>1, <3>2, <3>3
  <2>5. pending' \in BOOLEAN
    BY <1>2 DEF Appends
  <2>6. NoMediaInRekey'
    BY <2>1, <2>4 DEF NoMediaInRekey
  <2> QED BY <2>1, <2>3, <2>5, <2>6 DEF Rekeying, LogTyped
<1> QED BY <1>1, <1>2, NextLog DEF Rekeying

\* Calls.NoMediaInRekey, for a history of any length: no media signal enters
\* the log between a change of the members and the confirmation of an epoch.
THEOREM NoMediaInRekeyHolds == Spec => []NoMediaInRekey
<1>1. Init => CallInv /\ Rekeying
  <2> SUFFICES ASSUME Init PROVE Rekeying
    BY InitCallInv
  <2>1. log = << >> /\ pending = FALSE
    BY DEF Init
  <2>2. log \in Seq(Entry) /\ 1..Len(log) = {}
    BY <2>1
  <2> QED BY <2>1, <2>2 DEF Rekeying, LogTyped, NoMediaInRekey
<1>2. (CallInv /\ Rekeying) /\ [Next]_vars => (CallInv /\ Rekeying)'
  BY NextCallInv, NextRekeying
<1>3. Rekeying => NoMediaInRekey
  BY DEF Rekeying
<1> QED BY <1>1, <1>2, <1>3, PTL DEF Spec

-----------------------------------------------------------------------------
(* Answers.                                                                *)

\* AnswersTrue is inductive as a part of History: every operation kept, not only
\* those answered, names its event; the state of a call is what its events say;
\* and no event names a call that was not created, whose id is free.
Faithful(o) ==
  /\ o.seq \in 1..Len(log) /\ log[o.seq].sig = o.sig /\ o.sig \in Signals
  /\ o.state = Believed(o.sig.call, o.seq)

History ==
  /\ LogTyped
  /\ answers \subseteq ops /\ \A o \in ops : Faithful(o)
  /\ \A o, p \in ops : o.sig.dev = p.sig.dev /\ o.sig.op = p.sig.op => o = p
  /\ at = "signal" => Earlier(sig) = {}
  /\ \A c \in CallIds : calls[c].state # "none" =>
       calls[c].state = Believed(c, Len(log)) /\ c \in Created
  /\ todo \subseteq Created
  /\ at \in {"peer", "insert"} => Created # CallIds
  /\ \A i \in 1..Len(log) : log[i].call \in Created \cup {0}
  /\ \E n \in Nat : Created = 1..n

\* What an append does to what is read from the log, of the length "n" before.
LEMMA AppendRead ==
  ASSUME LogTyped, NEW e \in Entry, log' = Append(log, e), NEW n, n = Len(log)
  PROVE  /\ LogTyped' /\ n \in Nat /\ Len(log)' = n + 1 /\ log'[n + 1] = e
         /\ \A i \in 1..n : log'[i] = log[i]
         /\ \A c, m : m \in 0..n => Believed(c, m)' = Believed(c, m)
         /\ \A c : Kinds(c, n + 1)' = Kinds(c, n) \cup (IF e.call = c THEN {e.kind} ELSE {})
         /\ Created' = Created \cup (IF e.kind = "ringing" /\ e.call \in CallIds THEN {e.call} ELSE {})
<1>1. /\ log' \in Seq(Entry) /\ n \in Nat /\ Len(log') = n + 1 /\ log'[n + 1] = e
      /\ \A i \in 1..n : log'[i] = log[i]
  BY DEF LogTyped
<1>2. ASSUME NEW c, NEW m \in 0..n PROVE Kinds(c, m)' = Kinds(c, m)
  <2>1. \A i \in 1..m : log'[i] = log[i]
    BY <1>1
  <2> QED BY <2>1 DEF Kinds
<1>3. ASSUME NEW c, NEW m \in 0..n PROVE Believed(c, m)' = Believed(c, m)
  BY <1>2 DEF Believed
<1>4. ASSUME NEW c PROVE Kinds(c, n + 1)' = Kinds(c, n) \cup (IF e.call = c THEN {e.kind} ELSE {})
  <2>1. ASSUME NEW k \in Kinds(c, n + 1)'
        PROVE  k \in Kinds(c, n) \cup (IF e.call = c THEN {e.kind} ELSE {})
    <3>1. PICK i \in 1..(n + 1) : log'[i].call = c /\ k = log'[i].kind
      BY <2>1 DEF Kinds
    <3>2. CASE i = n + 1
      BY <1>1, <3>1, <3>2
    <3>3. CASE i \in 1..n
      BY <1>1, <3>1, <3>3 DEF Kinds
    <3> QED BY <1>1, <3>2, <3>3
  <2>2. ASSUME NEW k \in Kinds(c, n) PROVE k \in Kinds(c, n + 1)'
    <3>1. PICK i \in 1..n : log[i].call = c /\ k = log[i].kind
      BY <2>2 DEF Kinds
    <3>2. i \in 1..(n + 1) /\ log'[i] = log[i]
      BY <1>1
    <3> QED BY <3>1, <3>2 DEF Kinds
  <2>3. e.call = c => e.kind \in Kinds(c, n + 1)'
    <3>1. n + 1 \in 1..(n + 1)
      BY <1>1
    <3> QED BY <1>1, <3>1 DEF Kinds
  <2> QED BY <2>1, <2>2, <2>3
<1>5. Created' = Created \cup (IF e.kind = "ringing" /\ e.call \in CallIds THEN {e.call} ELSE {})
  <2>1. ASSUME NEW c \in CallIds PROVE c \in Created <=> \E i \in 1..n : log[i].kind = "ringing" /\ log[i].call = c
    BY DEF Created
  <2>2. ASSUME NEW c \in CallIds
        PROVE  c \in Created' <=> \E i \in 1..(n + 1) : log'[i].kind = "ringing" /\ log'[i].call = c
    BY <1>1 DEF Created
  <2>3. ASSUME NEW c \in CallIds PROVE c \in Created' <=> c \in Created \/ (e.kind = "ringing" /\ e.call = c)
    <3>1. ASSUME NEW i \in 1..n, log[i].kind = "ringing" /\ log[i].call = c PROVE c \in Created'
      BY <1>1, <2>2, <3>1
    <3>2. ASSUME e.kind = "ringing" /\ e.call = c PROVE c \in Created'
      <4>1. n + 1 \in 1..(n + 1)
        BY <1>1
      <4> QED BY <1>1, <2>2, <3>2, <4>1
    <3>3. ASSUME NEW i \in 1..(n + 1), log'[i].kind = "ringing" /\ log'[i].call = c
          PROVE  c \in Created \/ (e.kind = "ringing" /\ e.call = c)
      <4>1. CASE i = n + 1
        BY <1>1, <3>3, <4>1
      <4>2. CASE i \in 1..n
        BY <1>1, <2>1, <3>3, <4>2
      <4> QED BY <1>1, <4>1, <4>2
    <3> QED BY <2>1, <2>2, <3>1, <3>2, <3>3
  <2>4. Created \subseteq CallIds /\ Created' \subseteq CallIds
    BY DEF Created
  <2> QED BY <2>3, <2>4
<1> QED BY <1>1, <1>3, <1>4, <1>5 DEF LogTyped

\* What an event adds to the kinds of a call's log.
LEMMA KindsAfter ==
  ASSUME LogTyped, NEW e \in Entry, log' = Append(log, e), NEW n, n = Len(log), NEW c
  PROVE  Kinds(c, n + 1)' = Kinds(c, n) \cup (IF e.call = c THEN {e.kind} ELSE {})
<1>1. \A b : Kinds(b, n + 1)' = Kinds(b, n) \cup (IF e.call = b THEN {e.kind} ELSE {})
  BY AppendRead
<1> QED BY <1>1, Zenon

\* What an event adds to the calls that were created.
LEMMA CreatedAfter ==
  ASSUME LogTyped, NEW e \in Entry, log' = Append(log, e)
  PROVE  Created' = Created \cup (IF e.kind = "ringing" /\ e.call \in CallIds THEN {e.call} ELSE {})
<1>1. PICK n : n = Len(log)
  OBVIOUS
<1> QED BY <1>1, AppendRead, Zenon

\* A step that appends an event about no call, or about a call "c" whose state it
\* sets to what the event says.
LEMMA AppendHistory ==
  ASSUME CallInv, History, NEW e \in Entry, log' = Append(log, e), NEW n, n = Len(log),
         e.call \in Created' \cup {0},
         \A c \in CallIds : calls'[c].state # "none" =>
           /\ e.call # c => calls'[c].state = calls[c].state
           /\ e.call = c => calls'[c].state = Believed(c, n + 1)',
         \E m \in Nat : Created' = 1..m,
         answers' = answers, todo' \subseteq todo,
         \/ ops' = ops
         \/ \E o : /\ ops' = ops \cup {o} /\ Faithful(o)' /\ at' = "answer"
                  /\ \A p \in ops : ~(p.sig.dev = o.sig.dev /\ p.sig.op = o.sig.op),
         at' \in {"signal", "peer", "insert"} => at' = at /\ sig' = sig /\ Created' = Created
  PROVE  History'
<1>1. /\ LogTyped' /\ n \in Nat /\ Len(log)' = n + 1 /\ log'[n + 1] = e
      /\ \A i \in 1..n : log'[i] = log[i]
      /\ \A c, m : m \in 0..n => Believed(c, m)' = Believed(c, m)
      /\ \A c : Kinds(c, n + 1)' = Kinds(c, n) \cup (IF e.call = c THEN {e.kind} ELSE {})
      /\ Created' = Created \cup (IF e.kind = "ringing" /\ e.call \in CallIds THEN {e.call} ELSE {})
  BY AppendRead DEF History
<1>2. Created \subseteq Created'
  BY <1>1
<1>3. ASSUME NEW o \in ops PROVE Faithful(o)'
  <2>1. o.seq \in 1..Len(log) /\ Faithful(o)
    BY DEF History, Faithful
  <2>2. Believed(o.sig.call, o.seq)' = Believed(o.sig.call, o.seq)
    BY <1>1, <2>1
  <2> QED BY <1>1, <2>1, <2>2 DEF Faithful
<1>4. \A o \in ops' : Faithful(o)'
  BY <1>3
<1>5. \A o, p \in ops' : o.sig.dev = p.sig.dev /\ o.sig.op = p.sig.op => o = p
  BY DEF History
<1>6. ASSUME NEW c \in CallIds, calls'[c].state # "none"
      PROVE  calls'[c].state = Believed(c, n + 1)' /\ c \in Created'
  <2>1. CASE e.call = c
    <3>1. c # 0
      BY CallsAssumption DEF CallIds
    <3> QED BY <1>1, <1>6, <2>1, <3>1
  <2>2. CASE e.call # c
    <3>1. calls'[c].state = Believed(c, n) /\ c \in Created
      BY <1>6, <2>2 DEF History
    <3>2. Kinds(c, n + 1)' = Kinds(c, n)
      <4>1. Kinds(c, n + 1)' = Kinds(c, n) \cup (IF e.call = c THEN {e.kind} ELSE {})
        BY <1>1, Zenon
      <4> QED BY <2>2, <4>1
    <3>3. Believed(c, n + 1)' = Believed(c, n)
      BY <3>2 DEF Believed
    <3> QED BY <1>1, <1>2, <3>1, <3>3
  <2> QED BY <2>1, <2>2
<1>7. \A i \in 1..Len(log)' : log'[i].call \in Created' \cup {0}
  <2>1. ASSUME NEW i \in 1..(n + 1) PROVE log'[i].call \in Created' \cup {0}
    BY <1>1, <1>2 DEF History
  <2> QED BY <1>1, <2>1
<1>8. at' = "signal" => Earlier(sig)' = {}
  BY DEF History, Earlier
<1>9. at' \in {"peer", "insert"} => Created' # CallIds
  BY DEF History
<1>10. \A c \in CallIds : calls'[c].state # "none" => calls'[c].state = Believed(c, Len(log))' /\ c \in Created'
  <2>1. ASSUME NEW c, NEW m, Len(log') = m PROVE Believed(c, Len(log))' = Believed(c, m)'
    BY <2>1 DEF Believed, Kinds
  <2> QED BY <1>1, <1>6, <2>1
<1> QED BY <1>1, <1>2, <1>7, <1>8, <1>9, <1>10, <1>4, <1>5 DEF History

\* A step that appends nothing.
LEMMA StillHistory ==
  ASSUME CallInv, History, log' = log, ops' \subseteq ops, answers' \subseteq ops',
         \A c \in CallIds : calls'[c].state \in {"none", calls[c].state},
         todo' \subseteq Created,
         at' = "signal" => \/ at = "signal" /\ sig' = sig
                          \/ {o \in ops : o.sig.dev = sig'.dev /\ o.sig.op = sig'.op} = {},
         at' \in {"peer", "insert"} => Created # CallIds
  PROVE  History'
<1>1. Created' = Created
  BY DEF Created
<1>2. ASSUME NEW c, NEW n PROVE Believed(c, n)' = Believed(c, n)
  BY DEF Believed, Kinds
<1>3. \A o \in ops' : Faithful(o)'
  BY <1>2 DEF History, Faithful
<1>4. at' = "signal" => Earlier(sig)' = {}
  BY DEF History, Earlier
<1>5. ASSUME NEW c \in CallIds, calls'[c].state # "none"
      PROVE  calls'[c].state = Believed(c, Len(log))' /\ c \in Created'
  <2>1. Believed(c, Len(log))' = Believed(c, Len(log))
    BY DEF Believed, Kinds
  <2> QED BY <1>1, <1>5, <2>1 DEF History
<1> QED BY <1>1, <1>3, <1>4, <1>5 DEF History, LogTyped

\* Creating a call keeps the history true.
LEMMA CreateHistory ==
  ASSUME CallInv, History, CreateInsert
  PROVE  History'
<1>1. CASE Refuse
  BY <1>1, StillHistory DEF Refuse, Unlock, tables, History
<1>2. CASE ~Refuse
  <2> PICK c : c = Cardinality(Created) + 1
    OBVIOUS
  <2> DEFINE e == Event("ringing", c, dev, None, Owner[dev])
  <2>1. /\ calls' = [calls EXCEPT ![c] = Ringing(Owner[dev], callee)]
        /\ Append1(e) /\ Unlock /\ UNCHANGED <<ops, answers>> /\ at = "insert"
    BY <1>2 DEF CreateInsert
  <2>2. PICK k \in Nat : Created = 1..k
    BY DEF History
  <2>3. Cardinality(Created) = k
    <3>1. 1 \in Int /\ k \in Int
      BY <2>2
    <3> QED BY <2>2, <3>1, FS_Interval
  <2>4. c = k + 1 /\ c \in CallIds /\ c \notin Created
    <3>1. k <= MaxCalls
      <4>1. CASE k = 0
        BY <4>1, CallsAssumption
      <4>2. CASE k # 0
        <5>1. k \in Created
          BY <2>2, <4>2
        <5> QED BY <5>1 DEF Created, CallIds
      <4> QED BY <4>1, <4>2
    <3>2. Created # CallIds
      BY <2>1 DEF History
    <3>3. k # MaxCalls
      BY <2>2, <3>2 DEF CallIds
    <3> QED BY <2>2, <2>3, <3>1, <3>3, CallsAssumption DEF CallIds
  <2>5. e \in Entry /\ e.kind = "ringing" /\ e.call = c
    <3>1. dev \in Devices /\ Owner[dev] \in Users
      BY <2>1, CallsAssumption DEF CallInv, Held
    <3> QED BY <3>1, <2>2, <2>4 DEF Entry, EventKinds, Event
  <2> HIDE DEF e
  <2>6. PICK n : n = Len(log)
    OBVIOUS
  <2>7. log' = Append(log, e)
    BY <2>1 DEF Append1
  <2>8. Created' = Created \cup {c} /\ Kinds(c, n + 1)' = Kinds(c, n) \cup {"ringing"}
    <3>1. Created' = Created \cup (IF e.kind = "ringing" /\ e.call \in CallIds THEN {e.call} ELSE {})
      BY <2>5, <2>7, CreatedAfter DEF History
    <3>2. Kinds(c, n + 1)' = Kinds(c, n) \cup (IF e.call = c THEN {e.kind} ELSE {})
      BY <2>5, <2>6, <2>7, KindsAfter DEF History
    <3> QED BY <2>4, <2>5, <3>1, <3>2
  <2>9. Kinds(c, n) = {}
    <3>1. \A i \in 1..n : log[i].call # c
      BY <2>2, <2>4, <2>6 DEF History
    <3> QED BY <3>1 DEF Kinds
  <2>10. Believed(c, n + 1)' = "ringing"
    BY <2>8, <2>9 DEF Believed
  <2>11. Created' = 1..(k + 1) /\ k + 1 \in Nat
    BY <2>2, <2>4, <2>8
  <2>12. /\ calls'[c].state = "ringing"
         /\ \A b \in CallIds : b # c => calls'[b] = calls[b]
    BY <2>1, <2>4 DEF CallInv, RowsTyped, Ringing
  <2>13. e.call \in Created' \cup {0} /\ ops' = ops /\ answers' = answers /\ todo' \subseteq todo
         /\ at' = "free"
    BY <2>1, <2>5, <2>8 DEF Unlock
  <2>14. \A b \in CallIds : calls'[b].state # "none" =>
           /\ e.call # b => calls'[b].state = calls[b].state
           /\ e.call = b => calls'[b].state = Believed(b, n + 1)'
    BY <2>5, <2>10, <2>12
  <2>15. \E m \in Nat : Created' = 1..m
    BY <2>11
  <2> QED BY <2>5, <2>6, <2>7, <2>13, <2>14, <2>15, AppendHistory
<1> QED BY <1>1, <1>2

\* The end of a call is the end a client believes in.
LEMMA ExpireHistory ==
  ASSUME CallInv, History, NEW c \in CallIds, CleanupExpire(c)
  PROVE  History'
<1> DEFINE e == Event("timeout", c, None, None, None)
<1>1. e \in Entry /\ e.kind = "timeout" /\ e.call = c
  BY CallsAssumption DEF Entry, EventKinds, Event, CallIds
<1>2. log' = Append(log, e)
  BY DEF CleanupExpire, Append1
<1> HIDE DEF e
<1>3. PICK n : n = Len(log)
  OBVIOUS
<1>4. Created' = Created /\ Kinds(c, n + 1)' = Kinds(c, n) \cup {"timeout"}
  <2>1. Created' = Created \cup (IF e.kind = "ringing" /\ e.call \in CallIds THEN {e.call} ELSE {})
    BY <1>1, <1>2, CreatedAfter DEF History
  <2>2. Kinds(c, n + 1)' = Kinds(c, n) \cup (IF e.call = c THEN {e.kind} ELSE {})
    BY <1>1, <1>2, <1>3, KindsAfter DEF History
  <2> QED BY <1>1, <2>1, <2>2
<1>5. Believed(c, n + 1)' = "ended"
  <2>1. "timeout" \in Kinds(c, n + 1)' \cap {"end", "reject", "timeout"}
    BY <1>4
  <2> QED BY <2>1 DEF Believed
<1>6. calls'[c].state = "ended" /\ \A b \in CallIds : b # c => calls'[b] = calls[b]
  BY DEF CallInv, RowsTyped, CleanupExpire, Rows
<1>7. c \in Created' /\ \E m \in Nat : Created' = 1..m
  BY <1>4 DEF History, CleanupExpire
<1>8. ops' = ops /\ answers' = answers /\ todo' \subseteq todo /\ at' = "expire"
  BY DEF CleanupExpire
<1> QED BY <1>1, <1>2, <1>3, <1>5, <1>6, <1>7, <1>8, AppendHistory

\* An event of the chat about no call.
LEMMA AsideHistory ==
  ASSUME CallInv, History, UNCHANGED <<calls, ops, answers, lockVars>>,
         NEW kind \in {"member", "left", "joined", "confirmed", "attached"}, NEW u \in Users \cup {None},
         Append1(Event(kind, 0, None, None, u))
  PROVE  History'
<1> DEFINE e == Event(kind, 0, None, None, u)
<1>1. e \in Entry /\ e.kind # "ringing" /\ e.call = 0
  BY CallsAssumption DEF Entry, EventKinds, Event
<1>2. log' = Append(log, e)
  BY DEF Append1
<1> HIDE DEF e
<1>3. PICK n : n = Len(log)
  OBVIOUS
<1>4. Created' = Created
  <2>1. Created' = Created \cup (IF e.kind = "ringing" /\ e.call \in CallIds THEN {e.call} ELSE {})
    BY <1>1, <1>2, CreatedAfter DEF History
  <2> QED BY <1>1, <2>1
<1>5. /\ \E m \in Nat : Created' = 1..m /\ \A c \in CallIds : calls'[c] = calls[c] /\ c # 0
  BY <1>4, CallsAssumption DEF History, CallIds
<1>6. ops' = ops /\ answers' = answers /\ todo' \subseteq todo /\ at' = at /\ sig' = sig
  BY DEF lockVars
<1> QED BY <1>1, <1>2, <1>3, <1>4, <1>5, <1>6, AppendHistory

\* A signal is recorded with the number of its event and with the state that the
\* event leads to; its operation is a new one.
LEMMA SignalHistory ==
  ASSUME CallInv, History, SignalCommit
  PROVE  History'
<1>1. CASE Refuse
  BY <1>1, StillHistory DEF Refuse, Unlock, tables, History
<1>2. CASE ~Refuse
  <2> PICK s : s = sig
    OBVIOUS
  <2> PICK n : n = Len(log)
    OBVIOUS
  <2> PICK state : state = NextState(s)
    OBVIOUS
  <2> DEFINE c == s.call
             e == Event(s.type, c, s.dev, s, Owner[s.dev])
             o == [sig |-> s, seq |-> n + 1, state |-> state]
  <2>1. /\ at = "signal" /\ at' = "answer" /\ Append1(e) /\ ops' = ops \cup {o}
        /\ calls' = [calls EXCEPT ![c].state = state] /\ UNCHANGED <<todo, answers>>
    BY <1>2 DEF SignalCommit, Record
  <2>2. s \in Signals /\ s \in Request /\ InProgress(c)
    BY <2>1, CallsAssumption DEF CallInv, Held
  <2>3. /\ s.type \in Media \cup {"accept", "reject", "end"} /\ c \in CallIds
        /\ s.dev \in Devices /\ Owner[s.dev] \in Users
    BY <2>2, CallsAssumption DEF Request
  <2>4. e \in Entry /\ e.kind = s.type /\ e.call = c /\ e.sig = s /\ e.kind # "ringing"
    BY <2>2, <2>3 DEF Entry, EventKinds, Event, CallIds, Media
  <2> HIDE DEF e
  <2>5. log' = Append(log, e)
    BY <2>1 DEF Append1
  <2>6. Created' = Created /\ c \in Created'
    <3>1. Created' = Created \cup (IF e.kind = "ringing" /\ e.call \in CallIds THEN {e.call} ELSE {})
      BY <2>4, <2>5, CreatedAfter DEF History
    <3>2. c \in Created
      BY <2>2, <2>3 DEF History, InProgress
    <3> QED BY <2>4, <3>1, <3>2
  <2>7. Kinds(c, n + 1)' = Kinds(c, n) \cup {s.type}
    <3>1. Kinds(c, n + 1)' = Kinds(c, n) \cup (IF e.call = c THEN {e.kind} ELSE {})
      BY <2>4, <2>5, KindsAfter DEF History
    <3> QED BY <2>4, <3>1
  <2>8. state = Believed(c, n + 1)'
    <3>1. calls[c].state = Believed(c, n) /\ calls[c].state \in {"ringing", "active"}
      BY <2>2, <2>3 DEF History, InProgress
    <3>2. Kinds(c, n) \cap {"end", "reject", "timeout"} = {}
      BY <3>1 DEF Believed
    <3>3. CASE s.type \in {"reject", "end"}
      <4>1. state = "ended"
        BY <3>3 DEF NextState
      <4>2. s.type \in Kinds(c, n + 1)' \cap {"end", "reject", "timeout"}
        BY <2>7, <3>3
      <4> QED BY <4>1, <4>2 DEF Believed
    <3>4. CASE s.type = "accept"
      <4>1. state = "active"
        BY <3>4 DEF NextState
      <4>2. Kinds(c, n + 1)' \cap {"end", "reject", "timeout"} = {} /\ "accept" \in Kinds(c, n + 1)'
        BY <2>7, <3>2, <3>4
      <4> QED BY <4>1, <4>2 DEF Believed
    <3>5. CASE s.type \in Media
      <4>1. state = calls[c].state
        BY <3>5 DEF NextState, Media
      <4>2. /\ Kinds(c, n + 1)' \cap {"end", "reject", "timeout"} = {}
            /\ "accept" \in Kinds(c, n + 1)' <=> "accept" \in Kinds(c, n)
            /\ "ringing" \in Kinds(c, n + 1)' <=> "ringing" \in Kinds(c, n)
        BY <2>7, <3>2, <3>5 DEF Media
      <4> QED BY <3>1, <3>2, <4>1, <4>2 DEF Believed
    <3> QED BY <2>3, <3>3, <3>4, <3>5
  <2>9. /\ n \in Nat /\ Len(log') = n + 1 /\ log'[n + 1] = e
    BY <2>4, <2>5 DEF History, LogTyped
  <2>10. Faithful(o)'
    BY <2>2, <2>4, <2>8, <2>9 DEF Faithful
  <2>11. \A p \in ops : ~(p.sig.dev = s.dev /\ p.sig.op = s.op)
    BY <2>1 DEF History, Earlier
  <2>12. calls'[c].state = state /\ \A b \in CallIds : b # c => calls'[b] = calls[b]
    BY <2>1, <2>3 DEF CallInv, RowsTyped, Rows
  <2>13. \A b \in CallIds : calls'[b].state # "none" =>
           /\ e.call # b => calls'[b].state = calls[b].state
           /\ e.call = b => calls'[b].state = Believed(b, n + 1)'
    BY <2>4, <2>8, <2>12
  <2>14. \E m \in Nat : Created' = 1..m
    BY <2>6 DEF History
  <2>15. o.sig = s
    OBVIOUS
  <2> HIDE DEF o
  <2>16. \E p : /\ ops' = ops \cup {p} /\ Faithful(p)' /\ at' = "answer"
               /\ \A q \in ops : ~(q.sig.dev = p.sig.dev /\ q.sig.op = p.sig.op)
    BY <2>1, <2>10, <2>11, <2>15
  <2> QED BY <2>1, <2>4, <2>5, <2>6, <2>13, <2>14, <2>16, AppendHistory
<1> QED BY <1>1, <1>2

\* Every step keeps the history true.
LEMMA NextHistory ==
  ASSUME CallInv, History, [Next]_vars
  PROVE  History'
<1>1. ASSUME NEW d \in Devices, CreateLock(d) PROVE History'
  BY <1>1, StillHistory DEF CreateLock, tables, lockVars, History
<1>2. CASE CreatePeer
  BY <1>2, StillHistory DEF CreatePeer, Refuse, Unlock, tables, History
<1>3. ASSUME NEW s \in Signals, SignalRead(s) PROVE History'
  BY <1>3, StillHistory DEF SignalRead, Earlier, tables, lockVars, History
<1>4. CASE SignalAnswer
  BY <1>4, StillHistory DEF SignalAnswer, Earlier, Unlock, tables, History
<1>5. CASE RequestFails \/ CleanupFails \/ Restart
  BY <1>5, StillHistory DEF RequestFails, CleanupFails, Restart, Refuse, Unlock, tables, History
<1>6. CASE CleanupSelect
  <2>1. {c \in CallIds : Overdue(c)} \subseteq Created
    BY DEF Overdue, History
  <2> QED BY <1>6, <2>1, StillHistory DEF CleanupSelect, tables, History
<1>7. CASE CleanupOperations
  BY <1>7, StillHistory DEF CleanupOperations, History
<1>8. CASE CleanupCalls
  <2>1. \A c \in CallIds : calls'[c].state \in {"none", calls[c].state}
    BY <1>8 DEF CleanupCalls, NoCall
  <2> QED BY <1>8, <2>1, StillHistory DEF CleanupCalls, Unlock, History
<1>9. ASSUME NEW c \in CallIds, Age(c) PROVE History'
  <2>1. \A b \in CallIds : calls'[b].state = calls[b].state
    BY <1>9 DEF Age, CallInv, RowsTyped, Rows
  <2> QED BY <1>9, <2>1, StillHistory DEF Age, lockVars, History
<1>10. ASSUME NEW u \in Users, NEW s \in {"out", "muted", "sender"}, PutMember(u, s) PROVE History'
  BY <1>10, AsideHistory DEF PutMember
<1>11. CASE ConfirmEpoch
  BY <1>11, AsideHistory DEF ConfirmEpoch
<1>12. ASSUME NEW a \in Agents, AttachAgent(a) PROVE History'
  BY <1>12, AsideHistory DEF AttachAgent, Users
<1>13. CASE UNCHANGED <<calls, ops, answers, log, lockVars>>
  BY <1>13, StillHistory DEF lockVars, History
<1>14. ASSUME NEW d \in Devices, CreateRequest(d) \/ RevokeDevice(d) PROVE History'
  BY <1>13, <1>14 DEF CreateRequest, RevokeDevice, tables
<1>15. ASSUME NEW o \in ops, AgeOperation(o) PROVE History'
  BY <1>13, <1>15 DEF AgeOperation
<1>16. CASE UNCHANGED vars
  BY <1>13, <1>16 DEF vars, tables
<1>17. CASE Holder
  BY <1>2, <1>4, <1>5, <1>7, <1>8, <1>17, CreateHistory, ExpireHistory, SignalHistory DEF Holder
<1> QED
  BY <1>1, <1>3, <1>5, <1>6, <1>9, <1>10, <1>11, <1>12, <1>14, <1>15, <1>16, <1>17 DEF Next

\* The empty history is true.
LEMMA InitHistory == Init => History
<1> SUFFICES ASSUME Init PROVE History
  OBVIOUS
<1>1. /\ log = << >> /\ ops = {} /\ answers = {} /\ todo = {} /\ at = "free"
      /\ \A c \in CallIds : calls[c].state = "none"
  BY DEF Init, NoCall
<1>2. log \in Seq(Entry) /\ 1..Len(log) = {}
  BY <1>1
<1>3. Created = 1..0
  BY <1>2 DEF Created
<1> QED BY <1>1, <1>2, <1>3 DEF History, LogTyped

\* Calls.AnswersTrue, for any requests, any history and any crashes: a positive
\* answer names the event that its signal became and the state it led to.
THEOREM AnswersTrueHolds == Spec => []AnswersTrue
<1>1. Init => CallInv /\ History
  BY InitCallInv, InitHistory
<1>2. (CallInv /\ History) /\ [Next]_vars => (CallInv /\ History)'
  BY NextCallInv, NextHistory
<1>3. History => AnswersTrue
  BY DEF History, Faithful, AnswersTrue
<1> QED BY <1>1, <1>2, <1>3, PTL DEF Spec

-----------------------------------------------------------------------------
(* The two sides of a call.                                                *)

Peers == at = "insert" => callee # Owner[dev]

\* The callee of a creation under way is never its caller.
LEMMA NextPeers ==
  ASSUME Peers, [Next]_vars
  PROVE  Peers'
<1>1. CASE CreatePeer
  BY <1>1 DEF CreatePeer, Refuse, Unlock, Peers
<1>2. ASSUME NEW d \in Devices, CreateLock(d) PROVE Peers'
  BY <1>2 DEF CreateLock, lockVars, Peers
<1>3. ASSUME NEW s \in Signals, SignalRead(s) PROVE Peers'
  BY <1>3 DEF SignalRead, lockVars, Peers
<1>4. CASE at' # "insert"
  BY <1>4 DEF Peers
<1>5. CASE CreateInsert \/ SignalCommit \/ SignalAnswer \/ RequestFails \/ CleanupFails \/ Restart
           \/ CleanupSelect \/ (\E c \in CallIds : CleanupExpire(c)) \/ CleanupOperations \/ CleanupCalls
  BY <1>4, <1>5 DEF CreateInsert, SignalCommit, SignalAnswer, RequestFails, CleanupFails, Restart,
     CleanupSelect, CleanupExpire, CleanupOperations, CleanupCalls, Refuse, Unlock
<1>6. CASE UNCHANGED lockVars
  BY <1>6 DEF lockVars, Peers
<1>7. ASSUME NEW d \in Devices, CreateRequest(d) \/ RevokeDevice(d) PROVE Peers'
  BY <1>6, <1>7 DEF CreateRequest, RevokeDevice
<1>8. ASSUME NEW c, Age(c) \/ AgeOperation(c) PROVE Peers'
  BY <1>6, <1>8 DEF Age, AgeOperation
<1>9. ASSUME NEW u, NEW s, PutMember(u, s) PROVE Peers'
  BY <1>6, <1>9 DEF PutMember
<1>10. ASSUME NEW a, AttachAgent(a) PROVE Peers'
  BY <1>6, <1>10 DEF AttachAgent
<1>11. CASE ConfirmEpoch \/ UNCHANGED vars
  BY <1>6, <1>11 DEF ConfirmEpoch, vars, lockVars
<1> QED BY <1>1, <1>2, <1>3, <1>5, <1>7, <1>8, <1>9, <1>10, <1>11 DEF Next, Holder

\* A set of two people within another is that set.
LEMMA TwoPeople ==
  ASSUME NEW S, S \subseteq People, Cardinality(S) = 2
  PROVE  S = People
  BY FS_Subset, CallsAssumption

\* Calls.BetweenActive where no agent can be attached, as in every e2ee chat: the
\* two sides of a new call are the two active members.  With an agent the
\* property fails (run calls_agent).
THEOREM BetweenActiveHolds == Agents = {} => (Spec => BetweenActive)
<1> SUFFICES ASSUME Agents = {} PROVE Spec => BetweenActive
  OBVIOUS
<1> DEFINE Between == \A c \in CallIds : calls[c].state = "none" /\ calls'[c].state = "ringing"
                        => {calls'[c].caller, calls'[c].callee} = Active
<1>1. Init => CallInv /\ Peers
  BY InitCallInv DEF Init, Peers
<1>2. (CallInv /\ Peers) /\ [Next]_vars => (CallInv /\ Peers)'
  BY NextCallInv, NextPeers
<1>3. ASSUME CallInv, Peers, [Next]_vars PROVE Between
  <2> SUFFICES ASSUME NEW c \in CallIds, calls[c].state = "none", calls'[c].state = "ringing"
               PROVE  {calls'[c].caller, calls'[c].callee} = Active
    OBVIOUS
  <2>1. CASE CreateInsert
    <3>1. /\ at = "insert" /\ Permitted(dev) /\ StillTwo
          /\ calls' = [calls EXCEPT ![Cardinality(Created) + 1] = Ringing(Owner[dev], callee)]
      BY <2>1 DEF CreateInsert, Refuse, tables
    <3>2. calls'[c].caller = Owner[dev] /\ calls'[c].callee = callee
      BY <3>1 DEF CallInv, RowsTyped, Ringing
    <3>3. Owner[dev] \in People /\ callee \in People /\ callee # Owner[dev]
      BY <1>3, <3>1, CallsAssumption DEF CallInv, Held, Users, Peers
    <3>4. Cardinality({Owner[dev], callee}) = 2
      <4>1. IsFiniteSet({callee}) /\ Cardinality({callee}) = 1
        BY FS_Singleton
      <4>2. Cardinality({callee} \cup {Owner[dev]}) = 2
        <5>1. Cardinality({callee} \cup {Owner[dev]})
                = IF Owner[dev] \in {callee} THEN Cardinality({callee}) ELSE Cardinality({callee}) + 1
          BY <4>1, FS_AddElement, Zenon
        <5>2. Owner[dev] \notin {callee}
          BY <3>3
        <5> QED BY <4>1, <5>1, <5>2
      <4>3. {callee} \cup {Owner[dev]} = {Owner[dev], callee}
        OBVIOUS
      <4> QED BY <4>2, <4>3
    <3>5. Active = People
      BY <3>1, TwoPeople DEF StillTwo, Active, Users
    <3>6. {Owner[dev], callee} = People
      BY <3>3, <3>4, TwoPeople
    <3> QED BY <3>2, <3>5, <3>6
  <2>2. CASE ~CreateInsert
    <3>1. CASE UNCHANGED calls
      BY <3>1
    <3>2. CASE SignalCommit
      BY <1>3, <2>2, <3>2 DEF SignalCommit, CallInv, RowsTyped, Held, InProgress, Refuse, tables
    <3>3. ASSUME NEW b \in CallIds, CleanupExpire(b) PROVE FALSE
      BY <3>3 DEF CleanupExpire, CallInv, RowsTyped
    <3>4. ASSUME NEW b \in CallIds, Age(b) PROVE FALSE
      BY <1>3, <3>4 DEF Age, CallInv, RowsTyped, Rows
    <3>5. CASE CleanupCalls
      BY <3>5 DEF CleanupCalls, CallInv, RowsTyped, NoCall
    <3> QED
      BY <1>3, <2>2, <3>1, <3>2, <3>3, <3>4, <3>5
      DEF Next, Holder, CreateRequest, CreateLock, RevokeDevice, SignalRead, CleanupSelect, CreatePeer,
          SignalAnswer, RequestFails, CleanupOperations, CleanupFails, AgeOperation, PutMember,
          ConfirmEpoch, AttachAgent, Restart, Refuse, tables, vars
  <2> QED BY <2>1, <2>2
<1>4. (CallInv /\ Peers) /\ [Next]_vars => [Between]_vars
  BY <1>3
<1> QED BY <1>1, <1>2, <1>4, PTL DEF Spec, BetweenActive
=============================================================================
