--------------------------- MODULE DeliveryProofs ---------------------------
(***************************************************************************)
(* Proofs about Delivery, for every number of connections, chats and       *)
(* events and every page size: no notification is lost, no event is        *)
(* skipped, and nobody is sent what is not theirs to read.                 *)
(***************************************************************************)
EXTENDS Delivery, FiniteSetTheorems, TLAPS

-----------------------------------------------------------------------------
(* Finite sets of numbers and pages.                                       *)

Below(S, n) == {m \in S : m < n}

\* An element's rank, the number of elements below it, tells the elements of a
\* finite set apart, and all ranks occur.
LEMMA Ranks ==
  ASSUME NEW S \in SUBSET Int, IsFiniteSet(S)
  PROVE  /\ \A x \in S : Cardinality(Below(S, x)) \in 0..(Cardinality(S) - 1)
         /\ \A x, y \in S : x < y => Cardinality(Below(S, x)) < Cardinality(Below(S, y))
         /\ \A r \in 0..(Cardinality(S) - 1) : \E x \in S : Cardinality(Below(S, x)) = r
<1> DEFINE n == Cardinality(S)
           f == [x \in S |-> Cardinality(Below(S, x))]
           T == 0..(n - 1)
<1>1. n \in Nat
  BY FS_CardinalityType
<1>2. \A x \in S : Below(S, x) \in SUBSET S /\ x \notin Below(S, x)
  BY DEF Below
<1>3. \A x \in S : IsFiniteSet(Below(S, x)) /\ Cardinality(Below(S, x)) \in Nat
  BY <1>2, FS_Subset, FS_CardinalityType
<1>4. ASSUME NEW x \in S
      PROVE  Cardinality(Below(S, x)) \in T
  <2>1. Cardinality(Below(S, x)) <= n
    BY <1>2, FS_Subset
  <2>2. Cardinality(Below(S, x)) # n
    BY <1>2, FS_Subset
  <2> QED
    BY <1>1, <1>3, <2>1, <2>2
<1>5. ASSUME NEW x \in S, NEW y \in S, x < y
      PROVE  Cardinality(Below(S, x)) < Cardinality(Below(S, y))
  <2>0. ASSUME NEW z \in Below(S, x) \cup {x}
        PROVE  z \in Below(S, y)
    <3>1. x \in Int /\ y \in Int /\ z \in S /\ z \in Int
      BY <2>0 DEF Below
    <3>2. z <= x
      BY <2>0, <3>1 DEF Below
    <3> QED
      BY <1>5, <3>1, <3>2 DEF Below
  <2>1. Below(S, x) \cup {x} \in SUBSET Below(S, y)
    BY <2>0
  <2>2. Cardinality(Below(S, x) \cup {x}) = Cardinality(Below(S, x)) + 1
    BY <1>2, <1>3, FS_AddElement
  <2>3. Cardinality(Below(S, x) \cup {x}) <= Cardinality(Below(S, y))
    BY <1>3, <2>1, FS_Subset
  <2> QED
    BY <1>3, <2>2, <2>3
<1>6. f \in Injection(S, T)
  <2>1. f \in [S -> T]
    BY <1>4
  <2>2. ASSUME NEW x \in S, NEW y \in S, f[x] = f[y]
        PROVE  x = y
    <3>1. x \in Int /\ y \in Int
      OBVIOUS
    <3>2. ~(x < y) /\ ~(y < x)
      BY <1>3, <1>5, <2>2
    <3> QED
      BY <3>1, <3>2
  <2> QED
    BY <2>1, <2>2 DEF Injection, IsInjective
<1>7. IsFiniteSet(T) /\ Cardinality(T) = n
  BY <1>1, FS_Interval
<1>8. f \in Surjection(S, T)
  BY <1>6, <1>7, FS_Injection
<1>9. ASSUME NEW r \in T
      PROVE  \E x \in S : Cardinality(Below(S, x)) = r
  BY <1>8 DEF Surjection
<1> QED
  BY <1>4, <1>5, <1>9

\* A finite set of numbers that is not empty has a least and a greatest element.
LEMMA Extremes ==
  ASSUME NEW S \in SUBSET Int, IsFiniteSet(S), S # {}
  PROVE  /\ \E x \in S : \A m \in S : x <= m
         /\ \E x \in S : \A m \in S : m <= x
<1> DEFINE n == Cardinality(S)
<1>1. n \in Nat /\ n # 0
  BY FS_CardinalityType, FS_EmptySet
<1>2. 0 \in 0..(n - 1) /\ n - 1 \in 0..(n - 1)
  BY <1>1
<1>3. PICK x \in S : Cardinality(Below(S, x)) = 0
  BY <1>2, Ranks
<1>4. PICK y \in S : Cardinality(Below(S, y)) = n - 1
  BY <1>2, Ranks
<1>5. ASSUME NEW m \in S
      PROVE  x <= m
  <2>1. Cardinality(Below(S, m)) \in 0..(n - 1)
    BY Ranks
  <2>2. ~(m < x)
    BY <1>3, <2>1, Ranks
  <2> QED
    BY <2>2
<1>6. ASSUME NEW m \in S
      PROVE  m <= y
  <2>1. Cardinality(Below(S, m)) \in 0..(n - 1)
    BY Ranks
  <2>2. ~(y < m)
    BY <1>1, <1>4, <2>1, Ranks
  <2> QED
    BY <2>2
<1> QED
  BY <1>5, <1>6

\* The first elements of a finite set: they are closed downwards, and all of the set
\* if they are fewer than were asked for.
First(S, size) == {n \in S : Cardinality({m \in S : m < n}) < size}

LEMMA FirstFacts ==
  ASSUME NEW S \in SUBSET Int, IsFiniteSet(S), NEW size \in Nat
  PROVE  /\ First(S, size) \in SUBSET S /\ IsFiniteSet(First(S, size))
         /\ \A n \in First(S, size), m \in S : m < n => m \in First(S, size)
         /\ Cardinality(First(S, size)) < size => First(S, size) = S
<1> DEFINE P == First(S, size)
<1>1. \A n \in S : n \in P <=> Cardinality(Below(S, n)) < size
  BY DEF First, Below
<1>2. P \in SUBSET S
  BY DEF First
<1>3. IsFiniteSet(P) /\ Cardinality(P) \in Nat
  BY <1>2, FS_Subset, FS_CardinalityType
<1>4. \A x \in S : Cardinality(Below(S, x)) \in Int
  BY Ranks
<1> HIDE DEF P
<1>5. ASSUME NEW n \in P, NEW m \in S, m < n
      PROVE  m \in P
  <2>1. n \in S
    BY <1>2
  <2>2. Cardinality(Below(S, m)) < Cardinality(Below(S, n))
    BY <1>5, <2>1, Ranks
  <2> QED
    BY <1>1, <1>4, <1>5, <2>1, <2>2
<1>6. ASSUME Cardinality(P) < size
      PROVE  P = S
  <2> SUFFICES ASSUME S \ P # {}
               PROVE  FALSE
    BY <1>2
  <2>1. S \ P \in SUBSET Int /\ IsFiniteSet(S \ P)
    BY FS_Difference
  <2>2. PICK x \in S \ P : \A m \in S \ P : x <= m
    BY <2>1, Extremes
  <2>3. ASSUME NEW z \in Below(S, x)
        PROVE  z \in P
    <3>1. z \in S /\ z < x /\ z \in Int /\ x \in Int
      BY <2>3 DEF Below
    <3> QED
      BY <2>2, <3>1
  <2>4. Cardinality(Below(S, x)) <= Cardinality(P)
    BY <1>3, <2>3, FS_Subset, Zenon
  <2>5. Cardinality(Below(S, x)) < size
    BY <1>3, <1>4, <1>6, <2>4
  <2> QED
    BY <1>1, <2>5
<1> QED
  BY <1>2, <1>3, <1>5, <1>6 DEF P

-----------------------------------------------------------------------------
(* Types.                                                                  *)

Flush == [chat : Chats \cup {NoChat}, page : Nat, stage : {"none", "check", "page", "send"},
          after : Nat, current : Nat, rows : SUBSET Nat, full : BOOLEAN]
Poll  == [stage : {"idle", "read", "apply"}, chats : SUBSET Chats, heads : [Chats -> Nat]]

DbTyped ==
  /\ head \in [Chats -> 0..MaxSeq] /\ low \in [Chats -> 0..MaxSeq]
  /\ ref \in [Chats -> Seq(Nat)]
  /\ active \in [Chats -> [Conns -> BOOLEAN]]
  /\ joined \in [Chats -> [Conns -> Nat]]

CoreTyped ==
  /\ owed \in [Chats -> Nat] /\ evict \in [Conns -> BOOLEAN]
  /\ subs \in [Chats -> SUBSET Conns]
  /\ known \in [Chats -> Nat \cup {Unknown}]
  /\ poll \in Poll

ConnTyped ==
  /\ st \in [Conns -> {"closed", "select", "flush"}]
  /\ done \in [Conns -> BOOLEAN]
  /\ cursor \in [Conns -> [Chats -> Nat \cup {NotSubscribed}]]
  /\ wake \in [Conns -> BOOLEAN]
  /\ pend \in [Conns -> SUBSET Chats] /\ todo \in [Conns -> SUBSET Chats]
  /\ fl \in [Conns -> Flush]

GhostTyped ==
  /\ start \in [Conns -> [Chats -> Nat]]
  /\ got \in [Conns -> [Chats -> SUBSET Nat]]
  /\ hidden \in [Conns -> [Chats -> Nat]]
  /\ audience \in [Chats -> Seq(SUBSET Conns)]

Typed == DbTyped /\ CoreTyped /\ ConnTyped /\ GhostTyped

LEMMA Numbers ==
  ASSUME DeliveryAssumption
  PROVE  /\ Old \in Nat /\ MaxSeq \in Nat /\ Old <= MaxSeq /\ NoChat \notin Chats
         /\ PageLimit \in Nat /\ PageLimit # 0 /\ MaxPages \in Nat
BY DEF DeliveryAssumption

LEMMA RecordTypes ==
  /\ IdleFlush \in Flush /\ IdleFlush.chat = NoChat /\ IdleFlush.stage = "none"
  /\ IdlePoll \in Poll /\ IdlePoll.stage = "idle" /\ IdlePoll.heads \in [Chats -> Nat]
  /\ \A ch \in Chats : /\ StartFlush(ch) \in Flush
                       /\ StartFlush(ch).chat = ch /\ StartFlush(ch).stage = "check"
<1>1. IdleFlush \in Flush /\ IdleFlush.chat = NoChat /\ IdleFlush.stage = "none"
  BY DEF IdleFlush, Flush
<1>2. IdlePoll \in Poll /\ IdlePoll.stage = "idle" /\ IdlePoll.heads \in [Chats -> Nat]
  BY DEF IdlePoll, Poll
<1>3. ASSUME NEW ch \in Chats
      PROVE  /\ StartFlush(ch) \in Flush
             /\ StartFlush(ch).chat = ch /\ StartFlush(ch).stage = "check"
  BY <1>1 DEF StartFlush, Flush
<1> QED
  BY <1>1, <1>2, <1>3

LEMMA TypeInit ==
  ASSUME Init, DeliveryAssumption PROVE Typed
<1>1. DbTyped
  <2>1. \A ch \in Chats : [n \in 1..Old |-> n] \in Seq(Nat)
    BY Numbers
  <2>2. \A n \in 1..(Old + 1) : n \in Nat
    BY Numbers
  <2> QED
    BY <2>1, <2>2, Numbers DEF Init, DbTyped
<1>2. CoreTyped
  BY RecordTypes DEF Init, CoreTyped, Unknown
<1>3. ConnTyped
  BY RecordTypes DEF Init, ConnTyped, NotSubscribed
<1>4. GhostTyped
  <2>1. ASSUME NEW ch \in Chats
        PROVE  [n \in 1..Old |-> {k \in Conns : joined[ch][k] <= n}] \in Seq(SUBSET Conns)
    BY Numbers
  <2>2. audience \in [Chats -> Seq(SUBSET Conns)]
    BY <2>1 DEF Init
  <2> QED
    BY <2>2 DEF Init, GhostTyped
<1> QED
  BY <1>1, <1>2, <1>3, <1>4 DEF Typed

-----------------------------------------------------------------------------
(* Steps keep the types.                                                   *)

LEMMA AppendTypes ==
  ASSUME Typed, DeliveryAssumption, NEW ch \in Chats, NEW r \in Nat, NEW w \in BOOLEAN,
         AppendEvent(ch, r, w)
  PROVE  Typed'
<1>1. head' \in [Chats -> 0..MaxSeq] /\ ref' \in [Chats -> Seq(Nat)]
  <2>1. Append(ref[ch], r) \in Seq(Nat)
    BY DEF Typed, DbTyped
  <2>2. head[ch] + 1 \in 0..MaxSeq
    BY Numbers DEF AppendEvent, Typed, DbTyped
  <2> QED
    BY <2>1, <2>2 DEF AppendEvent, Typed, DbTyped
<1>2. owed' \in [Chats -> Nat]
  BY DEF AppendEvent, Typed, CoreTyped
<1>3. UNCHANGED <<low, active, joined, evict, subs, known, poll, connVars, sent>>
  BY DEF AppendEvent
<1>4. audience' \in [Chats -> Seq(SUBSET Conns)]
  <2>1. Append(audience[ch], {k \in Conns : active[ch][k]}) \in Seq(SUBSET Conns)
    BY DEF Typed, GhostTyped
  <2> QED
    BY <2>1 DEF AppendEvent, Typed, GhostTyped
<1> QED
  BY <1>1, <1>2, <1>3, <1>4
  DEF connVars, sent, Typed, DbTyped, CoreTyped, ConnTyped, GhostTyped

LEMMA NotifyTypes ==
  ASSUME ConnTyped, NEW S \in SUBSET Conns, NEW ch \in Chats, NotifyAll(S, ch)
  PROVE  pend' \in [Conns -> SUBSET Chats] /\ wake' \in [Conns -> BOOLEAN]
<1>1. pend' \in [Conns -> SUBSET Chats]
  BY DEF NotifyAll, ConnTyped
<1>2. wake' \in [Conns -> BOOLEAN]
  BY Zenon DEF NotifyAll
<1> QED
  BY <1>1, <1>2

LEMMA WakeTypes ==
  ASSUME Typed, NEW ch \in Chats, Wake(ch)
  PROVE  Typed'
<1>1. owed' \in [Chats -> Nat]
  BY DEF Wake, Typed, CoreTyped
<1>2. pend' \in [Conns -> SUBSET Chats] /\ wake' \in [Conns -> BOOLEAN]
  BY NotifyTypes DEF Wake, Typed, CoreTyped
<1>3. UNCHANGED <<dbVars, evict, subs, known, poll, st, done, cursor, todo, fl, ghost>>
  BY DEF Wake
<1> QED
  BY <1>1, <1>2, <1>3 DEF dbVars, ghost, Typed, DbTyped, CoreTyped, ConnTyped, GhostTyped

LEMMA CleanupTypes ==
  ASSUME Typed, DeliveryAssumption, NEW ch \in Chats, CleanupRetention(ch)
  PROVE  Typed'
<1>1. PICK n \in (low[ch] + 1)..head[ch] : low' = [low EXCEPT ![ch] = n]
  BY DEF CleanupRetention
<1>2. n \in 0..MaxSeq
  BY <1>1, Numbers DEF Typed, DbTyped
<1>3. low' \in [Chats -> 0..MaxSeq]
  BY <1>1, <1>2 DEF Typed, DbTyped
<1> QED
  BY <1>3 DEF CleanupRetention, coreVars, connVars, ghost, Typed, DbTyped, CoreTyped, ConnTyped,
              GhostTyped

\* The join position of a member is a number, and of the others unchanged.
LEMMA JoinedType ==
  ASSUME Typed, DeliveryAssumption, NEW ch \in Chats, NEW k \in Conns, NEW a \in BOOLEAN,
         NEW h \in BOOLEAN
  PROVE  JoinedAfter(ch, k, a, h) \in Nat
<1>1. head[ch] \in Nat /\ joined[ch][k] \in Nat
  BY Numbers DEF Typed, DbTyped
<1> QED
  BY <1>1 DEF JoinedAfter

LEMMA MemberTypes ==
  ASSUME Typed, DeliveryAssumption, NEW ch \in Chats, NEW k \in Conns, NEW a \in BOOLEAN,
         NEW h \in BOOLEAN, PutMember(ch, k, a, h)
  PROVE  Typed'
<1>1. head[ch] + 1 \in 0..MaxSeq /\ head[ch] \in Nat
  BY Numbers DEF PutMember, Typed, DbTyped
<1>2. head' \in [Chats -> 0..MaxSeq]
  BY <1>1 DEF PutMember, Typed, DbTyped
<1>3. ref' \in [Chats -> Seq(Nat)]
  <2>1. Append(ref[ch], 0) \in Seq(Nat)
    BY DEF Typed, DbTyped
  <2> QED
    BY <2>1 DEF PutMember, Typed, DbTyped
<1>4. active' \in [Chats -> [Conns -> BOOLEAN]]
  BY DEF PutMember, Typed, DbTyped
<1>5. joined' \in [Chats -> [Conns -> Nat]]
  BY JoinedType DEF PutMember, Typed, DbTyped
<1>6. owed' \in [Chats -> Nat]
  BY DEF PutMember, Typed, CoreTyped
<1>7. evict' \in [Conns -> BOOLEAN]
  BY Zenon DEF PutMember, Typed, CoreTyped
<1>8. UNCHANGED <<low, subs, known, poll, connVars, sent>>
  BY DEF PutMember
<1>9. audience' \in [Chats -> Seq(SUBSET Conns)]
  <2> DEFINE granted == IF h /\ a THEN {k} ELSE {}
             older == [n \in DOMAIN audience[ch] |-> audience[ch][n] \cup granted]
             now == {c \in Conns : active'[ch][c]}
  <2>1. audience[ch] \in Seq(SUBSET Conns)
    BY DEF Typed, GhostTyped
  <2>2. granted \in SUBSET Conns /\ now \in SUBSET Conns
    OBVIOUS
  <2>3. older \in Seq(SUBSET Conns)
    BY <2>1, <2>2
  <2>4. Append(older, now) \in Seq(SUBSET Conns)
    BY <2>2, <2>3
  <2>5. audience' = [audience EXCEPT ![ch] = Append(older, now)]
    BY DEF PutMember, Typed, GhostTyped
  <2> QED
    BY <2>4, <2>5 DEF Typed, GhostTyped
<1> QED
  BY <1>2, <1>3, <1>4, <1>5, <1>6, <1>7, <1>8, <1>9
  DEF connVars, sent, Typed, DbTyped, CoreTyped, ConnTyped, GhostTyped

LEMMA EvictTypes ==
  ASSUME Typed, NEW k \in Conns, DisconnectUser(k)
  PROVE  Typed'
<1>1. evict' \in [Conns -> BOOLEAN]
  BY DEF DisconnectUser, Typed, CoreTyped
<1>2. done' \in [Conns -> BOOLEAN]
  BY Zenon DEF DisconnectUser, Typed, ConnTyped
<1>3. UNCHANGED <<dbVars, owed, subs, known, poll, st, cursor, wake, pend, todo, fl, ghost>>
  BY DEF DisconnectUser
<1> QED
  BY <1>1, <1>2, <1>3 DEF dbVars, ghost, Typed, DbTyped, CoreTyped, ConnTyped, GhostTyped

LEMMA PollTypes ==
  ASSUME Typed, PollStart \/ PollApply \/ \E f \in BOOLEAN : PollRead(f)
  PROVE  Typed'
<1>1. CASE PollStart
  <2> DEFINE chats == {ch \in Chats : subs[ch] # {}}
             read == [stage |-> "read", chats |-> chats, heads |-> IdlePoll.heads]
  <2>1. read \in Poll
    BY RecordTypes DEF Poll
  <2>2. poll' = IF chats = {} THEN IdlePoll ELSE read
    BY <1>1 DEF PollStart
  <2>3. poll' \in Poll
    BY <2>1, <2>2, RecordTypes
  <2>4. known' \in [Chats -> Nat \cup {Unknown}]
    BY <1>1 DEF PollStart, Typed, CoreTyped
  <2>5. UNCHANGED <<dbVars, owed, evict, subs, connVars, ghost>>
    BY <1>1 DEF PollStart
  <2> QED
    BY <2>3, <2>4, <2>5
    DEF dbVars, connVars, ghost, Typed, DbTyped, CoreTyped, ConnTyped, GhostTyped
<1>2. ASSUME NEW f \in BOOLEAN, PollRead(f)
      PROVE  Typed'
  <2>1. head \in [Chats -> Nat]
    BY DEF Typed, DbTyped
  <2>2. [poll EXCEPT !.stage = "apply", !.heads = head] \in Poll
    BY <2>1 DEF Poll, Typed, CoreTyped
  <2>3. poll' \in Poll
    BY <1>2, <2>2, RecordTypes DEF PollRead
  <2>4. UNCHANGED <<dbVars, owed, evict, subs, known, connVars, ghost>>
    BY <1>2 DEF PollRead
  <2> QED
    BY <2>3, <2>4
    DEF dbVars, connVars, ghost, Typed, DbTyped, CoreTyped, ConnTyped, GhostTyped
<1>3. CASE PollApply
  <2>1. poll.heads \in [Chats -> Nat] /\ poll.chats \subseteq Chats
    BY DEF Typed, CoreTyped, Poll
  <2>2. pend' \in [Conns -> SUBSET Chats]
    BY <1>3, <2>1 DEF PollApply, Typed, ConnTyped
  <2>3. wake' \in [Conns -> BOOLEAN]
    BY <1>3, Zenon DEF PollApply
  <2>4. known' \in [Chats -> Nat \cup {Unknown}]
    BY <1>3, <2>1 DEF PollApply, Typed, CoreTyped
  <2>5. poll' \in Poll
    BY <1>3, RecordTypes DEF PollApply
  <2>6. UNCHANGED <<dbVars, owed, evict, subs, st, done, cursor, todo, fl, ghost>>
    BY <1>3 DEF PollApply
  <2> QED
    BY <2>2, <2>3, <2>4, <2>5, <2>6
    DEF dbVars, ghost, Typed, DbTyped, CoreTyped, ConnTyped, GhostTyped
<1> QED
  BY <1>1, <1>2, <1>3

\* The end of a connection, and of a subscription.
LEMMA ClosedTypes ==
  ASSUME Typed, NEW k \in Conns, Closed(k), UNCHANGED <<dbVars, owed, evict, known, poll>>
  PROVE  Typed'
<1>1. subs' \in [Chats -> SUBSET Conns]
  BY DEF Closed, Unregister, Typed, CoreTyped
<1>2. cursor' \in [Conns -> [Chats -> Nat \cup {NotSubscribed}]]
  BY DEF Closed, Typed, ConnTyped
<1>3. fl' \in [Conns -> Flush]
  BY RecordTypes DEF Closed, Typed, ConnTyped
<1>4. /\ st' \in [Conns -> {"closed", "select", "flush"}]
      /\ pend' \in [Conns -> SUBSET Chats] /\ todo' \in [Conns -> SUBSET Chats]
  BY DEF Closed, Typed, ConnTyped
<1>5. done' \in [Conns -> BOOLEAN] /\ wake' \in [Conns -> BOOLEAN]
  BY DEF Closed, Typed, ConnTyped
<1>6. GhostTyped'
  BY DEF Closed, Typed, GhostTyped
<1> QED
  BY <1>1, <1>2, <1>3, <1>4, <1>5, <1>6 DEF dbVars, Typed, DbTyped, CoreTyped, ConnTyped

LEMMA DropTypes ==
  ASSUME Typed, NEW k \in Conns, NEW ch \in Chats, Drop(k, ch)
  PROVE  /\ subs' \in [Chats -> SUBSET Conns] /\ pend' \in [Conns -> SUBSET Chats]
         /\ cursor' \in [Conns -> [Chats -> Nat \cup {NotSubscribed}]]
         /\ GhostTyped'
<1>1. subs' \in [Chats -> SUBSET Conns] /\ pend' \in [Conns -> SUBSET Chats]
  BY DEF Drop, Typed, CoreTyped, ConnTyped
<1>2. cursor' \in [Conns -> [Chats -> Nat \cup {NotSubscribed}]]
  BY DEF Drop, Typed, ConnTyped
<1>3. GhostTyped'
  BY DEF Drop, Typed, GhostTyped
<1> QED
  BY <1>1, <1>2, <1>3

LEMMA EndFlushTypes ==
  ASSUME Typed, NEW k \in Conns, EndFlush(k)
  PROVE  /\ st' \in [Conns -> {"closed", "select", "flush"}]
         /\ fl' \in [Conns -> Flush] /\ todo' \in [Conns -> SUBSET Chats]
<1>1. CASE todo[k] = {}
  BY <1>1, RecordTypes DEF EndFlush, Typed, ConnTyped
<1>2. CASE todo[k] # {}
  <2>1. PICK ch \in todo[k] : /\ fl' = [fl EXCEPT ![k] = StartFlush(ch)]
                              /\ todo' = [todo EXCEPT ![k] = @ \ {ch}]
                              /\ UNCHANGED st
    BY <1>2 DEF EndFlush
  <2>2. StartFlush(ch) \in Flush
    BY RecordTypes DEF Typed, ConnTyped
  <2> QED
    BY <2>1, <2>2 DEF Typed, ConnTyped
<1> QED
  BY <1>1, <1>2

LEMMA SyncErrorTypes ==
  ASSUME Typed, NEW k \in Conns, NEW ch \in Chats, SyncError(k, ch)
  PROVE  Typed'
<1>1. Drop(k, ch) /\ EndFlush(k) /\ UNCHANGED <<dbVars, owed, evict, known, poll, done, wake>>
  BY DEF SyncError
<1> QED
  BY <1>1, DropTypes, EndFlushTypes DEF dbVars, Typed, DbTyped, CoreTyped, ConnTyped

LEMMA OpenTypes ==
  ASSUME Typed, NEW k \in Conns, Connect(k) \/ TakePending(k)
  PROVE  Typed'
<1>1. CASE Connect(k)
  <2>1. st' \in [Conns -> {"closed", "select", "flush"}]
    BY <1>1 DEF Connect, Typed, ConnTyped
  <2>2. UNCHANGED <<dbVars, coreVars, done, cursor, wake, pend, todo, fl, ghost>>
    BY <1>1 DEF Connect
  <2> QED
    BY <2>1, <2>2 DEF dbVars, coreVars, ghost, Typed, DbTyped, CoreTyped, ConnTyped, GhostTyped
<1>2. CASE TakePending(k)
  <2>1. wake' \in [Conns -> BOOLEAN] /\ pend' \in [Conns -> SUBSET Chats]
    BY <1>2 DEF TakePending, Typed, ConnTyped
  <2>2. /\ st' \in [Conns -> {"closed", "select", "flush"}]
        /\ fl' \in [Conns -> Flush] /\ todo' \in [Conns -> SUBSET Chats]
    <3>1. CASE UNCHANGED <<st, todo, fl>>
      BY <3>1 DEF Typed, ConnTyped
    <3>2. ASSUME NEW ch \in Flushable(k, pend[k]),
                 st' = [st EXCEPT ![k] = "flush"],
                 fl' = [fl EXCEPT ![k] = StartFlush(ch)],
                 todo' = [todo EXCEPT ![k] = Flushable(k, pend[k]) \ {ch}]
          PROVE  /\ st' \in [Conns -> {"closed", "select", "flush"}]
                 /\ fl' \in [Conns -> Flush] /\ todo' \in [Conns -> SUBSET Chats]
      <4>1. Flushable(k, pend[k]) \in SUBSET Chats
        BY DEF Flushable, Typed, ConnTyped
      <4>2. StartFlush(ch) \in Flush
        BY <4>1, RecordTypes
      <4> QED
        BY <3>2, <4>1, <4>2 DEF Typed, ConnTyped
    <3> QED
      BY <1>2, <3>1, <3>2 DEF TakePending
  <2>3. UNCHANGED <<dbVars, coreVars, done, cursor, ghost>>
    BY <1>2 DEF TakePending
  <2> QED
    BY <2>1, <2>2, <2>3 DEF dbVars, coreVars, ghost, Typed, DbTyped, CoreTyped, ConnTyped, GhostTyped
<1> QED
  BY <1>1, <1>2

LEMMA SubscribeTypes ==
  ASSUME Typed, NEW k \in Conns, NEW ch \in Chats, NEW a \in Nat, Subscribe(k, ch, a)
  PROVE  Typed'
<1>1. cursor' \in [Conns -> [Chats -> Nat \cup {NotSubscribed}]]
  BY DEF Subscribe, Typed, ConnTyped
<1>2. subs' \in [Chats -> SUBSET Conns]
  BY DEF Subscribe, Typed, CoreTyped
<1>3. st' \in [Conns -> {"closed", "select", "flush"}] /\ fl' \in [Conns -> Flush]
  BY RecordTypes DEF Subscribe, Typed, ConnTyped
<1>4. GhostTyped'
  BY DEF Subscribe, Typed, GhostTyped
<1>5. UNCHANGED <<dbVars, owed, evict, known, poll, done, wake, pend, todo>>
  BY DEF Subscribe
<1> QED
  BY <1>1, <1>2, <1>3, <1>4, <1>5 DEF dbVars, Typed, DbTyped, CoreTyped, ConnTyped

LEMMA UnsubscribeTypes ==
  ASSUME Typed, NEW k \in Conns, NEW ch \in Chats, Unsubscribe(k, ch)
  PROVE  Typed'
<1>1. Drop(k, ch) /\ UNCHANGED <<dbVars, owed, evict, known, poll, st, done, wake, todo, fl>>
  BY DEF Unsubscribe
<1> QED
  BY <1>1, DropTypes DEF dbVars, Typed, DbTyped, CoreTyped, ConnTyped

\* Where a connection's next page starts.
LEMMA FromType ==
  ASSUME Typed, NEW k \in Conns, NEW ch \in Chats
  PROVE  /\ From(k, ch) \in Int /\ From(k, ch) >= cursor[k][ch] /\ From(k, ch) >= joined[ch][k] - 1
         /\ From(k, ch) = cursor[k][ch] \/ From(k, ch) = joined[ch][k] - 1
         /\ From(k, ch) >= -1 /\ (cursor[k][ch] # NotSubscribed => From(k, ch) \in Nat)
<1>1. cursor[k][ch] \in Nat \cup {NotSubscribed} /\ joined[ch][k] \in Nat
  BY DEF Typed, DbTyped, ConnTyped
<1> QED
  BY <1>1 DEF From, Larger, NotSubscribed

LEMMA CheckTypes ==
  ASSUME Typed, DeliveryAssumption, NEW k \in Conns, fl[k].chat \in Chats,
         cursor[k][fl[k].chat] # NotSubscribed,
         EventsChecked(k) \/ EventsNone(k)
  PROVE  Typed'
<1>1. CASE EventsChecked(k)
  <2>1. From(k, fl[k].chat) \in Nat
    BY FromType
  <2>2. head[fl[k].chat] \in Nat
    BY Numbers DEF Typed, DbTyped
  <2>3. fl[k] \in Flush
    BY DEF Typed, ConnTyped
  <2>4. fl' = [fl EXCEPT ![k] = [fl[k] EXCEPT !.stage = "page", !.after = From(k, fl[k].chat),
                                              !.current = head[fl[k].chat]]]
    BY <1>1, <2>3 DEF EventsChecked, Typed, ConnTyped, Flush
  <2>5. fl' \in [Conns -> Flush]
    BY <2>1, <2>2, <2>3, <2>4 DEF Flush, Typed, ConnTyped
  <2>6. UNCHANGED <<dbVars, coreVars, st, done, cursor, wake, pend, todo, start, got, audience>>
    BY <1>1 DEF EventsChecked
  <2>7. hidden' \in [Conns -> [Chats -> Nat]]
    <3>1. Larger(hidden[k][fl[k].chat], joined[fl[k].chat][k]) \in Nat
      BY DEF Larger, Typed, DbTyped, GhostTyped
    <3> QED
      BY <1>1, <3>1 DEF EventsChecked, Typed, GhostTyped
  <2> QED
    BY <2>5, <2>6, <2>7 DEF dbVars, coreVars, Typed, DbTyped, CoreTyped, ConnTyped, GhostTyped
<1>2. CASE EventsNone(k)
  <2>1. EndFlush(k) /\ UNCHANGED <<dbVars, coreVars, done, cursor, wake, pend, ghost>>
    BY <1>2 DEF EventsNone
  <2> QED
    BY <2>1, EndFlushTypes
    DEF dbVars, coreVars, ghost, Typed, DbTyped, CoreTyped, ConnTyped, GhostTyped
<1> QED
  BY <1>1, <1>2

-----------------------------------------------------------------------------
(* A page.                                                                 *)

Fast(k) == fl[k].current - fl[k].after = 1 \/ PageLimit = 1
Top(k)  == IF Fast(k) THEN fl[k].current ELSE head[fl[k].chat]
RowsOf(k) == {n \in (low[fl[k].chat] + 1)..Top(k) : n > fl[k].after}

\* A page is without gaps from where it starts, and a short one leaves nothing of
\* what the connection had seen the head reach.
LEMMA PageFacts ==
  ASSUME Typed, DeliveryAssumption, NEW k \in Conns, fl[k].chat \in Chats
  PROVE  /\ PageOf(k) \in SUBSET Nat /\ PageOf(k) \in SUBSET RowsOf(k)
         /\ Cardinality(PageOf(k)) \in Nat
         /\ \A n \in PageOf(k), m \in RowsOf(k) : m < n => m \in PageOf(k)
         /\ (Cardinality(PageOf(k)) < PageLimit /\ ~Fast(k)) => PageOf(k) = RowsOf(k)
         /\ (Cardinality(PageOf(k)) < PageLimit /\ Fast(k) /\ fl[k].current \in RowsOf(k))
              => fl[k].current \in PageOf(k)
<1> DEFINE ch   == fl[k].chat
           size == IF Fast(k) THEN 1 ELSE PageLimit
<1>1. /\ fl[k] \in Flush /\ fl[k].after \in Nat /\ fl[k].current \in Nat
      /\ head[ch] \in Nat /\ low[ch] \in Nat /\ PageLimit \in Nat /\ size \in Nat
  BY Numbers DEF Typed, DbTyped, ConnTyped, Flush
<1>2. Top(k) \in Nat
  BY <1>1 DEF Top
<1>3. PageOf(k) = First(RowsOf(k), size)
  BY DEF PageOf, First, RowsOf, Top, Fast
<1>4. RowsOf(k) \in SUBSET ((low[ch] + 1)..Top(k))
  BY DEF RowsOf
<1>5. IsFiniteSet((low[ch] + 1)..Top(k))
  <2>1. low[ch] + 1 \in Int /\ Top(k) \in Int
    BY <1>1, <1>2
  <2> HIDE DEF ch
  <2> QED
    BY <2>1, FS_Interval
<1>6. IsFiniteSet(RowsOf(k)) /\ RowsOf(k) \in SUBSET Int /\ RowsOf(k) \in SUBSET Nat
  BY <1>1, <1>2, <1>4, <1>5, FS_Subset
<1> HIDE DEF size
<1> DEFINE R == RowsOf(k)
<1>r. R \in SUBSET Int /\ IsFiniteSet(R) /\ PageOf(k) = First(R, size) /\ R = RowsOf(k)
  BY <1>3, <1>6
<1> HIDE DEF R
<1>f. /\ First(R, size) \in SUBSET R /\ IsFiniteSet(First(R, size))
      /\ \A n \in First(R, size), m \in R : m < n => m \in First(R, size)
      /\ Cardinality(First(R, size)) < size => First(R, size) = R
  BY <1>1, <1>r, FirstFacts
<1>7. /\ PageOf(k) \in SUBSET RowsOf(k) /\ IsFiniteSet(PageOf(k))
      /\ \A n \in PageOf(k), m \in RowsOf(k) : m < n => m \in PageOf(k)
      /\ Cardinality(PageOf(k)) < size => PageOf(k) = RowsOf(k)
  BY <1>f, <1>r
<1>8. PageOf(k) \in SUBSET Int
  BY <1>6, <1>7
<1>9. Cardinality(PageOf(k)) \in Nat
  BY <1>7, FS_CardinalityType
<1>10. ASSUME Cardinality(PageOf(k)) < PageLimit, ~Fast(k)
       PROVE  PageOf(k) = RowsOf(k)
  BY <1>7, <1>10 DEF size
<1>11. ASSUME Cardinality(PageOf(k)) < PageLimit, Fast(k), fl[k].current \in RowsOf(k)
       PROVE  fl[k].current \in PageOf(k)
  <2>1. CASE PageLimit = 1
    <3>1. size = 1
      BY <1>11 DEF size
    <3> QED
      BY <1>7, <1>11, <2>1, <3>1
  <2>2. CASE fl[k].current - fl[k].after = 1
    <3>1. \A m \in RowsOf(k) : ~(m < fl[k].current)
      BY <1>1, <1>2, <2>2 DEF RowsOf
    <3>2. {m \in RowsOf(k) : m < fl[k].current} = {}
      BY <3>1
    <3>3. Cardinality({m \in RowsOf(k) : m < fl[k].current}) = 0
      BY <3>2, FS_EmptySet
    <3>4. size = 1
      BY <1>11 DEF size
    <3> QED
      BY <1>3, <1>11, <3>3, <3>4 DEF First
  <2> QED
    BY <1>11, <2>1, <2>2 DEF Fast
<1> QED
  BY <1>6, <1>7, <1>9, <1>10, <1>11

\* The record of a flush that holds a page.
LEMMA SendFlush ==
  ASSUME NEW c \in Chats, NEW pg \in Nat, NEW P \in SUBSET Nat, NEW full \in BOOLEAN
  PROVE  [IdleFlush EXCEPT !.chat = c, !.page = pg, !.stage = "send", !.rows = P, !.full = full]
           \in Flush
BY RecordTypes DEF Flush

\* The read of a page, the write of one of its events, and the end of a page.
LEMMA PageReadTypes ==
  ASSUME Typed, DeliveryAssumption, NEW k \in Conns, fl[k].chat \in Chats, PageRead(k)
  PROVE  Typed'
<1> DEFINE P    == PageOf(k)
           full == (Cardinality(P) >= PageLimit)
           next == [IdleFlush EXCEPT !.chat = fl[k].chat, !.page = fl[k].page, !.stage = "send",
                                     !.rows = P, !.full = full]
<1>1. P \in SUBSET Nat /\ fl[k].page \in Nat
  BY PageFacts DEF Typed, ConnTyped, Flush
<1>0. full \in BOOLEAN
  OBVIOUS
<1>2. next \in Flush
  <2> HIDE DEF P, full
  <2> QED
    BY <1>0, <1>1, SendFlush
<1>3. fl' = [fl EXCEPT ![k] = next] /\ UNCHANGED <<dbVars, coreVars, st, done, cursor, wake, pend,
                                                  todo, ghost>>
  BY DEF PageRead
<1> HIDE DEF next
<1>4. fl' \in [Conns -> Flush]
  BY <1>2, <1>3 DEF Typed, ConnTyped
<1> QED
  BY <1>3, <1>4 DEF dbVars, coreVars, ghost, Typed, DbTyped, CoreTyped, ConnTyped, GhostTyped

\* The event that is written, and what it does to the flush.
LEMMA Written ==
  ASSUME Typed, NEW k \in Conns, NEW c \in Chats, c = fl[k].chat, WriteEvent(k)
  PROVE  \E n \in fl[k].rows :
           /\ n \in Nat /\ \A m \in fl[k].rows : n <= m
           /\ fl'[k].rows = fl[k].rows \ {n}
           /\ fl'[k].chat = c /\ fl'[k].stage = "send" /\ fl'[k].full = fl[k].full
           /\ cursor' = [cursor EXCEPT ![k][c] = n]
           /\ got' = [got EXCEPT ![k][c] = @ \cup {n}]
           /\ fl' \in [Conns -> Flush] /\ \A j \in Conns : j # k => fl'[j] = fl[j]
<1>1. PICK n \in fl[k].rows : /\ \A m \in fl[k].rows : n <= m
                              /\ fl' = [fl EXCEPT ![k].rows = @ \ {n}]
                              /\ cursor' = [cursor EXCEPT ![k][c] = n]
                              /\ got' = [got EXCEPT ![k][c] = @ \cup {n}]
  BY DEF WriteEvent
<1>2. fl \in [Conns -> Flush] /\ fl[k] \in Flush
  BY DEF Typed, ConnTyped
<1>3. n \in Nat /\ fl[k].rows \ {n} \in SUBSET Nat
  BY <1>2 DEF Flush
<1>4. fl' = [fl EXCEPT ![k] = [fl[k] EXCEPT !.rows = fl[k].rows \ {n}]]
  BY <1>1, <1>2 DEF Flush
<1>5. [fl[k] EXCEPT !.rows = fl[k].rows \ {n}] \in Flush
  BY <1>2, <1>3 DEF Flush
<1>6. fl' \in [Conns -> Flush] /\ \A j \in Conns : j # k => fl'[j] = fl[j]
  BY <1>2, <1>4, <1>5
<1>7. fl'[k] = [fl[k] EXCEPT !.rows = fl[k].rows \ {n}]
  BY <1>2, <1>4
<1>8. fl'[k].rows = fl[k].rows \ {n} /\ fl'[k].chat = c /\ fl'[k].full = fl[k].full
  BY <1>2, <1>7 DEF Flush
<1>9. fl'[k].stage = "send"
  BY <1>2, <1>7 DEF Flush, WriteEvent
<1> QED
  BY <1>1, <1>3, <1>6, <1>8, <1>9

LEMMA WriteTypes ==
  ASSUME Typed, NEW k \in Conns, fl[k].chat \in Chats, WriteEvent(k)
  PROVE  Typed'
<1>1. PICK c \in Chats : c = fl[k].chat
  OBVIOUS
<1>2. PICK n \in fl[k].rows : /\ n \in Nat
                              /\ cursor' = [cursor EXCEPT ![k][c] = n]
                              /\ got' = [got EXCEPT ![k][c] = @ \cup {n}]
                              /\ fl' \in [Conns -> Flush]
  BY <1>1, Written
<1>3. cursor' \in [Conns -> [Chats -> Nat \cup {NotSubscribed}]]
  BY <1>2 DEF Typed, ConnTyped
<1>4. got' \in [Conns -> [Chats -> SUBSET Nat]]
  BY <1>2 DEF Typed, GhostTyped
<1>5. UNCHANGED <<dbVars, coreVars, st, done, wake, pend, todo, start, hidden, audience>>
  BY DEF WriteEvent
<1> QED
  BY <1>2, <1>3, <1>4, <1>5
  DEF dbVars, coreVars, Typed, DbTyped, CoreTyped, ConnTyped, GhostTyped

LEMMA PageDoneTypes ==
  ASSUME Typed, DeliveryAssumption, NEW k \in Conns, fl[k].chat \in Chats, PageDone(k)
  PROVE  Typed'
<1>1. UNCHANGED <<dbVars, coreVars, done, cursor, ghost>>
  BY DEF PageDone
<1>2. /\ st' \in [Conns -> {"closed", "select", "flush"}] /\ fl' \in [Conns -> Flush]
      /\ todo' \in [Conns -> SUBSET Chats]
      /\ wake' \in [Conns -> BOOLEAN] /\ pend' \in [Conns -> SUBSET Chats]
  <2>1. CASE EndFlush(k) /\ UNCHANGED <<wake, pend>>
    BY <2>1, EndFlushTypes DEF Typed, ConnTyped
  <2>2. CASE /\ fl' = [fl EXCEPT ![k] = [StartFlush(fl[k].chat) EXCEPT !.page = fl[k].page + 1]]
             /\ UNCHANGED <<st, todo, wake, pend>>
    <3>1. fl[k].page + 1 \in Nat
      BY DEF Typed, ConnTyped, Flush
    <3>2. [StartFlush(fl[k].chat) EXCEPT !.page = fl[k].page + 1] \in Flush
      BY <3>1, RecordTypes DEF Flush
    <3> QED
      BY <2>2, <3>2 DEF Typed, ConnTyped
  <2>3. CASE NotifyAll({k}, fl[k].chat) /\ EndFlush(k)
    <3>1. {k} \in SUBSET Conns /\ ConnTyped
      BY DEF Typed
    <3> QED
      BY <2>3, <3>1, EndFlushTypes, NotifyTypes
  <2> QED
    BY <2>1, <2>2, <2>3 DEF PageDone
<1> QED
  BY <1>1, <1>2 DEF dbVars, coreVars, ghost, Typed, DbTyped, CoreTyped, ConnTyped, GhostTyped

-----------------------------------------------------------------------------
(* The inductive invariant.                                                *)

\* Nothing is known or promised beyond the head of a chat.
Bounds ==
  \A ch \in Chats :
    /\ known[ch] <= head[ch]
    /\ poll.stage = "apply" => poll.heads[ch] <= head[ch]

\* Something will make the connection look at the chat again.
Told(k, ch) == (ch \in pend[k] /\ wake[k]) \/ owed[ch] > 0 \/ known[ch] # head[ch]

Registered(k) == \A ch \in Chats : Subscribed(k, ch) => k \in subs[ch]

\* A turn goes through chats that are subscribed, each of them once.
Flushing(k) ==
  /\ st[k] = "flush" =>
       /\ fl[k].chat \in Chats /\ fl[k].stage \in {"check", "page", "send"}
       /\ fl[k].chat \notin todo[k]
       /\ \A ch \in todo[k] \cup {fl[k].chat} : Subscribed(k, ch)
  /\ st[k] # "flush" => fl[k].chat = NoChat /\ todo[k] = {}

\* Between the two reads of a flush: the page starts at the cursor or where the member's
\* history does, and a head that moved meanwhile is told of.
Paging(k) ==
  LET ch == fl[k].chat IN
  (st[k] = "flush" /\ fl[k].stage = "page") =>
    /\ cursor[k][ch] <= fl[k].after /\ fl[k].after < fl[k].current
    /\ fl[k].after = cursor[k][ch] \/ fl[k].after < hidden[k][ch]
    /\ fl[k].current = head[ch] \/ Told(k, ch)

\* While a page is written: what is left of it follows the cursor without a gap, and after
\* a short page a head that is not in it is told of.
Sending(k) ==
  LET ch == fl[k].chat IN
  (st[k] = "flush" /\ fl[k].stage = "send") =>
    /\ \A n \in fl[k].rows :
         /\ cursor[k][ch] < n
         /\ \A m \in Nat : m < n => \/ m \in fl[k].rows \/ m <= cursor[k][ch]
                                    \/ m <= low[ch] \/ m < hidden[k][ch]
    /\ ~fl[k].full => \/ head[ch] \in fl[k].rows \/ head[ch] <= cursor[k][ch]
                      \/ head[ch] <= low[ch] \/ Told(k, ch)

Woken(k) ==
  \A ch \in Chats : (Behind(k, ch) /\ fl[k].chat # ch /\ ch \notin todo[k]) => Told(k, ch)

GaplessAt(k, ch) ==
  \A n \in (start[k][ch] + 1)..cursor[k][ch] :
    n \in got[k][ch] \/ n <= low[ch] \/ n < hidden[k][ch]

Gapless(k) == \A ch \in Chats : Subscribed(k, ch) => GaplessAt(k, ch)

ConnInv(k) ==
  Registered(k) /\ Flushing(k) /\ Paging(k) /\ Sending(k) /\ Woken(k) /\ Gapless(k)

DeliveryInv == Bounds /\ \A k \in Conns : ConnInv(k)

\* The numbers of a chat, and of a connection.
LEMMA ChatNumbers ==
  ASSUME Typed, DeliveryAssumption, NEW ch \in Chats
  PROVE  /\ head[ch] \in Nat /\ low[ch] \in Nat /\ known[ch] \in Int /\ owed[ch] \in Nat
         /\ poll.heads[ch] \in Nat
<1>1. head[ch] \in 0..MaxSeq /\ low[ch] \in 0..MaxSeq /\ MaxSeq \in Nat
  BY Numbers DEF Typed, DbTyped
<1>2. known[ch] \in Nat \cup {-1} /\ owed[ch] \in Nat
  BY DEF Typed, CoreTyped, Unknown
<1>3. poll.heads[ch] \in Nat
  BY DEF Typed, CoreTyped, Poll
<1> QED
  BY <1>1, <1>2, <1>3

LEMMA ConnNumbers ==
  ASSUME Typed, DeliveryAssumption, NEW k \in Conns, NEW ch \in Chats
  PROVE  /\ joined[ch][k] \in Nat
         /\ cursor[k][ch] \in Int /\ cursor[k][ch] >= -1 /\ start[k][ch] \in Nat
         /\ hidden[k][ch] \in Nat /\ fl[k].rows \in SUBSET Nat
         /\ Subscribed(k, ch) => cursor[k][ch] \in Nat
         /\ fl[k] \in Flush /\ fl[k].after \in Nat /\ fl[k].current \in Nat
         /\ pend[k] \subseteq Chats /\ todo[k] \subseteq Chats
<1>1. joined[ch][k] \in Nat /\ start[k][ch] \in Nat /\ hidden[k][ch] \in Nat
  BY DEF Typed, DbTyped, GhostTyped
<1>2. cursor[k][ch] \in Nat \cup {-1}
  BY DEF Typed, ConnTyped, NotSubscribed
<1>3. fl[k] \in Flush /\ pend[k] \subseteq Chats /\ todo[k] \subseteq Chats
  BY DEF Typed, ConnTyped
<1>4. fl[k].after \in Nat /\ fl[k].current \in Nat /\ fl[k].rows \in SUBSET Nat
  BY <1>3 DEF Flush
<1> QED
  BY <1>1, <1>2, <1>3, <1>4 DEF Subscribed, NotSubscribed

LEMMA InvInit == ASSUME Init, DeliveryAssumption PROVE DeliveryInv
<1>1. Bounds
  <2>1. \A ch \in Chats : known[ch] = -1 /\ head[ch] = Old
    BY DEF Init, Unknown
  <2>3. poll.stage # "apply"
    BY RecordTypes DEF Init
  <2> QED
    BY <2>1, <2>3, Numbers DEF Bounds
<1>2. ASSUME NEW k \in Conns
      PROVE  ConnInv(k)
  <2>1. \A ch \in Chats : ~Subscribed(k, ch)
    BY DEF Init, Subscribed
  <2>2. st[k] = "closed" /\ fl[k].chat = NoChat /\ todo[k] = {}
    BY RecordTypes DEF Init
  <2> QED
    BY <2>1, <2>2 DEF ConnInv, Registered, Flushing, Paging, Sending, Woken, Behind, Gapless
<1> QED
  BY <1>1, <1>2 DEF DeliveryInv

\* A connection keeps its part of the invariant while the journal, the registry and the
\* notifications go on: what moves a head tells it so.
LEMMA Elsewhere ==
  ASSUME Typed, Typed', DeliveryAssumption, DeliveryInv, NEW k \in Conns,
         st'[k] = st[k], cursor'[k] = cursor[k], todo'[k] = todo[k], fl'[k] = fl[k],
         start'[k] = start[k], got'[k] = got[k], hidden'[k] = hidden[k],
         \A ch \in Chats : (k \in subs[ch] => k \in subs'[ch]) /\ low[ch] <= low'[ch],
         \A ch \in Chats : Subscribed(k, ch) =>
           \/ Told(k, ch)'
           \/ /\ head'[ch] = head[ch] /\ active'[ch][k] = active[ch][k]
              /\ joined'[ch][k] = joined[ch][k]
              /\ Told(k, ch) => Told(k, ch)'
  PROVE  ConnInv(k)'
<1>0. ConnInv(k)
  BY DEF DeliveryInv
<1>1. \A ch \in Chats : Subscribed(k, ch)' <=> Subscribed(k, ch)
  BY DEF Subscribed
<1>2. Registered(k)'
  BY <1>0, <1>1 DEF ConnInv, Registered
<1>3. Flushing(k)'
  BY <1>0, <1>1, ConnNumbers DEF ConnInv, Flushing
<1>4. Paging(k)'
  <2> SUFFICES ASSUME st[k] = "flush", fl[k].stage = "page"
               PROVE  Paging(k)'
    BY DEF Paging
  <2>1. fl[k].chat \in Chats /\ Subscribed(k, fl[k].chat)
    BY <1>0 DEF ConnInv, Flushing
  <2>2. PICK c \in Chats : c = fl[k].chat
    BY <2>1
  <2>3. fl[k].current = head'[c] \/ Told(k, c)'
    BY <1>0, <2>1, <2>2 DEF ConnInv, Paging
  <2>4. /\ cursor[k][c] <= fl[k].after /\ fl[k].after < fl[k].current
        /\ fl[k].after = cursor[k][c] \/ fl[k].after < hidden[k][c]
    BY <1>0, <2>2 DEF ConnInv, Paging
  <2>5. fl'[k] = fl[k] /\ fl'[k].chat = c
    BY <2>2
  <2> QED
    BY <2>3, <2>4, <2>5 DEF Paging
<1>s. Sending(k)'
  <2> SUFFICES ASSUME st[k] = "flush", fl[k].stage = "send"
               PROVE  Sending(k)'
    BY DEF Sending
  <2>1. fl[k].chat \in Chats /\ Subscribed(k, fl[k].chat)
    BY <1>0 DEF ConnInv, Flushing
  <2>2. PICK c \in Chats : c = fl[k].chat
    BY <2>1
  <2>3. low[c] \in Nat /\ low'[c] \in Nat /\ low[c] <= low'[c] /\ head[c] \in Nat
    <3>1. low'[c] \in Nat
      BY Numbers DEF Typed, DbTyped
    <3> QED
      BY <3>1, ChatNumbers
  <2>4. ASSUME NEW n \in fl[k].rows, NEW m \in Nat, m < n
        PROVE  m \in fl[k].rows \/ m <= cursor[k][c] \/ m <= low'[c] \/ m < hidden[k][c]
    <3>1. m \in fl[k].rows \/ m <= cursor[k][c] \/ m <= low[c] \/ m < hidden[k][c]
      BY <1>0, <2>2, <2>4 DEF ConnInv, Sending
    <3> QED
      BY <2>3, <3>1
  <2>5. \A n \in fl[k].rows : cursor[k][c] < n
    BY <1>0, <2>2 DEF ConnInv, Sending
  <2>6. ASSUME ~fl[k].full
        PROVE  \/ head'[c] \in fl[k].rows \/ head'[c] <= cursor[k][c]
               \/ head'[c] <= low'[c] \/ Told(k, c)'
    <3>1. \/ head[c] \in fl[k].rows \/ head[c] <= cursor[k][c]
          \/ head[c] <= low[c] \/ Told(k, c)
      BY <1>0, <2>2, <2>6 DEF ConnInv, Sending
    <3>2. Told(k, c)' \/ (head'[c] = head[c] /\ (Told(k, c) => Told(k, c)'))
      BY <2>1, <2>2
    <3> QED
      BY <2>3, <3>1, <3>2
  <2>7. fl'[k] = fl[k] /\ fl'[k].chat = c
    BY <2>2
  <2> QED
    BY <2>2, <2>4, <2>5, <2>6, <2>7, Zenon DEF Sending
<1>5. Woken(k)'
  <2> SUFFICES ASSUME NEW ch \in Chats, Behind(k, ch)', fl[k].chat # ch, ch \notin todo[k],
                      ~Told(k, ch)'
               PROVE  FALSE
    BY DEF Woken
  <2>1. Subscribed(k, ch)
    BY <1>1 DEF Behind
  <2>2. /\ head'[ch] = head[ch] /\ active'[ch][k] = active[ch][k] /\ joined'[ch][k] = joined[ch][k]
        /\ ~Told(k, ch)
    BY <2>1
  <2>3. /\ head[ch] \in Nat /\ low[ch] \in Nat /\ low'[ch] \in Nat /\ low[ch] <= low'[ch]
        /\ From(k, ch) \in Int /\ From(k, ch)' = From(k, ch)
    <3>1. low'[ch] \in Nat
      BY Numbers DEF Typed, DbTyped
    <3> QED
      BY <2>2, <3>1, ChatNumbers, FromType DEF From
  <2>4. Behind(k, ch)
    BY <2>1, <2>2, <2>3 DEF Behind, Larger
  <2> QED
    BY <1>0, <2>2, <2>4 DEF ConnInv, Woken
<1>6. Gapless(k)'
  <2> SUFFICES ASSUME NEW ch \in Chats, Subscribed(k, ch),
                      NEW n \in (start[k][ch] + 1)..cursor[k][ch]
               PROVE  n \in got[k][ch] \/ n <= low'[ch] \/ n < hidden[k][ch]
    BY <1>1 DEF Gapless, GaplessAt
  <2>1. n \in got[k][ch] \/ n <= low[ch] \/ n < hidden[k][ch]
    BY <1>0 DEF ConnInv, Gapless, GaplessAt
  <2>2. low[ch] \in Nat /\ low'[ch] \in Nat
    <3>1. low'[ch] \in Nat
      BY Numbers DEF Typed, DbTyped
    <3> QED
      BY <3>1, ChatNumbers, ConnNumbers
  <2> QED
    BY <2>1, <2>2
<1> QED
  BY <1>2, <1>3, <1>4, <1>s, <1>5, <1>6 DEF ConnInv

-----------------------------------------------------------------------------
(* Steps of the writers and of the poll.                                   *)

LEMMA AppendStep ==
  ASSUME Typed, Typed', DeliveryAssumption, DeliveryInv,
         NEW ch \in Chats, NEW r \in Nat, NEW w \in BOOLEAN, AppendEvent(ch, r, w)
  PROVE  DeliveryInv'
<1>1. /\ head' = [head EXCEPT ![ch] = @ + 1]
      /\ \A c \in Chats : owed[c] > 0 => owed'[c] > 0
      /\ UNCHANGED <<low, active, joined, subs, known, poll, st, cursor, wake, pend, todo, fl,
                     start, got, hidden>>
  BY DEF AppendEvent, connVars, sent, Typed, CoreTyped
<1>2. head'[ch] = head[ch] + 1 /\ \A c \in Chats : c # ch => head'[c] = head[c]
  BY <1>1 DEF Typed, DbTyped
<1>3. \A c \in Chats : head[c] \in Nat /\ known[c] \in Int /\ poll.heads[c] \in Nat
  BY ChatNumbers
<1>5. Bounds'
  BY <1>1, <1>2, <1>3 DEF DeliveryInv, Bounds
<1>6. ASSUME NEW k \in Conns
      PROVE  ConnInv(k)'
  <2>1. Told(k, ch)'
    BY <1>1, <1>2, <1>3 DEF DeliveryInv, Bounds, Told
  <2>2. \A c \in Chats : c # ch => (Told(k, c) => Told(k, c)')
    BY <1>1, <1>2 DEF Told
  <2>3. \A c \in Chats : low[c] <= low'[c]
    BY <1>1, ChatNumbers
  <2> QED
    BY <1>1, <1>2, <2>1, <2>2, <2>3, Elsewhere
<1> QED
  BY <1>5, <1>6 DEF DeliveryInv

LEMMA MemberStep ==
  ASSUME Typed, Typed', DeliveryAssumption, DeliveryInv, NEW ch \in Chats, NEW u \in Conns,
         NEW a \in BOOLEAN, NEW h \in BOOLEAN, PutMember(ch, u, a, h)
  PROVE  DeliveryInv'
<1>1. /\ head' = [head EXCEPT ![ch] = @ + 1] /\ owed' = [owed EXCEPT ![ch] = @ + 1]
      /\ active' = [active EXCEPT ![ch][u] = a]
      /\ joined' = [joined EXCEPT ![ch][u] = JoinedAfter(ch, u, a, h)]
      /\ UNCHANGED <<low, subs, known, poll, st, cursor, wake, pend, todo, fl, start, got, hidden>>
  BY DEF PutMember, connVars, sent
<1>2. head'[ch] = head[ch] + 1 /\ \A c \in Chats : c # ch => head'[c] = head[c]
  BY <1>1 DEF Typed, DbTyped
<1>3. \A c \in Chats : /\ head[c] \in Nat /\ known[c] \in Int /\ poll.heads[c] \in Nat
                       /\ low[c] \in Nat /\ owed[c] \in Nat
  BY ChatNumbers
<1>4. \A c \in Chats, k \in Conns :
        c # ch => joined'[c][k] = joined[c][k] /\ active'[c][k] = active[c][k]
  BY <1>1 DEF Typed, DbTyped
<1>5. Bounds'
  BY <1>1, <1>2, <1>3 DEF DeliveryInv, Bounds
<1>6. ASSUME NEW k \in Conns
      PROVE  ConnInv(k)'
  <2>1. Told(k, ch)'
    BY <1>1, <1>2, <1>3 DEF DeliveryInv, Bounds, Told
  <2>2. \A c \in Chats : c # ch => owed'[c] = owed[c]
    BY <1>1 DEF Typed, CoreTyped
  <2>3. \A c \in Chats : c # ch => (Told(k, c) => Told(k, c)')
    BY <1>1, <1>2, <2>2 DEF Told
  <2>4. \A c \in Chats : low[c] <= low'[c]
    BY <1>1, <1>3
  <2> QED
    BY <1>1, <1>2, <1>4, <2>1, <2>3, <2>4, Elsewhere
<1> QED
  BY <1>5, <1>6 DEF DeliveryInv

LEMMA WakeStep ==
  ASSUME Typed, Typed', DeliveryAssumption, DeliveryInv, NEW ch \in Chats, Wake(ch)
  PROVE  DeliveryInv'
<1>1. /\ owed' = [owed EXCEPT ![ch] = @ - 1] /\ NotifyAll(subs[ch], ch)
      /\ UNCHANGED <<head, low, active, joined, subs, known, poll, st, cursor, todo, fl, start, got, hidden>>
  BY DEF Wake, dbVars, ghost
<1>2. Bounds'
  BY <1>1 DEF DeliveryInv, Bounds
<1>3. ASSUME NEW k \in Conns
      PROVE  ConnInv(k)'
  <2>1. pend[k] \subseteq pend'[k] /\ (wake[k] => wake'[k])
    BY <1>1 DEF NotifyAll
  <2>2. k \in subs[ch] => ch \in pend'[k] /\ wake'[k]
    BY <1>1 DEF NotifyAll
  <2>3. Subscribed(k, ch) => Told(k, ch)'
    BY <2>2 DEF DeliveryInv, ConnInv, Registered, Told
  <2>4. \A c \in Chats : c # ch => owed'[c] = owed[c]
    BY <1>1 DEF Typed, CoreTyped
  <2>5. \A c \in Chats : c # ch => (Told(k, c) => Told(k, c)')
    BY <1>1, <2>1, <2>4 DEF Told
  <2>6. \A c \in Chats : low[c] <= low'[c]
    BY <1>1, ChatNumbers
  <2> QED
    BY <1>1, <2>3, <2>5, <2>6, Elsewhere
<1> QED
  BY <1>2, <1>3 DEF DeliveryInv

LEMMA CleanupStep ==
  ASSUME Typed, Typed', DeliveryAssumption, DeliveryInv, NEW ch \in Chats, CleanupRetention(ch)
  PROVE  DeliveryInv'
<1>1. UNCHANGED <<head, active, joined, owed, subs, known, poll, st, cursor, wake, pend, todo, fl,
                  start, got, hidden>>
  BY DEF CleanupRetention, coreVars, connVars, ghost
<1>2. \A c \in Chats : low[c] <= low'[c]
  <2>1. PICK n \in (low[ch] + 1)..head[ch] : low' = [low EXCEPT ![ch] = n]
    BY DEF CleanupRetention
  <2>2. \A c \in Chats : low[c] \in Nat /\ head[c] \in Nat
    BY Numbers DEF Typed, DbTyped
  <2> QED
    BY <2>1, <2>2 DEF Typed, DbTyped
<1>3. Bounds'
  BY <1>1 DEF DeliveryInv, Bounds
<1>4. ASSUME NEW k \in Conns
      PROVE  ConnInv(k)'
  <2>1. \A c \in Chats : Told(k, c) => Told(k, c)'
    BY <1>1 DEF Told
  <2> QED
    BY <1>1, <1>2, <2>1, Elsewhere
<1> QED
  BY <1>3, <1>4 DEF DeliveryInv

LEMMA PollStep ==
  ASSUME Typed, Typed', DeliveryAssumption, DeliveryInv,
         PollStart \/ PollApply \/ \E f \in BOOLEAN : PollRead(f)
  PROVE  DeliveryInv'
<1>1. UNCHANGED <<head, low, active, joined, owed, subs, st, cursor, todo, fl, start, got, hidden>>
  BY DEF PollStart, PollRead, PollApply, dbVars, connVars, ghost
<1>2. \A c \in Chats : head[c] \in Nat /\ known[c] \in Int
  BY ChatNumbers
<1>3. /\ \A c \in Chats : known'[c] <= head[c]
      /\ poll'.stage = "apply" => \A c \in Chats : poll'.heads[c] <= head[c]
      /\ \A k \in Conns, c \in Chats : Subscribed(k, c) => (Told(k, c) => Told(k, c)')
  <2>1. CASE PollStart
    <3>1. \A c \in Chats : known'[c] \in {known[c], Unknown} /\ (subs[c] # {} => known'[c] = known[c])
      BY <2>1 DEF PollStart
    <3>2. poll'.stage # "apply"
      BY <2>1, RecordTypes DEF PollStart
    <3>3. UNCHANGED <<wake, pend>>
      BY <2>1 DEF PollStart, connVars
    <3>4. \A k \in Conns, c \in Chats : Subscribed(k, c) => known'[c] = known[c]
      BY <3>1 DEF DeliveryInv, ConnInv, Registered
    <3>5. \A c \in Chats : known'[c] <= head[c]
      BY <1>2, <3>1 DEF DeliveryInv, Bounds, Unknown
    <3> QED
      BY <1>1, <3>2, <3>3, <3>4, <3>5 DEF Told
  <2>2. ASSUME NEW f \in BOOLEAN, PollRead(f)
        PROVE  /\ \A c \in Chats : known'[c] <= head[c]
               /\ poll'.stage = "apply" => \A c \in Chats : poll'.heads[c] <= head[c]
               /\ \A k \in Conns, c \in Chats : Subscribed(k, c) => (Told(k, c) => Told(k, c)')
    <3>1. UNCHANGED <<known, wake, pend>>
      BY <2>2 DEF PollRead, connVars
    <3>2. poll'.stage = "apply" => poll'.heads = head
      BY <2>2, RecordTypes DEF PollRead, Typed, CoreTyped, Poll
    <3>3. \A c \in Chats : known'[c] <= head[c]
      BY <3>1 DEF DeliveryInv, Bounds
    <3> QED
      BY <1>1, <1>2, <3>1, <3>2, <3>3 DEF Told
  <2>3. CASE PollApply
    <3>1. poll.stage = "apply" /\ poll'.stage # "apply"
      BY <2>3, RecordTypes DEF PollApply
    <3>2. \A c \in Chats : poll.heads[c] <= head[c] /\ known[c] <= head[c] /\ poll.heads[c] \in Nat
      BY <3>1 DEF DeliveryInv, Bounds, Typed, CoreTyped, Poll
    <3>3. \A c \in Chats : known'[c] \in {known[c], Unknown, poll.heads[c]}
      BY <2>3 DEF PollApply
    <3>4. \A c \in Chats : known'[c] <= head[c]
      BY <1>2, <3>2, <3>3 DEF Unknown
    <3>5. ASSUME NEW k \in Conns, NEW c \in Chats, Subscribed(k, c), Told(k, c)
          PROVE  Told(k, c)'
      <4>1. pend[k] \subseteq pend'[k] /\ (wake[k] => wake'[k])
        BY <2>3 DEF PollApply
      <4>2. k \in subs[c]
        BY <3>5 DEF DeliveryInv, ConnInv, Registered
      <4>3. CASE c \in poll.chats /\ Moved(c)
        <5>1. c \in pend'[k] /\ wake'[k]
          BY <2>3, <4>2, <4>3 DEF PollApply
        <5> QED
          BY <5>1 DEF Told
      <4>4. CASE ~(c \in poll.chats /\ Moved(c))
        <5>1. known'[c] = known[c]
          BY <2>3, <4>2, <4>4 DEF PollApply, Moved
        <5> QED
          BY <1>1, <3>5, <4>1, <5>1 DEF Told
      <4> QED
        BY <4>3, <4>4
    <3> QED
      BY <3>1, <3>4, <3>5
  <2> QED
    BY <2>1, <2>2, <2>3
<1>4. Bounds'
  BY <1>1, <1>3 DEF DeliveryInv, Bounds
<1>5. ASSUME NEW k \in Conns
      PROVE  ConnInv(k)'
  <2>1. \A c \in Chats : low[c] <= low'[c]
    BY <1>1, ChatNumbers
  <2> QED
    BY <1>1, <1>3, <2>1, Elsewhere
<1> QED
  BY <1>4, <1>5 DEF DeliveryInv

-----------------------------------------------------------------------------
(* Steps of a connection.                                                  *)

Untouched(j) ==
  /\ st'[j] = st[j] /\ cursor'[j] = cursor[j] /\ todo'[j] = todo[j] /\ fl'[j] = fl[j]
  /\ start'[j] = start[j] /\ got'[j] = got[j] /\ hidden'[j] = hidden[j]
  /\ pend'[j] = pend[j] /\ (wake[j] => wake'[j])
  /\ \A ch \in Chats : j \in subs[ch] => j \in subs'[ch]

\* A connection's step is no step of the others.
LEMMA Local ==
  ASSUME Typed, Typed', DeliveryAssumption, DeliveryInv, NEW k \in Conns,
         UNCHANGED <<head, low, active, joined, owed, known, poll>>,
         \A j \in Conns : j # k => Untouched(j),
         ConnInv(k)'
  PROVE  DeliveryInv'
<1>1. Bounds'
  BY DEF DeliveryInv, Bounds
<1>2. ASSUME NEW j \in Conns, j # k
      PROVE  ConnInv(j)'
  <2>1. Untouched(j)
    BY <1>2
  <2>2. \A ch \in Chats : low[ch] <= low'[ch]
    BY ChatNumbers
  <2>3. \A ch \in Chats : Told(j, ch) => Told(j, ch)'
    BY <2>1 DEF Told, Untouched
  <2> QED
    BY <2>1, <2>2, <2>3, Elsewhere DEF Untouched
<1> QED
  BY <1>1, <1>2 DEF DeliveryInv

\* A connection that is closed has nothing.
LEMMA ClosedStep ==
  ASSUME Typed, Typed', DeliveryAssumption, DeliveryInv, NEW k \in Conns, Closed(k),
         UNCHANGED <<dbVars, owed, evict, known, poll>>
  PROVE  DeliveryInv'
<1>1. UNCHANGED <<head, low, active, joined, owed, known, poll>>
  BY DEF dbVars
<1>2. \A j \in Conns : j # k => Untouched(j)
  BY DEF Closed, Unregister, Untouched, Typed, ConnTyped, GhostTyped
<1>3. st'[k] = "closed" /\ fl'[k] = IdleFlush /\ todo'[k] = {}
  BY DEF Closed, Typed, ConnTyped
<1>4. \A ch \in Chats : ~Subscribed(k, ch)'
  BY DEF Closed, Subscribed, Typed, ConnTyped
<1>5. ConnInv(k)'
  BY <1>3, <1>4, RecordTypes
  DEF ConnInv, Registered, Flushing, Paging, Sending, Woken, Behind, Gapless
<1> QED
  BY <1>1, <1>2, <1>5, Local

\* Where a turn goes from the end of a flush.
LEMMA EndFlushFacts ==
  ASSUME Typed, NEW k \in Conns, st[k] = "flush", EndFlush(k)
  PROVE  /\ fl'[k].stage \notin {"page", "send"}
         /\ st'[k] = "flush" => /\ fl'[k].chat \in todo[k] /\ todo'[k] = todo[k] \ {fl'[k].chat}
                                /\ fl'[k].stage = "check"
         /\ st'[k] # "flush" => fl'[k].chat = NoChat /\ todo'[k] = {} /\ todo[k] = {}
         /\ \A j \in Conns : j # k => st'[j] = st[j] /\ fl'[j] = fl[j] /\ todo'[j] = todo[j]
<1>1. CASE todo[k] = {}
  BY <1>1, RecordTypes DEF EndFlush, Typed, ConnTyped
<1>2. CASE todo[k] # {}
  <2>1. PICK ch \in todo[k] : /\ fl' = [fl EXCEPT ![k] = StartFlush(ch)]
                              /\ todo' = [todo EXCEPT ![k] = @ \ {ch}]
                              /\ UNCHANGED st
    BY <1>2 DEF EndFlush
  <2>2. StartFlush(ch).chat = ch /\ StartFlush(ch).stage = "check"
    BY RecordTypes DEF Typed, ConnTyped
  <2> QED
    BY <2>1, <2>2 DEF Typed, ConnTyped
<1> QED
  BY <1>1, <1>2

\* After the flush of a chat, only that chat needs a reason for not being looked at.
LEMMA FlushEnds ==
  ASSUME Typed, Typed', DeliveryAssumption, NEW k \in Conns, ConnInv(k), st[k] = "flush",
         EndFlush(k), UNCHANGED <<head, low, active, joined, owed, known>>,
         NEW c \in Chats, c = fl[k].chat,
         \A ch \in Chats : ch # c =>
           /\ cursor'[k][ch] = cursor[k][ch] /\ start'[k][ch] = start[k][ch]
           /\ got'[k][ch] = got[k][ch] /\ hidden'[k][ch] = hidden[k][ch]
           /\ ch \in pend[k] => ch \in pend'[k]
           /\ k \in subs[ch] => k \in subs'[ch],
         wake[k] => wake'[k],
         Subscribed(k, c)' => k \in subs'[c] /\ GaplessAt(k, c)' /\ (Behind(k, c)' => Told(k, c)')
  PROVE  ConnInv(k)'
<1>1. \A ch \in Chats : ch # c => (Subscribed(k, ch)' <=> Subscribed(k, ch))
  BY DEF Subscribed
<1>2. Registered(k)'
  BY <1>1 DEF ConnInv, Registered
<1>3. Flushing(k)'
  <2>1. c \notin todo[k] /\ todo[k] \subseteq Chats /\ \A ch \in todo[k] : Subscribed(k, ch)
    BY ConnNumbers DEF ConnInv, Flushing
  <2>2. \A ch \in todo[k] : Subscribed(k, ch)'
    BY <1>1, <2>1
  <2> QED
    BY <2>1, <2>2, EndFlushFacts DEF Flushing
<1>4. Paging(k)' /\ Sending(k)'
  BY EndFlushFacts DEF Paging, Sending
<1>5. Woken(k)'
  <2> SUFFICES ASSUME NEW ch \in Chats, Behind(k, ch)', fl'[k].chat # ch, ch \notin todo'[k]
               PROVE  Told(k, ch)'
    BY DEF Woken
  <2>1. CASE ch = c
    BY <2>1 DEF Behind
  <2>2. CASE ch # c
    <3>1. ch \notin todo[k]
      BY EndFlushFacts
    <3>2. From(k, ch)' = From(k, ch)
      BY <2>2 DEF From
    <3>3. Behind(k, ch)
      BY <1>1, <2>2, <3>2 DEF Behind
    <3>4. Told(k, ch)
      BY <2>2, <3>1, <3>3 DEF ConnInv, Woken
    <3> QED
      BY <2>2, <3>4 DEF Told
  <2> QED
    BY <2>1, <2>2
<1>6. Gapless(k)'
  <2> SUFFICES ASSUME NEW ch \in Chats, Subscribed(k, ch)'
               PROVE  GaplessAt(k, ch)'
    BY DEF Gapless
  <2>1. CASE ch # c
    <3>1. GaplessAt(k, ch)
      BY <1>1, <2>1 DEF ConnInv, Gapless
    <3> QED
      BY <2>1, <3>1 DEF GaplessAt
  <2> QED
    BY <2>1
<1> QED
  BY <1>2, <1>3, <1>4, <1>5, <1>6 DEF ConnInv

\* A subscription that is dropped asks for nothing.
LEMMA DropFacts ==
  ASSUME Typed, NEW k \in Conns, NEW c \in Chats, Drop(k, c)
  PROVE  /\ ~Subscribed(k, c)'
         /\ \A ch \in Chats : ch # c =>
              /\ cursor'[k][ch] = cursor[k][ch] /\ start'[k][ch] = start[k][ch]
              /\ got'[k][ch] = got[k][ch] /\ hidden'[k][ch] = hidden[k][ch]
              /\ ch \in pend[k] => ch \in pend'[k]
              /\ k \in subs[ch] => k \in subs'[ch]
         /\ \A j \in Conns : j # k =>
              /\ cursor'[j] = cursor[j] /\ start'[j] = start[j] /\ got'[j] = got[j]
              /\ hidden'[j] = hidden[j]
              /\ pend'[j] = pend[j]
              /\ \A ch \in Chats : j \in subs[ch] => j \in subs'[ch]
<1>1. ~Subscribed(k, c)'
  BY DEF Drop, Subscribed, Typed, ConnTyped
<1>2. \A ch \in Chats : ch # c =>
              /\ cursor'[k][ch] = cursor[k][ch] /\ start'[k][ch] = start[k][ch]
              /\ got'[k][ch] = got[k][ch] /\ hidden'[k][ch] = hidden[k][ch]
              /\ ch \in pend[k] => ch \in pend'[k]
              /\ k \in subs[ch] => k \in subs'[ch]
  BY DEF Drop, Typed, CoreTyped, ConnTyped, GhostTyped
<1>3. \A j \in Conns : j # k =>
              /\ cursor'[j] = cursor[j] /\ start'[j] = start[j] /\ got'[j] = got[j]
              /\ hidden'[j] = hidden[j]
              /\ pend'[j] = pend[j]
              /\ \A ch \in Chats : j \in subs[ch] => j \in subs'[ch]
  BY DEF Drop, Typed, CoreTyped, ConnTyped, GhostTyped
<1> QED
  BY <1>1, <1>2, <1>3

LEMMA SyncErrorStep ==
  ASSUME Typed, Typed', DeliveryAssumption, DeliveryInv, NEW k \in Conns, st[k] = "flush",
         SyncError(k, fl[k].chat)
  PROVE  DeliveryInv'
<1>1. PICK c \in Chats : c = fl[k].chat
  BY DEF DeliveryInv, ConnInv, Flushing
<1>2. /\ Drop(k, c) /\ EndFlush(k)
      /\ UNCHANGED <<head, low, active, joined, owed, known, poll, wake>>
  BY <1>1 DEF SyncError, dbVars
<1>3. ConnInv(k)
  BY DEF DeliveryInv
<1>4. ConnInv(k)'
  BY <1>1, <1>2, <1>3, DropFacts, FlushEnds
<1>5. \A j \in Conns : j # k => Untouched(j)
  BY <1>2, DropFacts, EndFlushFacts DEF Untouched
<1> QED
  BY <1>2, <1>4, <1>5, Local

LEMMA ConnectStep ==
  ASSUME Typed, Typed', DeliveryAssumption, DeliveryInv, NEW k \in Conns, Connect(k)
  PROVE  DeliveryInv'
<1>1. /\ st[k] = "closed" /\ st'[k] = "select" /\ \A j \in Conns : j # k => st'[j] = st[j]
      /\ UNCHANGED <<head, low, active, joined, owed, known, poll, subs, cursor, wake, pend, todo,
                     fl, start, got, hidden>>
  BY DEF Connect, dbVars, coreVars, ghost, Typed, ConnTyped
<1>2. \A j \in Conns : j # k => Untouched(j)
  BY <1>1 DEF Untouched
<1>3. ConnInv(k)'
  <2>1. ConnInv(k)
    BY DEF DeliveryInv
  <2>2. Registered(k)' /\ Flushing(k)' /\ Paging(k)' /\ Sending(k)'
    BY <1>1, <2>1 DEF ConnInv, Registered, Flushing, Paging, Sending, Subscribed
  <2>3. Woken(k)'
    BY <1>1, <2>1 DEF ConnInv, Woken, Behind, Subscribed, From, Told
  <2>4. Gapless(k)'
    BY <1>1, <2>1 DEF ConnInv, Gapless, GaplessAt, Subscribed
  <2> QED
    BY <2>2, <2>3, <2>4 DEF ConnInv
<1> QED
  BY <1>1, <1>2, <1>3, Local

LEMMA EvictStep ==
  ASSUME Typed, Typed', DeliveryAssumption, DeliveryInv, NEW u \in Conns, DisconnectUser(u)
  PROVE  DeliveryInv'
<1>1. UNCHANGED <<head, low, active, joined, owed, subs, known, poll, st, cursor, wake, pend, todo,
                  fl, start, got, hidden>>
  BY DEF DisconnectUser, dbVars, ghost
<1>2. Bounds'
  BY <1>1 DEF DeliveryInv, Bounds
<1>3. ASSUME NEW k \in Conns
      PROVE  ConnInv(k)'
  <2>1. \A c \in Chats : low[c] <= low'[c]
    BY <1>1, ChatNumbers
  <2>2. \A c \in Chats : Told(k, c) => Told(k, c)'
    BY <1>1 DEF Told
  <2> QED
    BY <1>1, <2>1, <2>2, Elsewhere
<1> QED
  BY <1>2, <1>3 DEF DeliveryInv

\* A subscription begins with nothing to make up for, and its flush looks at the chat.
LEMMA SubscribeStep ==
  ASSUME Typed, Typed', DeliveryAssumption, DeliveryInv,
         NEW k \in Conns, NEW c \in Chats, NEW a \in Nat, Subscribe(k, c, a)
  PROVE  DeliveryInv'
<1>1. /\ st[k] = "select" /\ fl' = [fl EXCEPT ![k] = StartFlush(c)]
      /\ UNCHANGED <<head, low, active, joined, owed, known, poll, wake, pend, todo>>
  BY DEF Subscribe, dbVars
<1>2. /\ st'[k] = "flush" /\ cursor'[k][c] = a /\ start'[k][c] = a /\ k \in subs'[c]
      /\ fl'[k].chat = c /\ fl'[k].stage = "check"
  <2>1. fl'[k] = StartFlush(c)
    BY <1>1 DEF Typed, ConnTyped
  <2> QED
    BY <2>1, RecordTypes DEF Subscribe, Typed, CoreTyped, ConnTyped, GhostTyped
<1>3. \A ch \in Chats : ch # c =>
        /\ cursor'[k][ch] = cursor[k][ch] /\ start'[k][ch] = start[k][ch]
        /\ got'[k][ch] = got[k][ch] /\ hidden'[k][ch] = hidden[k][ch]
        /\ k \in subs[ch] => k \in subs'[ch]
  BY DEF Subscribe, Typed, CoreTyped, ConnTyped, GhostTyped
<1>4. \A j \in Conns : j # k => Untouched(j)
  BY <1>1 DEF Untouched, Subscribe, Typed, CoreTyped, ConnTyped, GhostTyped
<1>5. ConnInv(k) /\ fl[k].chat = NoChat /\ todo[k] = {} /\ todo'[k] = {}
  BY <1>1 DEF DeliveryInv, ConnInv, Flushing
<1>6. Subscribed(k, c)' /\ \A ch \in Chats : ch # c => (Subscribed(k, ch)' <=> Subscribed(k, ch))
  <2>1. a # NotSubscribed
    BY DEF NotSubscribed
  <2> QED
    BY <1>2, <1>3, <2>1 DEF Subscribed
<1>7. ConnInv(k)'
  <2>1. Registered(k)'
    BY <1>2, <1>3, <1>5, <1>6 DEF ConnInv, Registered
  <2>2. Flushing(k)' /\ Paging(k)' /\ Sending(k)'
    BY <1>2, <1>5, <1>6 DEF Flushing, Paging, Sending
  <2>3. Woken(k)'
    <3> SUFFICES ASSUME NEW ch \in Chats, Behind(k, ch)', ch # c
                 PROVE  Told(k, ch)'
      BY <1>2 DEF Woken
    <3>1. Behind(k, ch)
      BY <1>1, <1>3, <1>6 DEF Behind, From
    <3>2. ch # fl[k].chat /\ ch \notin todo[k]
      BY <1>5, Numbers
    <3> QED
      BY <1>1, <1>5, <3>1, <3>2 DEF ConnInv, Woken, Told
  <2>4. GaplessAt(k, c)'
    <3>1. \A n \in (a + 1)..a : FALSE
      OBVIOUS
    <3> QED
      BY <1>2, <3>1 DEF GaplessAt
  <2>5. \A ch \in Chats : ch # c => (GaplessAt(k, ch) => GaplessAt(k, ch)')
    BY <1>1, <1>3 DEF GaplessAt
  <2>6. Gapless(k)'
    BY <1>5, <1>6, <2>4, <2>5 DEF ConnInv, Gapless
  <2> QED
    BY <2>1, <2>2, <2>3, <2>6 DEF ConnInv
<1> QED
  BY <1>1, <1>4, <1>7, Local

LEMMA UnsubscribeStep ==
  ASSUME Typed, Typed', DeliveryAssumption, DeliveryInv, NEW k \in Conns, NEW c \in Chats,
         Unsubscribe(k, c)
  PROVE  DeliveryInv'
<1>1. /\ st[k] = "select" /\ Drop(k, c)
      /\ UNCHANGED <<head, low, active, joined, owed, known, poll, st, wake, todo, fl>>
  BY DEF Unsubscribe, dbVars
<1>2. \A j \in Conns : j # k => Untouched(j)
  BY <1>1, DropFacts DEF Untouched
<1>3. ConnInv(k)
  BY DEF DeliveryInv
<1>4. /\ ~Subscribed(k, c)'
      /\ \A ch \in Chats : ch # c =>
           /\ cursor'[k][ch] = cursor[k][ch] /\ start'[k][ch] = start[k][ch]
           /\ got'[k][ch] = got[k][ch] /\ hidden'[k][ch] = hidden[k][ch]
           /\ ch \in pend[k] => ch \in pend'[k]
           /\ k \in subs[ch] => k \in subs'[ch]
  BY <1>1, DropFacts
<1>5. \A ch \in Chats : ch # c => (Subscribed(k, ch)' <=> Subscribed(k, ch))
  BY <1>4 DEF Subscribed
<1>6. Registered(k)' /\ Flushing(k)' /\ Paging(k)' /\ Sending(k)'
  BY <1>1, <1>3, <1>4, <1>5 DEF ConnInv, Registered, Flushing, Paging, Sending
<1>7. Woken(k)'
  <2> SUFFICES ASSUME NEW ch \in Chats, Behind(k, ch)', fl[k].chat # ch, ch \notin todo[k]
               PROVE  Told(k, ch)'
    BY <1>1 DEF Woken
  <2>1. ch # c
    BY <1>4 DEF Behind
  <2>2. Behind(k, ch)
    BY <1>1, <1>4, <1>5, <2>1 DEF Behind, From
  <2> QED
    BY <1>1, <1>3, <1>4, <2>1, <2>2 DEF ConnInv, Woken, Told
<1>8. Gapless(k)'
  <2> SUFFICES ASSUME NEW ch \in Chats, Subscribed(k, ch)'
               PROVE  GaplessAt(k, ch)'
    BY DEF Gapless
  <2>1. ch # c
    BY <1>4
  <2>2. GaplessAt(k, ch)
    BY <1>3, <1>5, <2>1 DEF ConnInv, Gapless
  <2> QED
    BY <1>1, <1>4, <2>1, <2>2 DEF GaplessAt
<1>9. ConnInv(k)'
  BY <1>6, <1>7, <1>8 DEF ConnInv
<1> QED
  BY <1>1, <1>2, <1>9, Local

\* What was pending is now being flushed, or waits in the turn, or is not subscribed.
LEMMA TakePendingStep ==
  ASSUME Typed, Typed', DeliveryAssumption, DeliveryInv, NEW k \in Conns, TakePending(k)
  PROVE  DeliveryInv'
<1>1. /\ st[k] = "select"
      /\ wake' = [wake EXCEPT ![k] = FALSE] /\ pend' = [pend EXCEPT ![k] = {}]
      /\ UNCHANGED <<head, low, active, joined, owed, known, poll, subs, cursor, start, got, hidden>>
  BY DEF TakePending, dbVars, coreVars, ghost
<1> DEFINE S == Flushable(k, pend[k])
<1>2. ConnInv(k) /\ fl[k].chat = NoChat /\ todo[k] = {}
  BY <1>1 DEF DeliveryInv, ConnInv, Flushing
<1>3. S \in SUBSET Chats /\ \A ch \in Chats : ch \in S <=> ch \in pend[k] /\ Subscribed(k, ch)
  BY DEF Flushable, Subscribed, Typed, ConnTyped
<1>4. /\ \A j \in Conns : j # k => st'[j] = st[j] /\ fl'[j] = fl[j] /\ todo'[j] = todo[j]
      /\ \/ S = {} /\ st'[k] = "select" /\ fl'[k].chat = NoChat /\ todo'[k] = {}
         \/ /\ st'[k] = "flush" /\ fl'[k].chat \in S /\ fl'[k].stage = "check"
            /\ todo'[k] = S \ {fl'[k].chat}
  <2>1. CASE S = {}
    BY <1>1, <1>2, <2>1 DEF TakePending
  <2>2. CASE S # {}
    <3>1. PICK ch \in S : /\ st' = [st EXCEPT ![k] = "flush"]
                          /\ fl' = [fl EXCEPT ![k] = StartFlush(ch)]
                          /\ todo' = [todo EXCEPT ![k] = S \ {ch}]
      BY <2>2 DEF TakePending
    <3>2. StartFlush(ch).chat = ch /\ StartFlush(ch).stage = "check"
      BY <1>3, RecordTypes
    <3> QED
      BY <3>1, <3>2 DEF Typed, ConnTyped
  <2> QED
    BY <2>1, <2>2
<1> HIDE DEF S
<1>5. \A j \in Conns : j # k => Untouched(j)
  BY <1>1, <1>4 DEF Untouched
<1>6. \A ch \in Chats : Subscribed(k, ch)' <=> Subscribed(k, ch)
  BY <1>1 DEF Subscribed
<1>7. Registered(k)' /\ Gapless(k)'
  BY <1>1, <1>2 DEF ConnInv, Registered, Gapless, GaplessAt, Subscribed
<1>8. Flushing(k)' /\ Paging(k)' /\ Sending(k)'
  <2>1. \A ch \in S : ch \in Chats /\ Subscribed(k, ch)'
    BY <1>3, <1>6
  <2> QED
    BY <1>4, <2>1 DEF Flushing, Paging, Sending
<1>9. Woken(k)'
  <2> SUFFICES ASSUME NEW ch \in Chats, Behind(k, ch)', fl'[k].chat # ch, ch \notin todo'[k]
               PROVE  Told(k, ch)'
    BY DEF Woken
  <2>1. ch \notin S
    BY <1>4
  <2>2. Behind(k, ch)
    BY <1>1, <1>6 DEF Behind, From
  <2>3. ch \notin pend[k]
    BY <1>3, <2>1, <2>2 DEF Behind
  <2>4. ch # fl[k].chat /\ ch \notin todo[k]
    BY <1>2, Numbers
  <2>5. Told(k, ch)
    BY <1>2, <2>2, <2>4 DEF ConnInv, Woken
  <2> QED
    BY <1>1, <2>3, <2>5 DEF Told
<1>10. ConnInv(k)'
  BY <1>7, <1>8, <1>9 DEF ConnInv
<1> QED
  BY <1>1, <1>5, <1>10, Local

\* The first read of a flush.
LEMMA CheckedStep ==
  ASSUME Typed, Typed', DeliveryAssumption, DeliveryInv, NEW k \in Conns, EventsChecked(k)
  PROVE  DeliveryInv'
<1>1. ConnInv(k) /\ st[k] = "flush"
  BY DEF DeliveryInv, EventsChecked
<1>2. PICK c \in Chats : c = fl[k].chat
  BY <1>1 DEF ConnInv, Flushing
<1>3. /\ UNCHANGED <<head, low, active, joined, owed, subs, known, poll, st, cursor, wake, pend, todo,
                     start, got>>
      /\ From(k, c) < head[c]
      /\ hidden' = [hidden EXCEPT ![k][c] = Larger(@, joined[c][k])]
  BY <1>2 DEF EventsChecked, dbVars, coreVars
<1>4. /\ fl'[k].chat = c /\ fl'[k].stage = "page" /\ fl'[k].after = From(k, c)
      /\ fl'[k].current = head[c]
      /\ \A j \in Conns : j # k => fl'[j] = fl[j]
  <2>1. fl[k] \in Flush
    BY DEF Typed, ConnTyped
  <2> QED
    BY <1>2, <2>1 DEF EventsChecked, Typed, ConnTyped, Flush
<1>h. /\ \A j \in Conns : j # k => hidden'[j] = hidden[j]
      /\ \A ch \in Chats : ch # c => hidden'[k][ch] = hidden[k][ch]
      /\ hidden'[k][c] = Larger(hidden[k][c], joined[c][k])
  BY <1>3 DEF Typed, GhostTyped
<1>l. /\ hidden[k][c] \in Nat /\ joined[c][k] \in Nat /\ hidden'[k][c] \in Nat
      /\ hidden[k][c] <= hidden'[k][c] /\ joined[c][k] <= hidden'[k][c]
  BY <1>h, ConnNumbers DEF Larger
<1>5. \A j \in Conns : j # k => Untouched(j)
  BY <1>3, <1>4, <1>h DEF Untouched
<1>6. \A ch \in Chats : /\ Subscribed(k, ch)' <=> Subscribed(k, ch)
                        /\ From(k, ch)' = From(k, ch)
                        /\ Told(k, ch)' <=> Told(k, ch)
                        /\ Behind(k, ch)' <=> Behind(k, ch)
  BY <1>3 DEF Subscribed, From, Told, Behind
<1>7. Registered(k)'
  BY <1>1, <1>3 DEF ConnInv, Registered, Subscribed
<1>g. Gapless(k)'
  <2> SUFFICES ASSUME NEW ch \in Chats, Subscribed(k, ch),
                      NEW n \in (start[k][ch] + 1)..cursor[k][ch]
               PROVE  n \in got[k][ch] \/ n <= low[ch] \/ n < hidden'[k][ch]
    BY <1>3, <1>6 DEF Gapless, GaplessAt
  <2>1. n \in got[k][ch] \/ n <= low[ch] \/ n < hidden[k][ch]
    BY <1>1 DEF ConnInv, Gapless, GaplessAt
  <2>2. n \in Int
    BY ConnNumbers
  <2>3. CASE ch = c
    BY <1>l, <2>1, <2>2, <2>3
  <2>4. CASE ch # c
    BY <1>h, <2>1, <2>4
  <2> QED
    BY <2>3, <2>4
<1>8. Flushing(k)'
  <2>1. c \notin todo[k] /\ \A ch \in todo[k] \cup {c} : ch \in Chats /\ Subscribed(k, ch)
    BY <1>1, <1>2, ConnNumbers DEF ConnInv, Flushing
  <2> QED
    BY <1>1, <1>3, <1>4, <1>6, <2>1 DEF Flushing
<1>9. Paging(k)' /\ Sending(k)'
  <2>1. /\ From(k, c) \in Int /\ From(k, c) >= cursor[k][c] /\ cursor[k][c] \in Int
        /\ From(k, c) = cursor[k][c] \/ From(k, c) = joined[c][k] - 1
    BY FromType, ConnNumbers
  <2>2. From(k, c) = cursor[k][c] \/ From(k, c) < hidden'[k][c]
    BY <1>l, <2>1
  <2>3. cursor'[k][c] <= fl'[k].after /\ fl'[k].after < fl'[k].current
    BY <1>3, <1>4, <2>1
  <2> QED
    BY <1>3, <1>4, <2>2, <2>3 DEF Paging, Sending
<1>10. Woken(k)'
  BY <1>1, <1>2, <1>3, <1>4, <1>6 DEF ConnInv, Woken
<1>11. ConnInv(k)'
  BY <1>7, <1>g, <1>8, <1>9, <1>10 DEF ConnInv
<1> QED
  BY <1>3, <1>5, <1>11, Local

LEMMA NoneStep ==
  ASSUME Typed, Typed', DeliveryAssumption, DeliveryInv, NEW k \in Conns, EventsNone(k)
  PROVE  DeliveryInv'
<1>1. ConnInv(k) /\ st[k] = "flush"
  BY DEF DeliveryInv, EventsNone
<1>2. PICK c \in Chats : c = fl[k].chat
  BY <1>1 DEF ConnInv, Flushing
<1>3. /\ UNCHANGED <<head, low, active, joined, owed, subs, known, poll, cursor, wake, pend, start,
                     got, hidden>>
      /\ From(k, c) = head[c] /\ EndFlush(k)
  BY <1>2 DEF EventsNone, dbVars, coreVars, ghost
<1>4. \A j \in Conns : j # k => Untouched(j)
  BY <1>1, <1>3, EndFlushFacts DEF Untouched
<1>5. k \in subs[c] /\ GaplessAt(k, c)
  BY <1>1, <1>2 DEF ConnInv, Registered, Flushing, Gapless
<1>6. k \in subs'[c] /\ GaplessAt(k, c)'
  BY <1>3, <1>5 DEF GaplessAt
<1>7. ~Behind(k, c)'
  <2>1. From(k, c)' = From(k, c) /\ From(k, c) \in Int /\ low[c] \in Nat
    BY <1>3, FromType, ChatNumbers DEF From
  <2>2. ~(head'[c] > Larger(low'[c], From(k, c)'))
    BY <1>3, <2>1 DEF Larger
  <2> QED
    BY <2>2 DEF Behind
<1>8. ConnInv(k)'
  BY <1>1, <1>2, <1>3, <1>6, <1>7, FlushEnds
<1> QED
  BY <1>3, <1>4, <1>8, Local

\* A page starts where the first read found the cursor or the member's history, and a short
\* one reaches the head the first read saw.
LEMMA PageContent ==
  ASSUME Typed, DeliveryAssumption, NEW k \in Conns, ConnInv(k), PageRead(k),
         NEW c \in Chats, c = fl[k].chat
  PROVE  /\ \A n \in PageOf(k) :
              /\ cursor[k][c] < n
              /\ \A m \in Nat : m < n => \/ m \in PageOf(k) \/ m <= cursor[k][c]
                                         \/ m <= low[c] \/ m < hidden[k][c]
         /\ ~(Cardinality(PageOf(k)) >= PageLimit) =>
              head[c] \in PageOf(k) \/ head[c] <= low[c] \/ Told(k, c)
<1>1. st[k] = "flush" /\ fl[k].stage = "page"
  BY DEF PageRead
<1>2. /\ cursor[k][c] <= fl[k].after /\ fl[k].after < fl[k].current
      /\ fl[k].after = cursor[k][c] \/ fl[k].after < hidden[k][c]
      /\ fl[k].current = head[c] \/ Told(k, c)
  BY <1>1 DEF ConnInv, Paging
<1>3. /\ low[c] \in Nat /\ head[c] \in Nat /\ hidden[k][c] \in Nat /\ cursor[k][c] \in Int
      /\ fl[k].after \in Nat /\ fl[k].current \in Nat /\ PageLimit \in Nat
  BY ChatNumbers, ConnNumbers, Numbers
<1> DEFINE P == PageOf(k)
<1>4. /\ P \in SUBSET Nat /\ P \in SUBSET RowsOf(k) /\ \A n \in P, m \in RowsOf(k) : m < n => m \in P
      /\ Cardinality(P) \in Nat
      /\ (Cardinality(P) < PageLimit /\ ~Fast(k)) => P = RowsOf(k)
      /\ (Cardinality(P) < PageLimit /\ Fast(k) /\ fl[k].current \in RowsOf(k)) => fl[k].current \in P
  BY PageFacts
<1> HIDE DEF P
<1>5. ASSUME NEW n \in P
      PROVE  n \in Nat /\ fl[k].after < n /\ n \in (low[c] + 1)..Top(k) /\ Top(k) \in Nat
  <2>1. n \in RowsOf(k) /\ n \in Nat
    BY <1>4
  <2> QED
    BY <1>3, <2>1 DEF RowsOf, Top
<1>6. ASSUME NEW n \in P, NEW m \in Nat, m < n
      PROVE  m \in P \/ m <= cursor[k][c] \/ m <= low[c] \/ m < hidden[k][c]
  <2> SUFFICES ASSUME ~(m <= cursor[k][c]), ~(m <= low[c]), ~(m < hidden[k][c])
               PROVE  m \in P
    OBVIOUS
  <2>1. m > fl[k].after
    BY <1>2, <1>3
  <2>2. m \in (low[c] + 1)..Top(k)
    BY <1>3, <1>5, <1>6
  <2>3. m \in RowsOf(k)
    BY <2>1, <2>2 DEF RowsOf
  <2> QED
    BY <1>4, <1>6, <2>3
<1>7. ASSUME ~(Cardinality(P) >= PageLimit), ~Told(k, c), ~(head[c] <= low[c])
      PROVE  head[c] \in P
  <2>1. fl[k].current = head[c] /\ Cardinality(P) < PageLimit
    BY <1>2, <1>3, <1>4, <1>7
  <2>2. Top(k) = head[c]
    BY <2>1 DEF Top
  <2>3. head[c] \in (low[c] + 1)..Top(k) /\ head[c] > fl[k].after
    BY <1>2, <1>3, <1>7, <2>1, <2>2
  <2>4. head[c] \in RowsOf(k)
    BY <2>3 DEF RowsOf
  <2> QED
    BY <1>4, <2>1, <2>4
<1>8. \A n \in P : cursor[k][c] < n
  BY <1>2, <1>3, <1>5
<1> QED
  BY <1>6, <1>7, <1>8 DEF P

LEMMA ReadStep ==
  ASSUME Typed, Typed', DeliveryAssumption, DeliveryInv, NEW k \in Conns, PageRead(k)
  PROVE  DeliveryInv'
<1>1. ConnInv(k) /\ st[k] = "flush"
  BY DEF DeliveryInv, PageRead
<1>2. PICK c \in Chats : c = fl[k].chat
  BY <1>1 DEF ConnInv, Flushing
<1>3. UNCHANGED <<head, low, active, joined, owed, subs, known, poll, st, cursor, wake, pend, todo,
                  start, got, hidden>>
  BY DEF PageRead, dbVars, coreVars, ghost
<1> DEFINE P == PageOf(k)
           full == (Cardinality(P) >= PageLimit)
           next == [IdleFlush EXCEPT !.chat = fl[k].chat, !.page = fl[k].page, !.stage = "send",
                                     !.rows = P, !.full = full]
<1>4. fl' = [fl EXCEPT ![k] = next]
  BY DEF PageRead
<1>5. next.chat = c /\ next.stage = "send" /\ next.rows = P /\ next.full = full
  BY <1>2, RecordTypes DEF Flush
<1> HIDE DEF P, full, next
<1>6. /\ fl'[k].chat = c /\ fl'[k].stage = "send" /\ fl'[k].rows = P /\ fl'[k].full = full
      /\ \A j \in Conns : j # k => fl'[j] = fl[j]
  BY <1>4, <1>5 DEF Typed, ConnTyped
<1>7. \A j \in Conns : j # k => Untouched(j)
  BY <1>3, <1>6 DEF Untouched
<1>8. \A ch \in Chats : /\ Subscribed(k, ch)' <=> Subscribed(k, ch)
                        /\ Told(k, ch)' <=> Told(k, ch)
                        /\ Behind(k, ch)' <=> Behind(k, ch)
  BY <1>3 DEF Subscribed, From, Told, Behind
<1>9. Registered(k)' /\ Gapless(k)'
  BY <1>1, <1>3 DEF ConnInv, Registered, Gapless, GaplessAt, Subscribed
<1>10. Flushing(k)'
  <2>1. c \notin todo[k] /\ \A ch \in todo[k] \cup {c} : ch \in Chats /\ Subscribed(k, ch)
    BY <1>1, <1>2, ConnNumbers DEF ConnInv, Flushing
  <2> QED
    BY <1>1, <1>3, <1>6, <1>8, <2>1 DEF Flushing
<1>11. Paging(k)' /\ Sending(k)'
  <2>1. \A n \in P : /\ cursor[k][c] < n
                     /\ \A m \in Nat : m < n => \/ m \in P \/ m <= cursor[k][c]
                                                \/ m <= low[c] \/ m < hidden[k][c]
    BY <1>1, <1>2, PageContent DEF P
  <2>2. ~full => head[c] \in P \/ head[c] <= low[c] \/ Told(k, c)
    BY <1>1, <1>2, PageContent DEF P, full
  <2> QED
    BY <1>3, <1>6, <1>8, <2>1, <2>2, Zenon DEF Paging, Sending
<1>12. Woken(k)'
  BY <1>1, <1>2, <1>3, <1>6, <1>8 DEF ConnInv, Woken
<1>13. ConnInv(k)'
  BY <1>9, <1>10, <1>11, <1>12 DEF ConnInv
<1> QED
  BY <1>3, <1>7, <1>13, Local

\* The event that is written follows the cursor without a gap.
LEMMA WriteStep ==
  ASSUME Typed, Typed', DeliveryAssumption, DeliveryInv, NEW k \in Conns, WriteEvent(k)
  PROVE  DeliveryInv'
<1>1. ConnInv(k) /\ st[k] = "flush" /\ fl[k].stage = "send"
  BY DEF DeliveryInv, WriteEvent
<1>2. PICK c \in Chats : c = fl[k].chat
  BY <1>1 DEF ConnInv, Flushing
<1>3. UNCHANGED <<head, low, active, joined, owed, subs, known, poll, st, wake, pend, todo, start, hidden>>
  BY DEF WriteEvent, dbVars, coreVars
<1>4. PICK n \in fl[k].rows :
        /\ n \in Nat /\ \A m \in fl[k].rows : n <= m
        /\ fl'[k].rows = fl[k].rows \ {n}
        /\ fl'[k].chat = c /\ fl'[k].stage = "send" /\ fl'[k].full = fl[k].full
        /\ cursor' = [cursor EXCEPT ![k][c] = n]
        /\ got' = [got EXCEPT ![k][c] = @ \cup {n}]
        /\ \A j \in Conns : j # k => fl'[j] = fl[j]
  BY <1>2, Written
<1>5. /\ cursor'[k][c] = n /\ got'[k][c] = got[k][c] \cup {n}
      /\ \A ch \in Chats : ch # c => cursor'[k][ch] = cursor[k][ch] /\ got'[k][ch] = got[k][ch]
      /\ \A j \in Conns : j # k => cursor'[j] = cursor[j] /\ got'[j] = got[j]
  BY <1>4 DEF Typed, ConnTyped, GhostTyped
<1>6. /\ cursor[k][c] < n
      /\ \A m \in Nat : m < n => m \in fl[k].rows \/ m <= cursor[k][c] \/ m <= low[c] \/ m < hidden[k][c]
  BY <1>1, <1>2, <1>4 DEF ConnInv, Sending
<1>7. /\ cursor[k][c] \in Int /\ low[c] \in Nat /\ head[c] \in Nat /\ hidden[k][c] \in Nat
      /\ start[k][c] \in Nat /\ fl[k].rows \in SUBSET Nat
  BY ChatNumbers, ConnNumbers
<1>8. \A j \in Conns : j # k => Untouched(j)
  BY <1>3, <1>4, <1>5 DEF Untouched
<1>9. Subscribed(k, c)' /\ \A ch \in Chats : ch # c => (Subscribed(k, ch)' <=> Subscribed(k, ch))
  <2>1. n # NotSubscribed
    BY <1>4 DEF NotSubscribed
  <2> QED
    BY <1>5, <2>1 DEF Subscribed
<1>10. Registered(k)'
  <2>1. k \in subs[c]
    BY <1>1, <1>2 DEF ConnInv, Registered, Flushing
  <2> QED
    BY <1>1, <1>3, <1>9, <2>1 DEF ConnInv, Registered
<1>11. Flushing(k)' /\ Paging(k)'
  <2>1. c \notin todo[k] /\ \A ch \in todo[k] : ch \in Chats /\ Subscribed(k, ch)
    BY <1>1, <1>2, ConnNumbers DEF ConnInv, Flushing
  <2>2. \A ch \in todo[k] \cup {c} : Subscribed(k, ch)'
    BY <1>9, <2>1
  <2> QED
    BY <1>1, <1>3, <1>4, <2>1, <2>2 DEF Flushing, Paging
<1>12. Sending(k)'
  <2> DEFINE R == fl[k].rows \ {n}
  <2>1. ASSUME NEW x \in R
        PROVE  /\ n < x
               /\ \A m \in Nat : m < x => m \in R \/ m <= n \/ m <= low[c] \/ m < hidden[k][c]
    <3>1. x \in Nat /\ n <= x /\ n # x /\ x \in fl[k].rows
      BY <1>4, <1>7
    <3>2. ASSUME NEW m \in Nat, m < x
          PROVE  m \in R \/ m <= n \/ m <= low[c] \/ m < hidden[k][c]
      <4>1. m \in fl[k].rows \/ m <= cursor[k][c] \/ m <= low[c] \/ m < hidden[k][c]
        BY <1>1, <1>2, <3>1, <3>2 DEF ConnInv, Sending
      <4>2. m \in R \/ m = n \/ m <= cursor[k][c] \/ m <= low[c] \/ m < hidden[k][c]
        BY <4>1
      <4> QED
        BY <1>4, <1>6, <1>7, <4>2
    <3> QED
      BY <1>4, <3>1, <3>2
  <2>2. ASSUME ~fl[k].full
        PROVE  head[c] \in R \/ head[c] <= n \/ head[c] <= low[c] \/ Told(k, c)'
    <3>1. head[c] \in fl[k].rows \/ head[c] <= cursor[k][c] \/ head[c] <= low[c] \/ Told(k, c)
      BY <1>1, <1>2, <2>2 DEF ConnInv, Sending
    <3>2. head[c] \in R \/ head[c] = n \/ head[c] <= cursor[k][c] \/ head[c] <= low[c] \/ Told(k, c)
      BY <3>1
    <3>3. head[c] <= cursor[k][c] => head[c] <= n
      BY <1>4, <1>6, <1>7
    <3>4. Told(k, c) => Told(k, c)'
      BY <1>3 DEF Told
    <3> QED
      BY <1>7, <3>2, <3>3, <3>4
  <2> HIDE DEF R
  <2>3. fl'[k].rows = R
    BY <1>4 DEF R
  <2>4. /\ low'[c] = low[c] /\ hidden'[k][c] = hidden[k][c] /\ head'[c] = head[c]
        /\ cursor'[k][c] = n
    BY <1>3, <1>5
  <2>5. \A x \in fl'[k].rows :
          /\ cursor'[k][c] < x
          /\ \A m \in Nat : m < x => \/ m \in fl'[k].rows \/ m <= cursor'[k][c]
                                     \/ m <= low'[c] \/ m < hidden'[k][c]
    BY <2>1, <2>3, <2>4
  <2>6. ~fl'[k].full => \/ head'[c] \in fl'[k].rows \/ head'[c] <= cursor'[k][c]
                        \/ head'[c] <= low'[c] \/ Told(k, c)'
    BY <1>4, <2>2, <2>3, <2>4
  <2>7. fl'[k].chat = c
    BY <1>4
  <2> QED
    BY <2>5, <2>6, <2>7, Zenon DEF Sending
<1>13. Woken(k)'
  <2> SUFFICES ASSUME NEW ch \in Chats, Behind(k, ch)', ch # c, ch \notin todo[k]
               PROVE  Told(k, ch)'
    BY <1>3, <1>4 DEF Woken
  <2>1. Behind(k, ch)
    BY <1>3, <1>5, <1>9 DEF Behind, From
  <2> QED
    BY <1>1, <1>2, <1>3, <2>1 DEF ConnInv, Woken, Told
<1>14. Gapless(k)'
  <2>1. ASSUME NEW m \in (start[k][c] + 1)..n
        PROVE  m \in got'[k][c] \/ m <= low[c] \/ m < hidden[k][c]
    <3>1. m \in Nat /\ m <= n
      BY <1>4, <1>7
    <3>2. CASE m <= cursor[k][c]
      <4>1. m \in (start[k][c] + 1)..cursor[k][c]
        BY <1>7, <3>1, <3>2
      <4>2. GaplessAt(k, c)
        BY <1>1, <1>2 DEF ConnInv, Flushing, Gapless
      <4> QED
        BY <1>5, <4>1, <4>2 DEF GaplessAt
    <3>3. CASE m = n
      BY <1>5, <3>3
    <3>4. CASE m < n /\ ~(m <= cursor[k][c])
      <4>1. m \notin fl[k].rows
        BY <1>4, <1>7, <3>1, <3>4
      <4> QED
        BY <1>6, <3>1, <3>4, <4>1
    <3> QED
      BY <1>4, <3>1, <3>2, <3>3, <3>4
  <2>2. GaplessAt(k, c)'
    BY <1>3, <1>5, <2>1, Zenon DEF GaplessAt
  <2>3. \A ch \in Chats : ch # c => (GaplessAt(k, ch) => GaplessAt(k, ch)')
    BY <1>3, <1>5 DEF GaplessAt
  <2> QED
    BY <1>1, <1>9, <2>2, <2>3 DEF ConnInv, Gapless
<1>15. ConnInv(k)'
  BY <1>10, <1>11, <1>12, <1>13, <1>14 DEF ConnInv
<1> QED
  BY <1>3, <1>8, <1>15, Local

LEMMA DoneStep ==
  ASSUME Typed, Typed', DeliveryAssumption, DeliveryInv, NEW k \in Conns, PageDone(k)
  PROVE  DeliveryInv'
<1>1. ConnInv(k) /\ st[k] = "flush" /\ fl[k].stage = "send" /\ fl[k].rows = {}
  BY DEF DeliveryInv, PageDone
<1>2. PICK c \in Chats : c = fl[k].chat
  BY <1>1 DEF ConnInv, Flushing
<1>3. UNCHANGED <<head, low, active, joined, owed, subs, known, poll, cursor, start, got, hidden>>
  BY DEF PageDone, dbVars, coreVars, ghost
<1>4. k \in subs'[c] /\ GaplessAt(k, c)'
  <2>1. k \in subs[c] /\ GaplessAt(k, c)
    BY <1>1, <1>2 DEF ConnInv, Registered, Flushing, Gapless
  <2> QED
    BY <1>3, <2>1 DEF GaplessAt
<1>5. CASE ~fl[k].full /\ EndFlush(k) /\ UNCHANGED <<wake, pend>>
  <2>1. Behind(k, c)' => Told(k, c)'
    <3> SUFFICES ASSUME Behind(k, c)'
                 PROVE  Told(k, c)'
      OBVIOUS
    <3>1. head[c] <= cursor[k][c] \/ head[c] <= low[c] \/ Told(k, c)
      BY <1>1, <1>2, <1>5 DEF ConnInv, Sending
    <3>2. head[c] > Larger(low[c], From(k, c))
      BY <1>3 DEF Behind, From
    <3>3. From(k, c) \in Int /\ From(k, c) >= cursor[k][c] /\ cursor[k][c] \in Int
      BY FromType, ConnNumbers
    <3>4. Told(k, c)
      BY <3>1, <3>2, <3>3, ChatNumbers DEF Larger
    <3> QED
      BY <1>3, <1>5, <3>4 DEF Told
  <2>2. ConnInv(k)'
    BY <1>1, <1>2, <1>3, <1>4, <1>5, <2>1, FlushEnds
  <2>3. \A j \in Conns : j # k => Untouched(j)
    BY <1>1, <1>3, <1>5, EndFlushFacts DEF Untouched
  <2> QED
    BY <1>3, <2>2, <2>3, Local
<1>6. CASE NotifyAll({k}, c) /\ EndFlush(k)
  <2>1. Told(k, c)' /\ pend[k] \subseteq pend'[k] /\ (wake[k] => wake'[k])
    BY <1>6 DEF NotifyAll, Told
  <2>2. ConnInv(k)'
    BY <1>1, <1>2, <1>3, <1>4, <1>6, <2>1, FlushEnds
  <2>3. \A j \in Conns : j # k => pend'[j] = pend[j] /\ (wake[j] => wake'[j])
    BY <1>6 DEF NotifyAll
  <2>4. \A j \in Conns : j # k => Untouched(j)
    BY <1>1, <1>3, <1>6, <2>3, EndFlushFacts DEF Untouched
  <2> QED
    BY <1>3, <2>2, <2>4, Local
<1>7. CASE /\ fl' = [fl EXCEPT ![k] = [StartFlush(c) EXCEPT !.page = fl[k].page + 1]]
           /\ UNCHANGED <<st, todo, wake, pend>>
  <2>1. /\ fl'[k].chat = c /\ fl'[k].stage = "check"
        /\ \A j \in Conns : j # k => fl'[j] = fl[j]
    <3>1. StartFlush(c) \in Flush /\ StartFlush(c).chat = c /\ StartFlush(c).stage = "check"
      BY RecordTypes
    <3>2. fl'[k] = [StartFlush(c) EXCEPT !.page = fl[k].page + 1]
      BY <1>7 DEF Typed, ConnTyped
    <3>3. fl'[k].chat = c /\ fl'[k].stage = "check"
      BY <3>1, <3>2 DEF Flush
    <3> QED
      BY <1>7, <3>3 DEF Typed, ConnTyped
  <2>2. \A ch \in Chats : Subscribed(k, ch)' <=> Subscribed(k, ch)
    BY <1>3 DEF Subscribed
  <2>3. Registered(k)' /\ Gapless(k)'
    BY <1>1, <1>3, <2>2 DEF ConnInv, Registered, Gapless, GaplessAt
  <2>4. Flushing(k)' /\ Paging(k)' /\ Sending(k)'
    <3>1. c \notin todo[k] /\ \A ch \in todo[k] \cup {c} : ch \in Chats /\ Subscribed(k, ch)
      BY <1>1, <1>2, ConnNumbers DEF ConnInv, Flushing
    <3>2. \A ch \in todo[k] \cup {c} : Subscribed(k, ch)'
      BY <2>2, <3>1
    <3> QED
      BY <1>1, <1>7, <2>1, <3>1, <3>2 DEF Flushing, Paging, Sending
  <2>5. Woken(k)'
    <3> SUFFICES ASSUME NEW ch \in Chats, Behind(k, ch)', ch # c, ch \notin todo[k]
                 PROVE  Told(k, ch)'
      BY <1>7, <2>1 DEF Woken
    <3>1. Behind(k, ch)
      BY <1>3, <2>2 DEF Behind, From
    <3> QED
      BY <1>1, <1>2, <1>3, <1>7, <3>1 DEF ConnInv, Woken, Told
  <2>6. ConnInv(k)'
    BY <2>3, <2>4, <2>5 DEF ConnInv
  <2>7. \A j \in Conns : j # k => Untouched(j)
    BY <1>3, <1>7, <2>1 DEF Untouched
  <2> QED
    BY <1>3, <2>6, <2>7, Local
<1> QED
  BY <1>2, <1>5, <1>6, <1>7 DEF PageDone

-----------------------------------------------------------------------------
(* Every step keeps the types and the invariant.                           *)

LEMMA TypeStep ==
  ASSUME Typed, DeliveryInv, DeliveryAssumption, [Next]_vars
  PROVE  Typed'
<1>1. CASE UNCHANGED vars
  BY <1>1 DEF vars, dbVars, coreVars, connVars, ghost, Typed, DbTyped, CoreTyped, ConnTyped, GhostTyped
<1>2. ASSUME NEW ch \in Chats, NEW r \in 0..MaxSeq, NEW w \in BOOLEAN, AppendEvent(ch, r, w)
      PROVE  Typed'
  <2>1. r \in Nat
    BY Numbers
  <2> QED
    BY <1>2, <2>1, AppendTypes
<1>3. ASSUME NEW ch \in Chats, Wake(ch) \/ CleanupRetention(ch)
      PROVE  Typed'
  BY <1>3, WakeTypes, CleanupTypes
<1>4. ASSUME NEW ch \in Chats, NEW k \in Conns, NEW a \in BOOLEAN,
             NEW h \in BOOLEAN, PutMember(ch, k, a, h)
      PROVE  Typed'
  BY <1>4, MemberTypes
<1>5. ASSUME NEW k \in Conns, DisconnectUser(k)
      PROVE  Typed'
  BY <1>5, EvictTypes
<1>6. CASE PollStart \/ PollApply \/ \E f \in BOOLEAN : PollRead(f)
  BY <1>6, PollTypes
<1>7. ASSUME NEW k \in Conns, Connect(k) \/ TakePending(k)
      PROVE  Typed'
  BY <1>7, OpenTypes
<1>8. ASSUME NEW k \in Conns, Disconnect(k) \/ CloseDone(k) \/ WriteFails(k)
      PROVE  Typed'
  <2>1. Closed(k) /\ UNCHANGED <<dbVars, owed, evict, known, poll>>
    BY <1>8 DEF Disconnect, CloseDone, WriteFails
  <2> QED
    BY <2>1, ClosedTypes
<1>9. ASSUME NEW k \in Conns, FlushStep(k) \/ EventsFails(k)
      PROVE  Typed'
  <2>1. st[k] = "flush"
    BY <1>9 DEF FlushStep, EventsRefused, EventsChecked, EventsNone, PageRefused, PageRead, WriteEvent,
                PageDone, EventsFails
  <2>2. fl[k].chat \in Chats /\ cursor[k][fl[k].chat] # NotSubscribed
    BY <2>1 DEF DeliveryInv, ConnInv, Flushing, Subscribed
  <2>3. CASE SyncError(k, fl[k].chat)
    BY <2>2, <2>3, SyncErrorTypes
  <2>4. CASE EventsChecked(k) \/ EventsNone(k)
    BY <2>2, <2>4, CheckTypes
  <2>5. CASE PageRead(k) \/ WriteEvent(k) \/ PageDone(k)
    BY <2>2, <2>5, PageReadTypes, WriteTypes, PageDoneTypes
  <2> QED
    BY <1>9, <2>3, <2>4, <2>5 DEF FlushStep, EventsRefused, PageRefused, EventsFails
<1>10. ASSUME NEW k \in Conns, NEW ch \in Chats, NEW a \in 0..(MaxSeq + 1), Subscribe(k, ch, a)
       PROVE  Typed'
  <2>1. a \in Nat
    BY Numbers
  <2> QED
    BY <1>10, <2>1, SubscribeTypes
<1>11. ASSUME NEW k \in Conns, NEW ch \in Chats, Unsubscribe(k, ch)
       PROVE  Typed'
  BY <1>11, UnsubscribeTypes
<1> QED
  BY <1>1, <1>2, <1>3, <1>4, <1>5, <1>6, <1>7, <1>8, <1>9, <1>10, <1>11 DEF Next

LEMMA InvStep ==
  ASSUME Typed, Typed', DeliveryInv, DeliveryAssumption, [Next]_vars
  PROVE  DeliveryInv'
<1>1. CASE UNCHANGED vars
  BY <1>1 DEF vars, dbVars, coreVars, connVars, ghost, DeliveryInv, Bounds, ConnInv, Registered, Flushing,
              Paging, Sending, Woken, Gapless, GaplessAt, Told, Behind, Subscribed, From
<1>2. ASSUME NEW ch \in Chats, NEW r \in 0..MaxSeq, NEW w \in BOOLEAN, AppendEvent(ch, r, w)
      PROVE  DeliveryInv'
  <2>1. r \in Nat
    BY Numbers
  <2> QED
    BY <1>2, <2>1, AppendStep
<1>3. ASSUME NEW ch \in Chats, Wake(ch) \/ CleanupRetention(ch)
      PROVE  DeliveryInv'
  BY <1>3, WakeStep, CleanupStep
<1>4. ASSUME NEW ch \in Chats, NEW k \in Conns, NEW a \in BOOLEAN,
             NEW h \in BOOLEAN, PutMember(ch, k, a, h)
      PROVE  DeliveryInv'
  BY <1>4, MemberStep
<1>5. ASSUME NEW k \in Conns, DisconnectUser(k)
      PROVE  DeliveryInv'
  BY <1>5, EvictStep
<1>6. CASE PollStart \/ PollApply \/ \E f \in BOOLEAN : PollRead(f)
  BY <1>6, PollStep
<1>7. ASSUME NEW k \in Conns, Connect(k) \/ TakePending(k)
      PROVE  DeliveryInv'
  BY <1>7, ConnectStep, TakePendingStep
<1>8. ASSUME NEW k \in Conns, Disconnect(k) \/ CloseDone(k) \/ WriteFails(k)
      PROVE  DeliveryInv'
  <2>1. Closed(k) /\ UNCHANGED <<dbVars, owed, evict, known, poll>>
    BY <1>8 DEF Disconnect, CloseDone, WriteFails
  <2> QED
    BY <2>1, ClosedStep
<1>9. ASSUME NEW k \in Conns, FlushStep(k) \/ EventsFails(k)
      PROVE  DeliveryInv'
  <2>1. CASE st[k] = "flush" /\ SyncError(k, fl[k].chat)
    BY <2>1, SyncErrorStep
  <2>2. CASE EventsChecked(k) \/ EventsNone(k)
    BY <2>2, CheckedStep, NoneStep
  <2>3. CASE PageRead(k) \/ WriteEvent(k) \/ PageDone(k)
    BY <2>3, ReadStep, WriteStep, DoneStep
  <2> QED
    BY <1>9, <2>1, <2>2, <2>3 DEF FlushStep, EventsRefused, PageRefused, EventsFails
<1>10. ASSUME NEW k \in Conns, NEW ch \in Chats, NEW a \in 0..(MaxSeq + 1), Subscribe(k, ch, a)
       PROVE  DeliveryInv'
  <2>1. a \in Nat
    BY Numbers
  <2> QED
    BY <1>10, <2>1, SubscribeStep
<1>11. ASSUME NEW k \in Conns, NEW ch \in Chats, Unsubscribe(k, ch)
       PROVE  DeliveryInv'
  BY <1>11, UnsubscribeStep
<1> QED
  BY <1>1, <1>2, <1>3, <1>4, <1>5, <1>6, <1>7, <1>8, <1>9, <1>10, <1>11 DEF Next

\* The state of the journal, the registry and the connections has its types.
THEOREM TypeOKHolds == Spec => []TypeOK
<1>1. Init => Typed /\ DeliveryInv
  BY DeliveryAssumption, TypeInit, InvInit
<1>2. Typed /\ DeliveryInv /\ [Next]_vars => (Typed /\ DeliveryInv)'
  BY DeliveryAssumption, TypeStep, InvStep
<1>3. Typed => TypeOK
  BY DEF Typed, DbTyped, CoreTyped, ConnTyped, GhostTyped, TypeOK, Flush, Poll
<1> QED
  BY <1>1, <1>2, <1>3, PTL DEF Spec

\* The invariant of delivery: what each connection still needs is remembered somewhere.
THEOREM DeliveryInvHolds == Spec => [](Typed /\ DeliveryInv)
<1>1. Init => Typed /\ DeliveryInv
  BY DeliveryAssumption, TypeInit, InvInit
<1>2. Typed /\ DeliveryInv /\ [Next]_vars => (Typed /\ DeliveryInv)'
  BY DeliveryAssumption, TypeStep, InvStep
<1> QED
  BY <1>1, <1>2, PTL DEF Spec

\* However notifications coalesce and whichever appenders stay silent, a subscribed
\* connection that is behind will look again.
THEOREM NoLostWakeHolds == Spec => []NoLostWake
<1>1. DeliveryInv => NoLostWake
  BY DEF DeliveryInv, ConnInv, Woken, Told, NoLostWake
<1> QED
  BY <1>1, DeliveryInvHolds, PTL

\* Pages and retries leave no hole between where a subscription began and its cursor.
THEOREM NothingSkippedHolds == Spec => []NothingSkipped
<1>1. DeliveryInv => NothingSkipped
  BY DEF DeliveryInv, ConnInv, Gapless, GaplessAt, NothingSkipped
<1> QED
  BY <1>1, DeliveryInvHolds, PTL

-----------------------------------------------------------------------------
(* What is sent.                                                           *)

\* The journal has one entry and one audience per event, and what an event shows is not
\* younger than the event.
Journal ==
  \A ch \in Chats :
    /\ Len(ref[ch]) = head[ch] /\ Len(audience[ch]) = head[ch]
    /\ \A n \in 1..head[ch] : ref[ch][n] \in 0..n

\* Who is a member now may know of every event from the join position on.
Members ==
  \A ch \in Chats, k \in Conns :
    active[ch][k] =>
      \A n \in 1..head[ch] : joined[ch][k] <= n => k \in audience[ch][n]

\* An event that is recorded, and whose content, if it has any, is for the connection.
Allowed(k, ch, n) ==
  /\ n \in 1..head[ch]
  /\ ref[ch][n] # 0 => k \in audience[ch][n] /\ k \in audience[ch][ref[ch][n]]

\* What a connection was sent, and what it has read and not yet sent, is for it.
Held ==
  \A k \in Conns, ch \in Chats :
    /\ \A n \in got[k][ch] : Allowed(k, ch, n)
    /\ fl[k].chat = ch => \A n \in fl[k].rows : Allowed(k, ch, n)

Seen ==
  \A k \in Conns, ch \in Chats :
    fl[k].chat = ch /\ fl[k].stage = "page" => fl[k].current <= head[ch]

AccessInv == Journal /\ Members /\ Held /\ Seen

LEMMA AccessInit == ASSUME Init, DeliveryAssumption PROVE AccessInv
<1>1. \A ch \in Chats : head[ch] = Old
  BY DEF Init
<1>2. Old \in Nat
  BY Numbers
<1>3. Journal
  <2>1. ASSUME NEW ch \in Chats
        PROVE  /\ Len(ref[ch]) = head[ch] /\ Len(audience[ch]) = head[ch]
               /\ \A n \in 1..head[ch] : ref[ch][n] \in 0..n
    <3>0. DOMAIN ref[ch] = 1..Old /\ DOMAIN audience[ch] = 1..Old
      BY DEF Init
    <3>t. ref[ch] \in Seq(Nat) /\ audience[ch] \in Seq(SUBSET Conns)
      BY TypeInit DEF Typed, DbTyped, GhostTyped
    <3>1. Len(ref[ch]) = Old
      BY <1>2, <3>0, <3>t
    <3>2. Len(audience[ch]) = Old
      BY <1>2, <3>0, <3>t
    <3>3. \A n \in 1..Old : ref[ch][n] = n
      BY DEF Init
    <3> QED
      BY <1>1, <1>2, <3>1, <3>2, <3>3
  <2> QED
    BY <2>1 DEF Journal
<1>4. Members
  <2>1. ASSUME NEW ch \in Chats, NEW k \in Conns, NEW n \in 1..head[ch], joined[ch][k] <= n
        PROVE  k \in audience[ch][n]
    <3>1. audience[ch][n] = {j \in Conns : joined[ch][j] <= n}
      BY <1>1, <2>1 DEF Init
    <3> QED
      BY <2>1, <3>1
  <2> QED
    BY <2>1 DEF Members
<1>5. \A k \in Conns : fl[k] = IdleFlush /\ \A ch \in Chats : got[k][ch] = {}
  BY DEF Init
<1>6. IdleFlush.rows = {} /\ IdleFlush.stage # "page"
  BY DEF IdleFlush
<1>7. Held
  BY <1>5, <1>6 DEF Held
<1>8. Seen
  BY <1>5, <1>6 DEF Seen
<1> QED
  BY <1>3, <1>4, <1>7, <1>8 DEF AccessInv

\* What the connections do leaves the journal and the members alone.
LEMMA AccessLocal ==
  ASSUME AccessInv, UNCHANGED <<head, ref, active, joined, audience>>,
         \A k \in Conns, ch \in Chats :
           /\ \A n \in got'[k][ch] : n \in got[k][ch] \/ Allowed(k, ch, n)
           /\ fl'[k].chat = ch => \A n \in fl'[k].rows : Allowed(k, ch, n)
           /\ (fl'[k].chat = ch /\ fl'[k].stage = "page") => fl'[k].current <= head[ch]
  PROVE  AccessInv'
<1>1. Journal'
  BY DEF AccessInv, Journal
<1>2. Members'
  BY DEF AccessInv, Members
<1>3. \A k, ch, n : Allowed(k, ch, n)' <=> Allowed(k, ch, n)
  BY DEF Allowed
<1>4. \A k \in Conns, ch \in Chats : \A n \in got'[k][ch] : Allowed(k, ch, n)
  BY DEF AccessInv, Held
<1>5. Held'
  BY <1>3, <1>4, Zenon DEF Held
<1>6. Seen'
  BY DEF Seen
<1> QED
  BY <1>1, <1>2, <1>5, <1>6 DEF AccessInv

\* The journal grows by one event; who could see an event still can.
LEMMA AccessGrows ==
  ASSUME Typed, Typed', DeliveryAssumption, AccessInv, NEW ch \in Chats,
         head' = [head EXCEPT ![ch] = @ + 1],
         \A c \in Chats : c # ch => ref'[c] = ref[c] /\ audience'[c] = audience[c],
         Len(ref'[ch]) = head[ch] + 1, Len(audience'[ch]) = head[ch] + 1,
         ref'[ch][head[ch] + 1] \in 0..(head[ch] + 1),
         \A n \in 1..head[ch] : ref'[ch][n] = ref[ch][n] /\ audience[ch][n] \subseteq audience'[ch][n],
         \A c \in Chats, k \in Conns :
           active'[c][k] => \A n \in 1..head'[c] : joined'[c][k] <= n => k \in audience'[c][n],
         UNCHANGED <<got, fl>>
  PROVE  AccessInv'
<1>0. \A c \in Chats : head[c] \in Nat
  BY ChatNumbers
<1>1. head'[ch] = head[ch] + 1 /\ \A c \in Chats : c # ch => head'[c] = head[c]
  BY DEF Typed, DbTyped
<1>2. Journal'
  <2>1. ASSUME NEW n \in 1..(head[ch] + 1)
        PROVE  ref'[ch][n] \in 0..n
    <3>1. CASE n \in 1..head[ch]
      BY <3>1 DEF AccessInv, Journal
    <3>2. CASE n = head[ch] + 1
      BY <3>2
    <3> QED
      BY <1>0, <3>1, <3>2
  <2>2. \A c \in Chats : c # ch => /\ Len(ref'[c]) = head'[c] /\ Len(audience'[c]) = head'[c]
                                   /\ \A n \in 1..head'[c] : ref'[c][n] \in 0..n
    BY <1>1 DEF AccessInv, Journal
  <2>3. /\ Len(ref'[ch]) = head'[ch] /\ Len(audience'[ch]) = head'[ch]
        /\ \A n \in 1..head'[ch] : ref'[ch][n] \in 0..n
    BY <1>1, <2>1
  <2>4. \A c \in Chats : /\ Len(ref'[c]) = head'[c] /\ Len(audience'[c]) = head'[c]
                         /\ \A n \in 1..head'[c] : ref'[c][n] \in 0..n
    BY <2>2, <2>3
  <2> QED
    BY <2>4 DEF Journal
<1>3. Members'
  BY DEF Members
<1>4. ASSUME NEW k \in Conns, NEW c \in Chats, NEW n, Allowed(k, c, n)
      PROVE  Allowed(k, c, n)'
  <2>1. CASE c # ch
    BY <1>1, <1>4, <2>1 DEF Allowed
  <2>2. CASE c = ch
    <3>1. n \in 1..head[ch] /\ ref'[ch][n] = ref[ch][n]
      BY <1>4, <2>2 DEF Allowed
    <3>2. ASSUME ref[ch][n] # 0
          PROVE  k \in audience'[ch][n] /\ k \in audience'[ch][ref[ch][n]]
      <4>1. k \in audience[ch][n] /\ k \in audience[ch][ref[ch][n]]
        BY <1>4, <2>2, <3>2 DEF Allowed
      <4>2. ref[ch][n] \in 1..head[ch]
        BY <1>0, <3>1, <3>2 DEF AccessInv, Journal
      <4> QED
        BY <3>1, <4>1, <4>2
    <3>3. n \in 1..head'[ch]
      BY <1>0, <1>1, <3>1
    <3> QED
      BY <2>2, <3>1, <3>2, <3>3 DEF Allowed
  <2> QED
    BY <2>1, <2>2
<1>5. Held'
  <2>1. \A k \in Conns, c \in Chats :
          /\ \A n \in got[k][c] : Allowed(k, c, n)'
          /\ fl[k].chat = c => \A n \in fl[k].rows : Allowed(k, c, n)'
    BY <1>4 DEF AccessInv, Held
  <2> QED
    BY <2>1 DEF Held
<1>6. Seen'
  <2>1. ASSUME NEW k \in Conns, NEW c \in Chats, fl[k].chat = c, fl[k].stage = "page"
        PROVE  fl[k].current <= head'[c]
    <3>1. fl[k].current <= head[c] /\ fl[k].current \in Nat
      BY <2>1, ConnNumbers DEF AccessInv, Seen
    <3> QED
      BY <1>0, <1>1, <3>1
  <2> QED
    BY <2>1 DEF Seen
<1> QED
  BY <1>2, <1>3, <1>5, <1>6 DEF AccessInv

LEMMA AccessAppend ==
  ASSUME Typed, Typed', DeliveryAssumption, AccessInv,
         NEW ch \in Chats, NEW r \in Nat, NEW w \in BOOLEAN, AppendEvent(ch, r, w)
  PROVE  AccessInv'
<1> DEFINE now == {k \in Conns : active[ch][k]}
<1>1. /\ head' = [head EXCEPT ![ch] = @ + 1] /\ ref' = [ref EXCEPT ![ch] = Append(@, r)]
      /\ audience' = [audience EXCEPT ![ch] = Append(@, now)] /\ r \in 0..(head[ch] + 1)
      /\ UNCHANGED <<active, joined, got, fl>>
  BY DEF AppendEvent, Refs, connVars, sent
<1>2. /\ ref[ch] \in Seq(Nat) /\ audience[ch] \in Seq(SUBSET Conns) /\ now \in SUBSET Conns
      /\ Len(ref[ch]) = head[ch] /\ Len(audience[ch]) = head[ch]
  BY DEF Typed, DbTyped, GhostTyped, AccessInv, Journal
<1> HIDE DEF now
<1>3. ref'[ch] = Append(ref[ch], r) /\ audience'[ch] = Append(audience[ch], now)
  BY <1>1 DEF Typed, DbTyped, GhostTyped
<1>4. \A c \in Chats : c # ch => /\ ref'[c] = ref[c] /\ audience'[c] = audience[c]
                                 /\ head'[c] = head[c]
  BY <1>1 DEF Typed, DbTyped, GhostTyped
<1>5. head'[ch] = head[ch] + 1 /\ head[ch] \in Nat
  BY <1>1, ChatNumbers DEF Typed, DbTyped
<1>6. /\ Len(ref'[ch]) = head[ch] + 1 /\ ref'[ch][head[ch] + 1] = r
      /\ \A n \in 1..head[ch] : ref'[ch][n] = ref[ch][n]
  BY <1>2, <1>3
<1>7. /\ Len(audience'[ch]) = head[ch] + 1 /\ audience'[ch][head[ch] + 1] = now
      /\ \A n \in 1..head[ch] : audience'[ch][n] = audience[ch][n]
  BY <1>2, <1>3
<1>8. ASSUME NEW c \in Chats, NEW k \in Conns, active'[c][k], NEW n \in 1..head'[c], joined'[c][k] <= n
      PROVE  k \in audience'[c][n]
  <2>1. active[c][k] /\ joined[c][k] <= n
    BY <1>1, <1>8
  <2>2. CASE c # ch
    BY <1>4, <2>1, <2>2 DEF AccessInv, Members
  <2>3. CASE c = ch /\ n \in 1..head[ch]
    BY <1>7, <2>1, <2>3 DEF AccessInv, Members
  <2>4. CASE c = ch /\ n = head[ch] + 1
    BY <1>7, <2>1, <2>4 DEF now
  <2> QED
    BY <1>5, <2>2, <2>3, <2>4
<1>9. \A n \in 1..head[ch] : ref'[ch][n] = ref[ch][n] /\ audience[ch][n] \subseteq audience'[ch][n]
  BY <1>6, <1>7
<1>10. ref'[ch][head[ch] + 1] \in 0..(head[ch] + 1)
  BY <1>1, <1>6
<1> QED
  BY <1>1, <1>4, <1>6, <1>7, <1>8, <1>9, <1>10, AccessGrows

LEMMA AccessMember ==
  ASSUME Typed, Typed', DeliveryAssumption, AccessInv, NEW ch \in Chats, NEW u \in Conns,
         NEW a \in BOOLEAN, NEW h \in BOOLEAN, PutMember(ch, u, a, h)
  PROVE  AccessInv'
<1> DEFINE granted == IF h /\ a THEN {u} ELSE {}
           older == [n \in DOMAIN audience[ch] |-> audience[ch][n] \cup granted]
           now == {c \in Conns : active'[ch][c]}
<1>1. /\ head' = [head EXCEPT ![ch] = @ + 1] /\ ref' = [ref EXCEPT ![ch] = Append(@, 0)]
      /\ active' = [active EXCEPT ![ch][u] = a]
      /\ joined' = [joined EXCEPT ![ch][u] = JoinedAfter(ch, u, a, h)]
      /\ UNCHANGED <<got, fl>>
  BY DEF PutMember, connVars, sent
<1>2. audience' = [audience EXCEPT ![ch] = Append(older, now)]
  BY DEF PutMember, Typed, GhostTyped
<1>3. /\ ref[ch] \in Seq(Nat) /\ audience[ch] \in Seq(SUBSET Conns) /\ now \in SUBSET Conns
      /\ Len(ref[ch]) = head[ch] /\ Len(audience[ch]) = head[ch]
      /\ granted \in SUBSET Conns
  BY DEF Typed, DbTyped, GhostTyped, AccessInv, Journal
<1>4. /\ older \in Seq(SUBSET Conns) /\ Len(older) = head[ch]
      /\ \A n \in 1..head[ch] : older[n] = audience[ch][n] \cup granted
  BY <1>3
<1>n. \A c \in Conns : c \in now <=> active'[ch][c]
  OBVIOUS
<1>g. h /\ a => u \in granted
  OBVIOUS
<1> HIDE DEF now, older, granted
<1>5. ref'[ch] = Append(ref[ch], 0) /\ audience'[ch] = Append(older, now)
  BY <1>1, <1>2 DEF Typed, DbTyped, GhostTyped
<1>6. \A c \in Chats : c # ch => /\ ref'[c] = ref[c] /\ audience'[c] = audience[c]
                                 /\ head'[c] = head[c] /\ active'[c] = active[c]
                                 /\ joined'[c] = joined[c]
  BY <1>1, <1>2 DEF Typed, DbTyped, GhostTyped
<1>7. head'[ch] = head[ch] + 1 /\ head[ch] \in Nat
  BY <1>1, ChatNumbers DEF Typed, DbTyped
<1>8. /\ Len(ref'[ch]) = head[ch] + 1 /\ ref'[ch][head[ch] + 1] = 0
      /\ \A n \in 1..head[ch] : ref'[ch][n] = ref[ch][n]
  BY <1>3, <1>5
<1>9. /\ Len(audience'[ch]) = head[ch] + 1 /\ audience'[ch][head[ch] + 1] = now
      /\ \A n \in 1..head[ch] : audience'[ch][n] = audience[ch][n] \cup granted
  BY <1>3, <1>4, <1>5, <1>7
<1>10. \A k \in Conns : k # u => active'[ch][k] = active[ch][k] /\ joined'[ch][k] = joined[ch][k]
  BY <1>1 DEF Typed, DbTyped
<1>11. active'[ch][u] = a /\ joined'[ch][u] = JoinedAfter(ch, u, a, h)
  BY <1>1 DEF Typed, DbTyped
<1>12. ASSUME NEW c \in Chats, NEW k \in Conns, active'[c][k], NEW n \in 1..head'[c], joined'[c][k] <= n
       PROVE  k \in audience'[c][n]
  <2>1. CASE c # ch
    BY <1>6, <1>12, <2>1 DEF AccessInv, Members
  <2>2. CASE c = ch /\ n = head[ch] + 1
    BY <1>9, <1>12, <1>n, <2>2
  <2>3. CASE c = ch /\ n \in 1..head[ch] /\ k # u
    <3>1. active[ch][k] /\ joined[ch][k] <= n
      BY <1>10, <1>12, <2>3
    <3>2. k \in audience[ch][n]
      BY <2>3, <3>1 DEF AccessInv, Members
    <3> QED
      BY <1>9, <2>3, <3>2
  <2>4. CASE c = ch /\ n \in 1..head[ch] /\ k = u
    <3>1. a /\ JoinedAfter(ch, u, a, h) <= n
      BY <1>11, <1>12, <2>4
    <3>2. CASE h
      BY <1>9, <1>g, <2>4, <3>1, <3>2
    <3>3. CASE ~h /\ active[ch][u]
      <4>1. joined[ch][u] <= n
        BY <3>1, <3>3 DEF JoinedAfter
      <4>2. u \in audience[ch][n]
        BY <2>4, <3>3, <4>1 DEF AccessInv, Members
      <4> QED
        BY <1>9, <2>4, <4>2
    <3>4. CASE ~h /\ ~active[ch][u]
      <4>1. head[ch] + 1 <= n
        BY <3>1, <3>4 DEF JoinedAfter
      <4> QED
        BY <1>7, <2>4, <4>1
    <3> QED
      BY <3>2, <3>3, <3>4
  <2>5. c = ch => n \in 1..head[ch] \/ n = head[ch] + 1
    BY <1>7
  <2> QED
    BY <2>1, <2>2, <2>3, <2>4, <2>5
<1>13. \A n \in 1..head[ch] : ref'[ch][n] = ref[ch][n] /\ audience[ch][n] \subseteq audience'[ch][n]
  BY <1>8, <1>9
<1>14. ref'[ch][head[ch] + 1] \in 0..(head[ch] + 1)
  BY <1>7, <1>8
<1> QED
  BY <1>1, <1>6, <1>8, <1>9, <1>12, <1>13, <1>14, AccessGrows

\* A page that Readable lets through is for the connection: it begins behind the join
\* position, and what it shows is not older.
LEMMA AccessRead ==
  ASSUME Typed, Typed', DeliveryAssumption, DeliveryInv, AccessInv, NEW k \in Conns, PageRead(k)
  PROVE  AccessInv'
<1>1. st[k] = "flush" /\ fl[k].stage = "page" /\ (PageOf(k) = {} \/ Readable(k, PageOf(k)))
  BY DEF PageRead
<1>2. PICK c \in Chats : c = fl[k].chat
  BY <1>1 DEF DeliveryInv, ConnInv, Flushing
<1> DEFINE P == PageOf(k)
           full == (Cardinality(P) >= PageLimit)
           next == [IdleFlush EXCEPT !.chat = fl[k].chat, !.page = fl[k].page, !.stage = "send",
                                     !.rows = P, !.full = full]
<1>3. /\ fl' = [fl EXCEPT ![k] = next]
      /\ UNCHANGED <<head, ref, active, joined, audience, got>>
  BY DEF PageRead, dbVars, ghost
<1>4. next.chat = c /\ next.stage = "send" /\ next.rows = P
  BY <1>2, RecordTypes DEF Flush
<1>5. P \in SUBSET Nat /\ P \in SUBSET RowsOf(k)
  BY <1>2, PageFacts
<1> HIDE DEF P, full, next
<1>6. /\ fl'[k].chat = c /\ fl'[k].stage = "send" /\ fl'[k].rows = P
      /\ \A j \in Conns : j # k => fl'[j] = fl[j]
  BY <1>3, <1>4 DEF Typed, ConnTyped
<1>7. /\ head[c] \in Nat /\ low[c] \in Nat /\ joined[c][k] \in Nat /\ fl[k].current \in Nat
      /\ fl[k].current <= head[c]
  BY <1>1, <1>2, ChatNumbers, ConnNumbers DEF AccessInv, Seen
<1>8. ASSUME NEW n \in P
      PROVE  Allowed(k, c, n)
  <2>1. n \in Nat /\ n \in (low[c] + 1)..Top(k)
    BY <1>2, <1>5 DEF RowsOf
  <2>2. Top(k) \in Nat /\ Top(k) <= head[c]
    BY <1>2, <1>7 DEF Top
  <2>3. n \in 1..head[c]
    BY <1>7, <2>1, <2>2
  <2>4. active[c][k] /\ (ref[c][n] # 0 => ref[c][n] >= joined[c][k])
    BY <1>1, <1>2 DEF Readable, P
  <2>5. ref[c][n] \in 0..n
    BY <2>3 DEF AccessInv, Journal
  <2>6. ASSUME ref[c][n] # 0
        PROVE  k \in audience[c][n] /\ k \in audience[c][ref[c][n]]
    <3>1. joined[c][k] <= n /\ joined[c][k] <= ref[c][n] /\ ref[c][n] \in 1..head[c]
      BY <1>7, <2>3, <2>4, <2>5, <2>6
    <3> QED
      BY <2>3, <2>4, <3>1 DEF AccessInv, Members
  <2> QED
    BY <2>3, <2>6 DEF Allowed
<1>9. ASSUME NEW j \in Conns, NEW ch \in Chats
      PROVE  /\ \A n \in got'[j][ch] : n \in got[j][ch] \/ Allowed(j, ch, n)
             /\ fl'[j].chat = ch => \A n \in fl'[j].rows : Allowed(j, ch, n)
             /\ (fl'[j].chat = ch /\ fl'[j].stage = "page") => fl'[j].current <= head[ch]
  <2>1. \A n \in got'[j][ch] : n \in got[j][ch]
    BY <1>3
  <2>2. CASE j = k
    BY <1>6, <1>8, <2>1, <2>2
  <2>3. CASE j # k
    BY <1>6, <2>1, <2>3 DEF AccessInv, Held, Seen
  <2> QED
    BY <2>2, <2>3
<1> QED
  BY <1>3, <1>9, AccessLocal

LEMMA AccessWrite ==
  ASSUME Typed, Typed', DeliveryAssumption, DeliveryInv, AccessInv, NEW k \in Conns, WriteEvent(k)
  PROVE  AccessInv'
<1>1. PICK c \in Chats : c = fl[k].chat
  BY DEF DeliveryInv, ConnInv, Flushing, WriteEvent
<1>2. PICK n \in fl[k].rows :
        /\ fl'[k].rows = fl[k].rows \ {n}
        /\ fl'[k].chat = c /\ fl'[k].stage = "send"
        /\ got' = [got EXCEPT ![k][c] = @ \cup {n}]
        /\ \A j \in Conns : j # k => fl'[j] = fl[j]
  BY <1>1, Written
<1>3. UNCHANGED <<head, ref, active, joined, audience>>
  BY DEF WriteEvent, dbVars
<1>4. \A m \in fl[k].rows : Allowed(k, c, m)
  BY <1>1 DEF AccessInv, Held
<1>5. /\ got'[k][c] = got[k][c] \cup {n}
      /\ \A ch \in Chats : ch # c => got'[k][ch] = got[k][ch]
      /\ \A j \in Conns : j # k => got'[j] = got[j]
  BY <1>2 DEF Typed, GhostTyped
<1>6. ASSUME NEW j \in Conns, NEW ch \in Chats
      PROVE  /\ \A m \in got'[j][ch] : m \in got[j][ch] \/ Allowed(j, ch, m)
             /\ fl'[j].chat = ch => \A m \in fl'[j].rows : Allowed(j, ch, m)
             /\ (fl'[j].chat = ch /\ fl'[j].stage = "page") => fl'[j].current <= head[ch]
  <2>1. CASE j = k
    <3>1. \A m \in got'[k][ch] : m \in got[k][ch] \/ Allowed(k, ch, m)
      BY <1>4, <1>5
    <3>2. fl'[k].chat = ch => \A m \in fl'[k].rows : Allowed(k, ch, m)
      BY <1>2, <1>4
    <3> QED
      BY <1>2, <2>1, <3>1, <3>2
  <2>2. CASE j # k
    BY <1>2, <1>5, <2>2 DEF AccessInv, Held, Seen
  <2> QED
    BY <2>1, <2>2
<1> QED
  BY <1>3, <1>6, AccessLocal

\* The other steps of a connection send and read nothing.
LEMMA AccessQuiet ==
  ASSUME Typed, Typed', DeliveryAssumption, AccessInv, NEW k \in Conns,
         UNCHANGED <<head, ref, active, joined, audience>>,
         \A j \in Conns : j # k => got'[j] = got[j] /\ fl'[j] = fl[j],
         \A ch \in Chats : got'[k][ch] \subseteq got[k][ch],
         \/ fl'[k] = fl[k]
         \/ /\ fl'[k].rows \subseteq fl[k].rows /\ fl'[k].chat = fl[k].chat
            /\ fl'[k].current = head[fl[k].chat]
         \/ fl'[k].rows = {} /\ fl'[k].stage # "page"
  PROVE  AccessInv'
<1>1. \A ch \in Chats : head[ch] \in Nat
  BY ChatNumbers
<1>2. ASSUME NEW j \in Conns, NEW ch \in Chats
      PROVE  /\ \A m \in got'[j][ch] : m \in got[j][ch] \/ Allowed(j, ch, m)
             /\ fl'[j].chat = ch => \A m \in fl'[j].rows : Allowed(j, ch, m)
             /\ (fl'[j].chat = ch /\ fl'[j].stage = "page") => fl'[j].current <= head[ch]
  <2>1. CASE j # k \/ fl'[k] = fl[k]
    BY <2>1 DEF AccessInv, Held, Seen
  <2>2. CASE j = k /\ fl'[k].rows = {} /\ fl'[k].stage # "page"
    BY <2>2
  <2>3. CASE /\ j = k /\ fl'[k].rows \subseteq fl[k].rows /\ fl'[k].chat = fl[k].chat
             /\ fl'[k].current = head[fl[k].chat]
    BY <1>1, <2>3 DEF AccessInv, Held
  <2> QED
    BY <2>1, <2>2, <2>3
<1> QED
  BY <1>2, AccessLocal

\* The flush that follows the end of one, of a connection or of a subscription is empty.
LEMMA EmptyFlush ==
  /\ IdleFlush.rows = {} /\ IdleFlush.stage # "page"
  /\ \A ch, pg : /\ StartFlush(ch).rows = {} /\ StartFlush(ch).stage # "page"
                 /\ [StartFlush(ch) EXCEPT !.page = pg].rows = {}
                 /\ [StartFlush(ch) EXCEPT !.page = pg].stage # "page"
BY DEF IdleFlush, StartFlush

LEMMA EndFlushEmpty ==
  ASSUME Typed, NEW k \in Conns, EndFlush(k)
  PROVE  /\ fl'[k].rows = {} /\ fl'[k].stage # "page"
         /\ \A j \in Conns : j # k => fl'[j] = fl[j]
<1>1. PICK f : fl' = [fl EXCEPT ![k] = f] /\ (f = IdleFlush \/ \E ch \in todo[k] : f = StartFlush(ch))
  BY DEF EndFlush
<1>2. f.rows = {} /\ f.stage # "page"
  BY <1>1, EmptyFlush
<1> QED
  BY <1>1, <1>2 DEF Typed, ConnTyped

LEMMA AccessStep ==
  ASSUME Typed, Typed', DeliveryAssumption, DeliveryInv, AccessInv, [Next]_vars
  PROVE  AccessInv'
<1> DEFINE Quiet(k) ==
      /\ UNCHANGED <<head, ref, active, joined, audience>>
      /\ \A j \in Conns : j # k => got'[j] = got[j] /\ fl'[j] = fl[j]
      /\ \A ch \in Chats : got'[k][ch] \subseteq got[k][ch]
      /\ \/ fl'[k] = fl[k]
         \/ /\ fl'[k].rows \subseteq fl[k].rows /\ fl'[k].chat = fl[k].chat
            /\ fl'[k].current = head[fl[k].chat]
         \/ fl'[k].rows = {} /\ fl'[k].stage # "page"
<1>q. ASSUME NEW k \in Conns, Quiet(k)
      PROVE  AccessInv'
  BY <1>q, AccessQuiet
<1>u. ASSUME UNCHANGED <<head, ref, active, joined, audience, got, fl>>
      PROVE  AccessInv'
  <2>1. \A k \in Conns, ch \in Chats :
          /\ \A n \in got'[k][ch] : n \in got[k][ch] \/ Allowed(k, ch, n)
          /\ fl'[k].chat = ch => \A n \in fl'[k].rows : Allowed(k, ch, n)
          /\ (fl'[k].chat = ch /\ fl'[k].stage = "page") => fl'[k].current <= head[ch]
    BY <1>u DEF AccessInv, Held, Seen
  <2> QED
    BY <1>u, <2>1, AccessLocal
<1>1. CASE UNCHANGED vars
  BY <1>1, <1>u DEF vars, dbVars, connVars, ghost
<1>2. ASSUME NEW ch \in Chats, NEW r \in 0..MaxSeq, NEW w \in BOOLEAN, AppendEvent(ch, r, w)
      PROVE  AccessInv'
  <2>1. r \in Nat
    BY Numbers
  <2> QED
    BY <1>2, <2>1, AccessAppend
<1>3. ASSUME NEW ch \in Chats, Wake(ch) \/ CleanupRetention(ch)
      PROVE  AccessInv'
  <2>1. UNCHANGED <<head, ref, active, joined, audience, got, fl>>
    BY <1>3 DEF Wake, CleanupRetention, dbVars, coreVars, connVars, ghost
  <2> QED
    BY <1>u, <2>1
<1>4. ASSUME NEW ch \in Chats, NEW k \in Conns, NEW a \in BOOLEAN,
             NEW h \in BOOLEAN, PutMember(ch, k, a, h)
      PROVE  AccessInv'
  BY <1>4, AccessMember
<1>5. ASSUME NEW k \in Conns, DisconnectUser(k)
      PROVE  AccessInv'
  <2>1. UNCHANGED <<head, ref, active, joined, audience, got, fl>>
    BY <1>5 DEF DisconnectUser, dbVars, ghost
  <2> QED
    BY <1>u, <2>1
<1>6. CASE PollStart \/ PollApply \/ \E f \in BOOLEAN : PollRead(f)
  <2>1. UNCHANGED <<head, ref, active, joined, audience, got, fl>>
    BY <1>6 DEF PollStart, PollApply, PollRead, dbVars, connVars, ghost
  <2> QED
    BY <1>u, <2>1
<1>7. ASSUME NEW k \in Conns, Connect(k)
      PROVE  AccessInv'
  <2>1. UNCHANGED <<head, ref, active, joined, audience, got, fl>>
    BY <1>7 DEF Connect, dbVars, ghost
  <2> QED
    BY <1>u, <2>1
<1>8. ASSUME NEW k \in Conns, TakePending(k)
      PROVE  AccessInv'
  <2>1. UNCHANGED <<head, ref, active, joined, audience, got>>
    BY <1>8 DEF TakePending, dbVars, ghost
  <2>2. CASE UNCHANGED fl
    BY <1>u, <2>1, <2>2
  <2>3. ASSUME NEW c \in Flushable(k, pend[k]), fl' = [fl EXCEPT ![k] = StartFlush(c)]
        PROVE  AccessInv'
    <3>1. /\ fl'[k].rows = {} /\ fl'[k].stage # "page"
          /\ \A j \in Conns : j # k => fl'[j] = fl[j]
      BY <2>3, EmptyFlush DEF Typed, ConnTyped
    <3>2. Quiet(k)
      BY <2>1, <3>1
    <3> QED
      BY <1>q, <3>2
  <2> QED
    BY <1>8, <2>2, <2>3 DEF TakePending
<1>9. ASSUME NEW k \in Conns, Disconnect(k) \/ CloseDone(k) \/ WriteFails(k)
      PROVE  AccessInv'
  <2>1. Closed(k) /\ UNCHANGED <<head, ref, active, joined>>
    BY <1>9 DEF Disconnect, CloseDone, WriteFails, dbVars
  <2>2. /\ fl'[k] = IdleFlush /\ got'[k] = [ch \in Chats |-> {}] /\ UNCHANGED audience
        /\ \A j \in Conns : j # k => fl'[j] = fl[j] /\ got'[j] = got[j]
    BY <2>1 DEF Closed, Typed, ConnTyped, GhostTyped
  <2>3. Quiet(k)
    BY <2>1, <2>2, EmptyFlush
  <2> QED
    BY <1>q, <2>3
<1>10. ASSUME NEW k \in Conns, NEW c \in Chats, SyncError(k, c)
       PROVE  AccessInv'
  <2>1. /\ Drop(k, c) /\ EndFlush(k) /\ UNCHANGED <<head, ref, active, joined>>
    BY <1>10 DEF SyncError, dbVars
  <2>2. UNCHANGED audience /\ got' = [got EXCEPT ![k][c] = {}]
    BY <2>1 DEF Drop
  <2>3. /\ \A ch \in Chats : got'[k][ch] \subseteq got[k][ch]
        /\ \A j \in Conns : j # k => got'[j] = got[j]
    BY <2>2 DEF Typed, GhostTyped
  <2>4. Quiet(k)
    BY <2>1, <2>2, <2>3, EndFlushEmpty
  <2> QED
    BY <1>q, <2>4
<1>11. ASSUME NEW k \in Conns, FlushStep(k) \/ EventsFails(k)
       PROVE  AccessInv'
  <2>1. st[k] = "flush"
    BY <1>11 DEF FlushStep, EventsRefused, EventsChecked, EventsNone, PageRefused, PageRead, WriteEvent,
                 PageDone, EventsFails
  <2>2. PICK c \in Chats : c = fl[k].chat
    BY <2>1 DEF DeliveryInv, ConnInv, Flushing
  <2>3. CASE SyncError(k, c)
    BY <1>10, <2>3
  <2>4. CASE EventsChecked(k)
    <3>1. /\ fl' = [fl EXCEPT ![k].stage = "page", ![k].after = From(k, c), ![k].current = head[c]]
          /\ UNCHANGED <<head, ref, active, joined, audience, got>>
      BY <2>2, <2>4 DEF EventsChecked, dbVars
    <3>2. fl \in [Conns -> Flush] /\ fl[k] \in Flush
      BY DEF Typed, ConnTyped
    <3>3. /\ fl'[k].rows = fl[k].rows /\ fl'[k].chat = fl[k].chat /\ fl'[k].current = head[c]
          /\ \A j \in Conns : j # k => fl'[j] = fl[j]
      BY <3>1, <3>2 DEF Flush
    <3>4. Quiet(k)
      BY <2>2, <3>1, <3>3
    <3> QED
      BY <1>q, <3>4
  <2>5. CASE EventsNone(k)
    <3>1. EndFlush(k) /\ UNCHANGED <<head, ref, active, joined, audience, got>>
      BY <2>5 DEF EventsNone, dbVars, ghost
    <3>2. Quiet(k)
      BY <3>1, EndFlushEmpty
    <3> QED
      BY <1>q, <3>2
  <2>6. CASE PageRead(k)
    BY <2>6, AccessRead
  <2>7. CASE WriteEvent(k)
    BY <2>7, AccessWrite
  <2>8. CASE PageDone(k)
    <3>1. UNCHANGED <<head, ref, active, joined, audience, got>>
      BY <2>8 DEF PageDone, dbVars, ghost
    <3>2. CASE EndFlush(k)
      <4>1. Quiet(k)
        BY <3>1, <3>2, EndFlushEmpty
      <4> QED
        BY <1>q, <4>1
    <3>3. CASE fl' = [fl EXCEPT ![k] = [StartFlush(c) EXCEPT !.page = fl[k].page + 1]]
      <4>1. /\ fl'[k].rows = {} /\ fl'[k].stage # "page"
            /\ \A j \in Conns : j # k => fl'[j] = fl[j]
        BY <3>3, EmptyFlush DEF Typed, ConnTyped
      <4>2. Quiet(k)
        BY <3>1, <4>1
      <4> QED
        BY <1>q, <4>2
    <3> QED
      BY <2>2, <2>8, <3>2, <3>3 DEF PageDone
  <2> QED
    BY <1>11, <2>2, <2>3, <2>4, <2>5, <2>6, <2>7, <2>8
    DEF FlushStep, EventsRefused, PageRefused, EventsFails
<1>12. ASSUME NEW k \in Conns, NEW c \in Chats, NEW a \in 0..(MaxSeq + 1), Subscribe(k, c, a)
       PROVE  AccessInv'
  <2>1. /\ fl' = [fl EXCEPT ![k] = StartFlush(c)] /\ got' = [got EXCEPT ![k][c] = {}]
        /\ UNCHANGED <<head, ref, active, joined, audience>>
    BY <1>12 DEF Subscribe, dbVars
  <2>2. /\ fl'[k].rows = {} /\ fl'[k].stage # "page"
        /\ \A j \in Conns : j # k => fl'[j] = fl[j]
    BY <2>1, EmptyFlush DEF Typed, ConnTyped
  <2>3. /\ \A ch \in Chats : got'[k][ch] \subseteq got[k][ch]
        /\ \A j \in Conns : j # k => got'[j] = got[j]
    BY <2>1 DEF Typed, GhostTyped
  <2>4. Quiet(k)
    BY <2>1, <2>2, <2>3
  <2> QED
    BY <1>q, <2>4
<1>13. ASSUME NEW k \in Conns, NEW c \in Chats, Unsubscribe(k, c)
       PROVE  AccessInv'
  <2>1. /\ got' = [got EXCEPT ![k][c] = {}]
        /\ UNCHANGED <<head, ref, active, joined, audience, fl>>
    BY <1>13 DEF Unsubscribe, Drop, dbVars
  <2>2. /\ \A ch \in Chats : got'[k][ch] \subseteq got[k][ch]
        /\ \A j \in Conns : j # k => got'[j] = got[j]
    BY <2>1 DEF Typed, GhostTyped
  <2>3. Quiet(k)
    BY <2>1, <2>2
  <2> QED
    BY <1>q, <2>3
<1> QED
  BY <1>1, <1>2, <1>3, <1>4, <1>5, <1>6, <1>7, <1>8, <1>9, <1>11, <1>12, <1>13 DEF Next

\* Removals and returns between the two reads of a page, and while it is written, send no
\* connection what its user could not know of.
THEOREM OnlyEntitledHolds == Spec => []OnlyEntitled
<1>1. Init => Typed /\ DeliveryInv /\ AccessInv
  BY DeliveryAssumption, TypeInit, InvInit, AccessInit
<1>2. Typed /\ DeliveryInv /\ AccessInv /\ [Next]_vars => (Typed /\ DeliveryInv /\ AccessInv)'
  BY DeliveryAssumption, TypeStep, InvStep, AccessStep
<1>3. AccessInv => OnlyEntitled
  BY DEF AccessInv, Held, Allowed, OnlyEntitled
<1> QED
  BY <1>1, <1>2, <1>3, PTL DEF Spec

=============================================================================
