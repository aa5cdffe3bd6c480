------------------------------ MODULE MLSProofs ------------------------------
(***************************************************************************)
(* Proofs about MLS, for every value of its constants.                     *)
(***************************************************************************)
EXTENDS MLS, FiniteSetTheorems, WellFoundedInduction, TLAPS

-----------------------------------------------------------------------------
(* Types.                                                                  *)

Statuses   == {"none", "out", "muted", "sender"}
Transition == [dev : Devices, epoch : Nat, confirmed : BOOLEAN, tree : SUBSET Devices]
WelcomeRow == [dev : Devices, epoch : Nat, pkg : Packages]
PackageRow == [state : {"absent", "free", "claimed"}, chat : SUBSET Chats, used : BOOLEAN]
Groups     == (SUBSET Devices) \ {{}}
Message    == [chat : Chats, dev : Devices, epoch : Nat]

Typed ==
  /\ member \in [Chats -> [Users -> Statuses]]
  /\ disabled \subseteq Users /\ revoked \subseteq Devices /\ pending \subseteq Chats
  /\ rosters \in [Chats -> Seq(Groups)]
  /\ trans \in [Chats -> Seq(Transition)]
  /\ packages \in [Packages -> PackageRow]
  /\ welcomes \in [Chats -> Seq(WelcomeRow)]
  /\ claiming \subseteq Chats \X Devices
  /\ prepared \subseteq Message /\ sent \subseteq Message
  /\ cursor \in [Chats -> [Devices -> [Kinds -> Nat]]]
  /\ got \in [Chats -> [Devices -> [Kinds -> SUBSET Nat]]]

\* A non-empty set of naturals has a least element.
LEMMA LeastExists ==
  ASSUME NEW S \in SUBSET Nat, S # {}
  PROVE  \E x \in S : \A y \in S : x <= y
<1>1. PICK x \in S : \A y \in S : <<y, x>> \notin OpToRel(<, Nat)
  BY WFMin, NatLessThanWellFounded
<1>2. ASSUME NEW y \in S PROVE x <= y
  <2>1. y \in Nat /\ x \in Nat
    OBVIOUS
  <2>2. <<y, x>> \notin {ss \in Nat \X Nat : ss[1] < ss[2]}
    BY <1>1, Zenon DEF OpToRel
  <2> QED BY <2>1, <2>2
<1> QED BY <1>2

\* A bounded one has a greatest element.
LEMMA GreatestExists ==
  ASSUME NEW S \in SUBSET Nat, S # {}, NEW n \in Nat, \A x \in S : x <= n
  PROVE  Max(S) \in S /\ \A y \in S : y <= Max(S)
<1> DEFINE T == {n - x : x \in S}
<1>1. T \in SUBSET Nat /\ T # {}
  <2>1. PICK x \in S : TRUE
    OBVIOUS
  <2>2. n - x \in T
    BY <2>1
  <2>3. ASSUME NEW x1 \in S PROVE n - x1 \in Nat
    OBVIOUS
  <2> QED BY <2>2, <2>3
<1>2. PICK t \in T : \A u \in T : t <= u
  BY <1>1, LeastExists
<1>3. PICK x \in S : t = n - x
  BY <1>2
<1>4. ASSUME NEW y \in S PROVE x >= y
  <2>1. t <= n - y
    BY <1>2
  <2> QED BY <1>3, <2>1
<1> QED BY <1>4 DEF Max

\* The initial state is well typed.
LEMMA InitTyped == Init => Typed
  BY MLSAssumption
  DEF Init, Typed, Statuses, PackageRow, NoPackage, Transition, WelcomeRow

\* The package that claimMLSKeyPackage takes is an unclaimed one.
LEMMA LeastUnclaimed ==
  ASSUME NEW d, Unclaimed(d) # {}
  PROVE  (CHOOSE p \in Unclaimed(d) : \A q \in Unclaimed(d) : p <= q) \in Unclaimed(d)
<1>1. Unclaimed(d) \in SUBSET Nat
  BY MLSAssumption DEF Unclaimed
<1>2. \E p \in Unclaimed(d) : \A q \in Unclaimed(d) : p <= q
  BY <1>1, LeastExists
<1> QED BY <1>2

\* The epoch of a chat counts its rosters.
LEMMA EpochNat ==
  ASSUME Typed, NEW c \in Chats
  PROVE  /\ Epoch(c) \in Int /\ Epoch(c) + 1 = Len(rosters[c])
         /\ HasGroup(c) <=> Epoch(c) \in Nat
         /\ HasGroup(c) => Roster(c) = rosters[c][Len(rosters[c])] /\ Roster(c) \in SUBSET Devices
         /\ ~HasGroup(c) => Roster(c) = {}
  BY DEF Typed, Epoch, HasGroup, Roster, Last, Groups

\* The rows that submitMLSCommit adds to mls_controls.
NewWelcomes(c, kps) ==
  [i \in DOMAIN kps |-> [dev |-> PackageOf[kps[i]], epoch |-> Epoch(c) + 1, pkg |-> kps[i]]]

\* A commit makes one Welcome for each package it claims.
LEMMA NewWelcomesTyped ==
  ASSUME NEW c \in Chats, Epoch(c) \in Nat, NEW n \in Nat, NEW kps \in [1..n -> Packages]
  PROVE  /\ NewWelcomes(c, kps) \in Seq(WelcomeRow) /\ Len(NewWelcomes(c, kps)) = n
         /\ \A i \in 1..n : NewWelcomes(c, kps)[i] = [dev |-> PackageOf[kps[i]], epoch |-> Epoch(c) + 1, pkg |-> kps[i]]
<1> DEFINE ws == NewWelcomes(c, kps)
<1>1. DOMAIN ws = 1..n /\ ws = [i \in 1..n |-> ws[i]]
  BY DEF NewWelcomes
<1>2. ASSUME NEW i \in 1..n PROVE ws[i] \in WelcomeRow
  <2>1. kps[i] \in Packages /\ PackageOf[kps[i]] \in Devices
    BY MLSAssumption
  <2> QED BY <2>1 DEF WelcomeRow, NewWelcomes
<1>3. \A i \in 1..n : ws[i] = [dev |-> PackageOf[kps[i]], epoch |-> Epoch(c) + 1, pkg |-> kps[i]]
  BY DEF NewWelcomes
<1> HIDE DEF ws
<1>4. ws \in Seq(WelcomeRow) /\ Len(ws) = n
  BY <1>1, <1>2
<1> QED BY <1>3, <1>4 DEF ws

\* The table after a commit: the old rows stay, and every other one is the
\* commit's own.
AddedRow(c, kps, i, w) ==
  /\ i \in Nat /\ i > Len(welcomes[c]) /\ i - Len(welcomes[c]) \in DOMAIN kps
  /\ w.pkg = kps[i - Len(welcomes[c])] /\ w.dev = PackageOf[w.pkg] /\ w.epoch = Epoch(c) + 1

\* A commit keeps all Welcomes and adds its own behind them.
LEMMA WelcomeRows ==
  ASSUME Typed, NEW c \in Chats, Epoch(c) \in Nat, NEW d, NEW out, NEW n \in Nat,
         NEW kps \in [1..n -> Packages], SubmitCommit(c, d, out, kps)
  PROVE  /\ welcomes' \in [Chats -> Seq(WelcomeRow)]
         /\ \A e \in Chats : \A i \in DOMAIN welcomes[e] :
              i \in DOMAIN welcomes'[e] /\ welcomes'[e][i] = welcomes[e][i]
         /\ \A e \in Chats : \A i \in DOMAIN welcomes'[e] :
              \/ i \in DOMAIN welcomes[e]
              \/ e = c /\ AddedRow(c, kps, i, welcomes'[e][i])
<1> DEFINE ws == NewWelcomes(c, kps)
           old == Len(welcomes[c])
<1>1. /\ ws \in Seq(WelcomeRow) /\ Len(ws) = n
      /\ \A i \in 1..n : ws[i] = [dev |-> PackageOf[kps[i]], epoch |-> Epoch(c) + 1, pkg |-> kps[i]]
  BY NewWelcomesTyped
<1>2. welcomes' = [welcomes EXCEPT ![c] = welcomes[c] \o ws]
  BY DEF SubmitCommit, NewWelcomes
<1> HIDE DEF ws
<1>3. welcomes[c] \in Seq(WelcomeRow) /\ old \in Nat /\ DOMAIN welcomes[c] = 1..old
  BY DEF Typed
<1>4. /\ welcomes[c] \o ws \in Seq(WelcomeRow)
      /\ DOMAIN (welcomes[c] \o ws) = 1..(old + n)
      /\ \A i \in 1..old : (welcomes[c] \o ws)[i] = welcomes[c][i]
      /\ \A i \in (old + 1)..(old + n) : (welcomes[c] \o ws)[i] = ws[i - old]
  <2>1. ASSUME NEW s \in Seq(WelcomeRow), NEW t \in Seq(WelcomeRow)
        PROVE  /\ s \o t \in Seq(WelcomeRow) /\ Len(s \o t) = Len(s) + Len(t)
               /\ \A i \in 1..Len(s) : (s \o t)[i] = s[i]
               /\ \A i \in (Len(s) + 1)..(Len(s) + Len(t)) : (s \o t)[i] = t[i - Len(s)]
    OBVIOUS
  <2>2. \A s \in Seq(WelcomeRow) : DOMAIN s = 1..Len(s)
    OBVIOUS
  <2>3. welcomes[c] \o ws \in Seq(WelcomeRow) /\ Len(welcomes[c] \o ws) = old + n
    BY <1>1, <1>3, <2>1
  <2>4. DOMAIN (welcomes[c] \o ws) = 1..(old + n)
    BY <2>2, <2>3
  <2>5. \A i \in 1..old : (welcomes[c] \o ws)[i] = welcomes[c][i]
    BY <1>1, <1>3, <2>1
  <2>6. \A i \in (old + 1)..(old + n) : (welcomes[c] \o ws)[i] = ws[i - old]
    BY <1>1, <1>3, <2>1
  <2> QED BY <2>3, <2>4, <2>5, <2>6
<1>5. welcomes'[c] = welcomes[c] \o ws /\ \A e \in Chats : e # c => welcomes'[e] = welcomes[e]
  BY <1>2 DEF Typed
<1>6. welcomes' \in [Chats -> Seq(WelcomeRow)]
  BY <1>2, <1>4 DEF Typed
<1>7. ASSUME NEW e \in Chats, NEW i \in DOMAIN welcomes[e]
      PROVE  i \in DOMAIN welcomes'[e] /\ welcomes'[e][i] = welcomes[e][i]
  <2>1. CASE e # c
    BY <1>5, <2>1
  <2>2. CASE e = c
    <3>1. i \in 1..old /\ i \in 1..(old + n)
      BY <1>3, <2>2
    <3> QED BY <1>4, <1>5, <2>2, <3>1
  <2> QED BY <2>1, <2>2
<1>8. ASSUME NEW e \in Chats, NEW i \in DOMAIN welcomes'[e], i \notin DOMAIN welcomes[e]
      PROVE  e = c /\ AddedRow(c, kps, i, welcomes'[e][i])
  <2>1. e = c
    BY <1>5, <1>8
  <2>2. i \in (old + 1)..(old + n)
    BY <1>3, <1>4, <1>5, <1>8, <2>1
  <2>3. i - old \in 1..n
    BY <1>3, <2>2
  <2>4. welcomes'[e][i] = ws[i - old]
    BY <1>4, <1>5, <2>1, <2>2
  <2>5. i \in Nat /\ i > old
    BY <1>3, <2>2
  <2>6. ws[i - old] = [dev |-> PackageOf[kps[i - old]], epoch |-> Epoch(c) + 1, pkg |-> kps[i - old]]
    BY <1>1, <2>3
  <2> QED BY <2>1, <2>3, <2>4, <2>5, <2>6 DEF AddedRow
<1> QED BY <1>6, <1>7, <1>8

\* Submitting a commit keeps every type.
LEMMA CommitTyped ==
  ASSUME Typed, NEW c \in Chats, NEW d \in Devices, NEW out,
         NEW n \in Nat, NEW kps \in [1..n -> Packages], SubmitCommit(c, d, out, kps), sent' = {}
  PROVE  Typed'
<1>1. HasGroup(c)
  BY EpochNat DEF SubmitCommit, MayCommit
<1>2. Epoch(c) \in Nat /\ Roster(c) \in SUBSET Devices
  BY <1>1, EpochNat
<1>3. ToSet(kps) \subseteq Packages
  BY DEF ToSet
<1>4. {PackageOf[p] : p \in ToSet(kps)} \subseteq Devices
  BY <1>3, MLSAssumption
<1>5. trans' \in [Chats -> Seq(Transition)]
  <2> DEFINE t == [dev |-> d, epoch |-> Epoch(c), confirmed |-> FALSE,
                   tree |-> (Roster(c) \ out) \cup {PackageOf[p] : p \in ToSet(kps)}]
  <2>1. t \in Transition
    BY <1>2, <1>4 DEF Transition
  <2>2. trans' = [trans EXCEPT ![c] = Append(@, t)]
    BY DEF SubmitCommit
  <2> HIDE DEF t
  <2> QED BY <2>1, <2>2 DEF Typed
<1>6. welcomes' \in [Chats -> Seq(WelcomeRow)]
  BY <1>2, WelcomeRows
<1>7. packages' \in [Packages -> PackageRow]
  <2>1. \A p \in Packages : [packages[p] EXCEPT !.used = TRUE] \in PackageRow /\ packages[p] \in PackageRow
    BY DEF Typed, PackageRow
  <2> QED BY <2>1 DEF SubmitCommit
<1> QED
  BY <1>5, <1>6, <1>7 DEF SubmitCommit, Typed, aclVars

\* Confirming a commit keeps every type.
LEMMA ConfirmTyped ==
  ASSUME Typed, NEW c \in Chats, NEW i \in DOMAIN trans[c], Confirm(c, i), sent' = {}
  PROVE  Typed'
<1>1. trans[c][i] \in Transition
  BY DEF Typed
<1>2. trans[c][i].tree \in Groups
  BY <1>1 DEF Transition, Confirm, ValidRoster, Groups
<1>3. rosters' \in [Chats -> Seq(Groups)]
  BY <1>2 DEF Confirm, Typed
<1>4. [trans[c][i] EXCEPT !.confirmed = TRUE] \in Transition
  BY <1>1 DEF Transition
<1>5. [trans[c] EXCEPT ![i].confirmed = TRUE] \in Seq(Transition)
  BY <1>4 DEF Typed
<1>6. trans' \in [Chats -> Seq(Transition)]
  BY <1>5 DEF Confirm, Typed
<1> QED BY <1>3, <1>6 DEF Confirm, Typed, aclVars

\* The rows of the inbox are finitely many, so a page that is not empty has a last row.
LEMMA RowsBounded ==
  ASSUME Typed, NEW c \in Chats, NEW d \in Devices, NEW k \in Kinds
  PROVE  /\ Rows(c, d)[k] \subseteq Nat
         /\ \E n \in Nat : \A i \in Rows(c, d)[k] : i <= n
<1> DEFINE n == IF k = "welcome" THEN Len(welcomes[c]) ELSE Len(trans[c])
<1>1. n \in Nat /\ Rows(c, d)[k] \subseteq 1..n
  BY DEF Typed, Kinds, Rows
<1> QED BY <1>1

\* A page moves the cursor forward, to one of its rows.
LEMMA CursorMoves ==
  ASSUME Typed, NEW c \in Chats, NEW d \in Devices, NEW k \in Kinds
  PROVE  /\ Page(c, d, k) \subseteq Rows(c, d)[k] /\ Page(c, d, k) \subseteq Nat
         /\ CursorAfter(c, d, k) \in {cursor[c][d][k]} \cup Page(c, d, k)
         /\ CursorAfter(c, d, k) \in Nat /\ cursor[c][d][k] <= CursorAfter(c, d, k)
<1>1. Page(c, d, k) \subseteq Rows(c, d)[k]
  BY DEF Page, Later
<1>2. cursor[c][d][k] \in Nat
  BY DEF Typed
<1>3. PICK n \in Nat : \A i \in Rows(c, d)[k] : i <= n
  BY RowsBounded
<1> DEFINE S == {cursor[c][d][k]} \cup Page(c, d, k)
           m == IF n > cursor[c][d][k] THEN n ELSE cursor[c][d][k]
<1>4. S \in SUBSET Nat /\ S # {} /\ m \in Nat /\ \A i \in S : i <= m
  BY <1>1, <1>2, <1>3, RowsBounded
<1>5. Max(S) \in S /\ \A i \in S : i <= Max(S)
  <2> HIDE DEF S, m
  <2> QED BY <1>4, GreatestExists
<1> QED BY <1>1, <1>4, <1>5, RowsBounded DEF CursorAfter

\* Reading the inbox keeps every type.
LEMMA ReadTyped ==
  ASSUME Typed, NEW c \in Chats, NEW d \in Devices, ReadInbox(c, d), sent' = {}
  PROVE  Typed'
<1>1. [k \in Kinds |-> CursorAfter(c, d, k)] \in [Kinds -> Nat]
  BY CursorMoves
<1>2. [k \in Kinds |-> got[c][d][k] \cup Page(c, d, k)] \in [Kinds -> SUBSET Nat]
  BY CursorMoves DEF Typed
<1>3. cursor' \in [Chats -> [Devices -> [Kinds -> Nat]]]
  BY <1>1 DEF ReadInbox, Typed
<1>4. got' \in [Chats -> [Devices -> [Kinds -> SUBSET Nat]]]
  BY <1>2 DEF ReadInbox, Typed
<1> QED BY <1>3, <1>4 DEF ReadInbox, Typed, relay, aclVars

\* Uploading and claiming packages keep every type.
LEMMA PackageTyped ==
  ASSUME Typed, sent' = {},
         \/ \E p \in Packages : UploadPackage(p)
         \/ \E c \in Chats, d \in Devices : ClaimPackage(c, d) \/ \E u \in Users : ClaimRequest(c, u, d)
  PROVE  Typed'
<1>1. ASSUME NEW p \in Packages, UploadPackage(p) PROVE Typed'
  <2>1. [packages[p] EXCEPT !.state = "free"] \in PackageRow
    BY DEF Typed, PackageRow
  <2> QED BY <1>1, <2>1 DEF UploadPackage, Typed, aclVars
<1>2. ASSUME NEW c \in Chats, NEW d \in Devices, ClaimPackage(c, d) PROVE Typed'
  <2>1. ASSUME NEW p PROVE Claim(p, c) \in [Packages -> PackageRow]
    <3>1. [state |-> "claimed", chat |-> {c}, used |-> FALSE] \in PackageRow
      BY DEF PackageRow
    <3> QED BY <3>1 DEF Typed, Claim
  <2>2. packages' \in [Packages -> PackageRow]
    <3> HIDE DEF Claim
    <3> QED BY <1>2, <2>1 DEF ClaimPackage, Typed
  <2> QED BY <1>2, <2>2 DEF ClaimPackage, Typed, aclVars
<1>3. ASSUME NEW c \in Chats, NEW d \in Devices, NEW u \in Users, ClaimRequest(c, u, d) PROVE Typed'
  BY <1>3 DEF ClaimRequest, Typed, aclVars, relay
<1> QED BY <1>1, <1>2, <1>3

\* Every step keeps every type.
LEMMA NextTyped ==
  ASSUME Typed, [Next]_vars
  PROVE  Typed'
<1>1. ASSUME NEW c \in Chats, NEW d \in Devices, NEW out,
             NEW kps \in BoundedSeq(Packages, Cardinality(Packages)),
             SubmitCommit(c, d, out, kps), sent' = {}
      PROVE  Typed'
  <2>1. PICK n \in Nat : kps \in [1..n -> Packages]
    BY DEF BoundedSeq, SeqOf
  <2> QED BY <1>1, <2>1, CommitTyped
<1>2. ASSUME NEW c \in Chats, NEW d \in Devices, Prepare(c, d), sent' = {} PROVE Typed'
  <2>1. [chat |-> c, dev |-> d, epoch |-> Epoch(c)] \in Message
    BY <1>2, EpochNat DEF Prepare, Message
  <2> QED BY <1>2, <2>1 DEF Prepare, Typed, relay, aclVars
<1>3. ASSUME NEW c \in Chats, NEW r \in SUBSET Devices, InitGroup(c, r), sent' = {} PROVE Typed'
  <2>1. r \in Groups
    BY <1>3 DEF InitGroup, ValidRoster, Groups
  <2>2. rosters' \in [Chats -> Seq(Groups)]
    BY <1>3, <2>1 DEF InitGroup, Typed
  <2> QED BY <1>3, <2>2 DEF InitGroup, Typed, aclVars
<1>4. ASSUME NEW c \in Chats, NEW u \in Users, NEW m \in {"out", "muted", "sender"},
             PutMember(c, u, m), sent' = {}
      PROVE  Typed'
  <2>1. member' \in [Chats -> [Users -> Statuses]]
    BY <1>4 DEF PutMember, Typed, Statuses
  <2>2. pending' \subseteq Chats
    BY <1>4 DEF PutMember, Barrier, Typed
  <2> QED BY <1>4, <2>1, <2>2 DEF PutMember, Typed
<1>5. ASSUME NEW d \in Devices, RevokeDevice(d), sent' = {} PROVE Typed'
  BY <1>5 DEF RevokeDevice, Typed
<1>6. ASSUME NEW u \in Users, NEW off \in BOOLEAN, PutUser(u, off), sent' = {} PROVE Typed'
  BY <1>6 DEF PutUser, Typed, relay
<1>7. ASSUME NEW m \in prepared, Persist(m) PROVE Typed'
  BY <1>7 DEF Persist, Typed, relay, aclVars
<1>8. CASE UNCHANGED vars
  BY <1>8 DEF vars, relay, aclVars, Typed
<1> QED
  BY <1>1, <1>2, <1>3, <1>4, <1>5, <1>6, <1>7, <1>8, ConfirmTyped, ReadTyped, PackageTyped DEF Next, Step

\* MLS.TypeOK: what the rows of the relay's tables can be.
THEOREM TypeOKHolds == Spec => []TypeOK
<1>1. Typed /\ [Next]_vars => Typed'
  BY NextTyped
<1>2. Typed => TypeOK
  <2> SUFFICES ASSUME Typed PROVE TypeOK
    OBVIOUS
  <2>1. \A c \in Chats : \A i \in DOMAIN rosters[c] : rosters[c][i] \in Groups
    BY DEF Typed
  <2>2. ASSUME NEW c \in Chats, NEW i \in DOMAIN rosters[c]
        PROVE  rosters[c][i] \in (SUBSET Devices) \ {{}}
    <3>1. rosters[c][i] \in Groups
      BY <2>1
    <3> QED BY <3>1 DEF Groups
  <2>3. prepared \cup sent \subseteq [chat : Chats, dev : Devices, epoch : Nat]
    BY DEF Typed, Message
  <2> QED BY <2>2, <2>3, Zenon DEF Typed, TypeOK, Statuses, PackageRow
<1> QED BY <1>1, <1>2, InitTyped, PTL DEF Spec

-----------------------------------------------------------------------------
(* The roster of an open chat.                                              *)

\* The barrier goes down only over a roster that was just found valid, and every
\* change that would make it stale raises it.
LEMMA NextCurrent ==
  ASSUME Typed, RosterCurrent, [Next]_vars
  PROVE  RosterCurrent'
<1> DEFINE Good(c) == HasGroup(c) /\ \A d \in Roster(c) : d \notin revoked /\ InChat(c, Owner[d])
<1>1. ASSUME UNCHANGED <<rosters, member, revoked>>, pending \subseteq pending'
      PROVE  RosterCurrent'
  BY <1>1 DEF RosterCurrent, HasGroup, Roster, InChat
<1>2. ASSUME NEW c \in Chats, NEW r \in Groups, ValidRoster(c, r),
             \E s \in Seq(Groups) : rosters' = [rosters EXCEPT ![c] = Append(s, r)],
             pending' = pending \ {c}, UNCHANGED <<member, revoked>>
      PROVE  RosterCurrent'
  <2>1. Good(c)'
    <3>1. PICK s \in Seq(Groups) : rosters' = [rosters EXCEPT ![c] = Append(s, r)]
      BY <1>2
    <3>2. rosters'[c] = Append(s, r)
      BY <3>1 DEF Typed
    <3>3. Append(s, r) # << >> /\ Last(Append(s, r)) = r
      BY DEF Last
    <3>4. HasGroup(c)' /\ Roster(c)' = r
      BY <3>2, <3>3 DEF HasGroup, Roster
    <3> QED BY <1>2, <3>4 DEF ValidRoster, Authorized, InChat
  <2>2. ASSUME NEW e \in Chats \ pending', e # c PROVE Good(e)'
    BY <1>2, <2>2 DEF RosterCurrent, Typed, HasGroup, Roster, InChat
  <2> QED BY <2>1, <2>2 DEF RosterCurrent
<1>3. ASSUME NEW c \in Chats, NEW r \in SUBSET Devices, InitGroup(c, r) PROVE RosterCurrent'
  <2>1. r \in Groups
    BY <1>3 DEF InitGroup, ValidRoster, Groups
  <2>2. << >> \in Seq(Groups) /\ <<r>> = Append(<< >>, r)
    OBVIOUS
  <2>3. rosters' = [rosters EXCEPT ![c] = Append(<< >>, r)]
    BY <1>3, <2>2 DEF InitGroup
  <2>4. ValidRoster(c, r) /\ pending' = pending \ {c} /\ UNCHANGED <<member, revoked>>
    BY <1>3 DEF InitGroup, aclVars
  <2> QED BY <1>2, <2>1, <2>2, <2>3, <2>4
<1>4. ASSUME NEW c \in Chats, NEW i \in DOMAIN trans[c], Confirm(c, i) PROVE RosterCurrent'
  <2>1. trans[c][i] \in Transition
    BY DEF Typed
  <2>2. trans[c][i].tree \in Groups
    BY <1>4, <2>1 DEF Transition, Confirm, ValidRoster, Groups
  <2>3. rosters[c] \in Seq(Groups)
    BY DEF Typed
  <2>4. rosters' = [rosters EXCEPT ![c] = Append(rosters[c], trans[c][i].tree)]
    BY <1>4 DEF Confirm
  <2>5. ValidRoster(c, trans[c][i].tree) /\ pending' = pending \ {c} /\ UNCHANGED <<member, revoked>>
    BY <1>4 DEF Confirm, aclVars
  <2> QED BY <1>2, <2>2, <2>3, <2>4, <2>5
<1>5. ASSUME NEW c \in Chats, NEW u \in Users, NEW m \in {"out", "muted", "sender"}, PutMember(c, u, m)
      PROVE  RosterCurrent'
  <2> SUFFICES ASSUME NEW e \in Chats \ pending' PROVE Good(e)'
    BY DEF RosterCurrent
  <2>1. e \notin pending /\ Good(e)
    BY <1>5 DEF PutMember, Barrier, RosterCurrent
  <2>2. ASSUME NEW d \in Roster(e) PROVE InChat(e, Owner[d])'
    <3>1. Owner[d] \in Users
      BY <2>1, <2>2, EpochNat, MLSAssumption
    <3>2. CASE e = c /\ Owner[d] = u
      <4>1. InChat(c, u) /\ InChat(c, u) = (m # "out")
        BY <1>5, <2>1, <2>2, <3>2 DEF PutMember, Barrier, InChat
      <4> QED BY <1>5, <3>2, <4>1 DEF PutMember, InChat, Typed
    <3>3. CASE ~(e = c /\ Owner[d] = u)
      BY <1>5, <2>1, <2>2, <3>1, <3>3 DEF PutMember, InChat, Typed
    <3> QED BY <3>2, <3>3
  <2> QED BY <1>5, <2>1, <2>2 DEF PutMember, HasGroup, Roster
<1>6. ASSUME NEW d \in Devices, RevokeDevice(d) PROVE RosterCurrent'
  BY <1>6 DEF RevokeDevice, RosterCurrent, HasGroup, Roster, InChat
<1>7. CASE UNCHANGED vars
  BY <1>1, <1>7 DEF vars, relay, aclVars
<1>8. ASSUME NEW p \in Packages, UploadPackage(p) PROVE RosterCurrent'
  BY <1>1, <1>8 DEF UploadPackage, aclVars
<1>9. ASSUME NEW c \in Chats, NEW d \in Devices,
             \/ \E u \in Users : ClaimRequest(c, u, d)
             \/ ClaimPackage(c, d) \/ Prepare(c, d) \/ ReadInbox(c, d)
             \/ \E out, kps : SubmitCommit(c, d, out, kps)
      PROVE RosterCurrent'
  BY <1>1, <1>9 DEF ClaimRequest, ClaimPackage, Prepare, ReadInbox, SubmitCommit, relay, aclVars
<1>10. ASSUME NEW u \in Users, NEW off \in BOOLEAN, PutUser(u, off) PROVE RosterCurrent'
  BY <1>1, <1>10 DEF PutUser, relay
<1>11. ASSUME NEW m \in prepared, Persist(m) PROVE RosterCurrent'
  BY <1>1, <1>11 DEF Persist, relay, aclVars
<1> QED
  BY <1>3, <1>4, <1>5, <1>6, <1>7, <1>8, <1>9, <1>10, <1>11 DEF Next, Step

\* MLS.RosterCurrent, for every number of chats, accounts and devices: a chat
\* that is open to messages has a group of devices that are all still in it.
THEOREM RosterCurrentHolds == Spec => []RosterCurrent
<1>1. Init => Typed /\ RosterCurrent
  BY InitTyped DEF Init, RosterCurrent
<1>2. Typed /\ RosterCurrent /\ [Next]_vars => (Typed /\ RosterCurrent)'
  BY NextTyped, NextCurrent
<1> QED BY <1>1, <1>2, PTL DEF Spec

\* MLS.ReadersStillMembers: what is stored can be read by members only, although
\* the epoch and the roster were read before the message was queued.
THEOREM ReadersStillMembersHolds == Spec => ReadersStillMembers
<1> DEFINE Reads == \A m \in sent' : \A d \in rosters[m.chat][m.epoch + 1] :
                      d \notin revoked /\ InChat(m.chat, Owner[d])
<1>1. Init => Typed /\ RosterCurrent
  BY InitTyped DEF Init, RosterCurrent
<1>2. Typed /\ RosterCurrent /\ [Next]_vars => (Typed /\ RosterCurrent)'
  BY NextTyped, NextCurrent
<1>3. ASSUME Typed, RosterCurrent, Next PROVE Reads
  <2>1. CASE sent' = {}
    BY <2>1
  <2>2. ASSUME NEW m \in prepared, Persist(m), MayPersist(m) PROVE Reads
    <3>1. m.chat \in Chats \ pending /\ m.epoch = Epoch(m.chat)
      BY <1>3, <2>2 DEF MayPersist, Typed, Message
    <3>2. HasGroup(m.chat) /\ rosters[m.chat][m.epoch + 1] = Roster(m.chat)
      BY <1>3, <3>1, EpochNat DEF RosterCurrent
    <3> QED BY <1>3, <2>2, <3>1, <3>2 DEF RosterCurrent, Persist
  <2> QED BY <1>3, <2>1, <2>2 DEF Next, Persist
<1>4. Typed /\ RosterCurrent /\ [Next]_vars => [Reads]_vars
  BY <1>3
<1> QED BY <1>1, <1>2, <1>4, PTL DEF Spec, ReadersStillMembers

-----------------------------------------------------------------------------
(* One-time key packages.                                                   *)

\* PackageOnce is inductive only with what keeps a package from coming back: the
\* one a Welcome names is used, and one that is used was claimed.
OneTime ==
  /\ \A p \in Packages : packages[p].state # "claimed" => packages[p].chat = {} /\ ~packages[p].used
  /\ \A c \in Chats : \A i \in DOMAIN welcomes[c] : packages[welcomes[c][i].pkg].used
  /\ PackageOnce

\* The package of a Welcome is used.
LEMMA WelcomePackage ==
  ASSUME Typed, OneTime, NEW c \in Chats, NEW i \in DOMAIN welcomes[c]
  PROVE  welcomes[c][i].pkg \in Packages /\ packages[welcomes[c][i].pkg].used
<1>1. welcomes[c][i] \in WelcomeRow
  BY DEF Typed
<1> QED BY <1>1 DEF OneTime, WelcomeRow

\* A commit uses no package a second time.
LEMMA CommitOneTime ==
  ASSUME Typed, OneTime, NEW c \in Chats, NEW d \in Devices, NEW out,
         NEW n \in Nat, NEW kps \in [1..n -> Packages], SubmitCommit(c, d, out, kps)
  PROVE  OneTime'
<1> DEFINE old == Len(welcomes[c])
<1>1. DOMAIN kps = 1..n /\ \A i \in 1..n : kps[i] \in Packages
  OBVIOUS
<1>2. \A i \in 1..n : packages[kps[i]].chat = {c} /\ ~packages[kps[i]].used
  BY <1>1 DEF SubmitCommit, Consumable
<1>3. \A i, j \in 1..n : kps[i] = kps[j] => i = j
  BY <1>1 DEF SubmitCommit
<1>4. ToSet(kps) = {kps[i] : i \in 1..n}
  BY <1>1 DEF ToSet
<1>5. ASSUME NEW p \in Packages
      PROVE  /\ packages'[p].state = packages[p].state /\ packages'[p].chat = packages[p].chat
             /\ packages'[p].used = (p \in ToSet(kps) \/ packages[p].used)
  <2>1. packages'[p] = IF p \in ToSet(kps) THEN [packages[p] EXCEPT !.used = TRUE] ELSE packages[p]
    BY DEF SubmitCommit
  <2>2. packages[p] \in PackageRow
    BY DEF Typed
  <2> QED BY <2>1, <2>2 DEF PackageRow
<1>6. ASSUME NEW i \in 1..n PROVE packages[kps[i]].state = "claimed"
  BY <1>1, <1>2 DEF OneTime
<1>7. Epoch(c) \in Nat
  BY EpochNat DEF SubmitCommit, MayCommit
<1>8. ASSUME NEW e \in Chats, NEW i \in DOMAIN welcomes'[e]
      PROVE  \/ i \in DOMAIN welcomes[e] /\ welcomes'[e][i] = welcomes[e][i]
             \/ e = c /\ i - old \in 1..n /\ i \in Nat /\ welcomes'[e][i].pkg = kps[i - old]
  <2>1. CASE i \in DOMAIN welcomes[e]
    BY <1>7, <2>1, WelcomeRows
  <2>2. CASE i \notin DOMAIN welcomes[e]
    <3>1. e = c /\ AddedRow(c, kps, i, welcomes'[e][i])
      BY <1>7, <2>2, WelcomeRows
    <3> QED BY <1>1, <3>1 DEF AddedRow
  <2> QED BY <2>1, <2>2
<1>9. old \in Nat
  BY DEF Typed
<1>10. PackageOnce'
  <2> SUFFICES ASSUME NEW e \in Chats, NEW f \in Chats,
                      NEW i \in DOMAIN welcomes'[e], NEW j \in DOMAIN welcomes'[f],
                      welcomes'[e][i].pkg = welcomes'[f][j].pkg
               PROVE  e = f /\ i = j
    BY DEF PackageOnce
  <2>1. CASE i \in DOMAIN welcomes[e] /\ welcomes'[e][i] = welcomes[e][i]
    <3>1. packages[welcomes'[e][i].pkg].used
      BY <2>1, WelcomePackage
    <3>2. j \in DOMAIN welcomes[f] /\ welcomes'[f][j] = welcomes[f][j]
      BY <1>2, <1>8, <3>1
    <3> QED BY <2>1, <3>2 DEF OneTime, PackageOnce
  <2>2. CASE e = c /\ i - old \in 1..n /\ i \in Nat /\ welcomes'[e][i].pkg = kps[i - old]
    <3>1. ~packages[welcomes'[e][i].pkg].used
      BY <1>2, <2>2
    <3>2. ~(j \in DOMAIN welcomes[f] /\ welcomes'[f][j] = welcomes[f][j])
      BY WelcomePackage, <3>1
    <3>3. f = c /\ j - old \in 1..n /\ j \in Nat /\ welcomes'[f][j].pkg = kps[j - old]
      BY <1>8, <3>2
    <3>4. i - old = j - old
      BY <1>3, <2>2, <3>3
    <3> QED BY <1>9, <2>2, <3>3, <3>4
  <2> QED BY <1>8, <2>1, <2>2
<1>11. ASSUME NEW e \in Chats, NEW i \in DOMAIN welcomes'[e] PROVE packages'[welcomes'[e][i].pkg].used
  <2>1. CASE i \in DOMAIN welcomes[e] /\ welcomes'[e][i] = welcomes[e][i]
    BY <1>5, <2>1, WelcomePackage
  <2>2. CASE i - old \in 1..n /\ welcomes'[e][i].pkg = kps[i - old]
    <3>1. kps[i - old] \in ToSet(kps) /\ kps[i - old] \in Packages
      BY <1>1, <1>4, <2>2
    <3> QED BY <1>5, <2>2, <3>1
  <2> QED BY <1>8, <2>1, <2>2
<1>12. ASSUME NEW p \in Packages, packages'[p].state # "claimed"
       PROVE  packages'[p].chat = {} /\ ~packages'[p].used
  <2>1. packages[p].state # "claimed"
    BY <1>5, <1>12
  <2>2. p \notin ToSet(kps)
    BY <1>4, <1>6, <2>1
  <2> QED BY <1>5, <2>1, <2>2 DEF OneTime
<1> QED BY <1>10, <1>11, <1>12 DEF OneTime

\* No step does.
LEMMA NextOneTime ==
  ASSUME Typed, OneTime, [Next]_vars
  PROVE  OneTime'
<1>1. ASSUME NEW c \in Chats, NEW d \in Devices, NEW out,
             NEW kps \in BoundedSeq(Packages, Cardinality(Packages)), SubmitCommit(c, d, out, kps)
      PROVE  OneTime'
  <2>1. PICK n \in Nat : kps \in [1..n -> Packages]
    BY DEF BoundedSeq, SeqOf
  <2> QED BY <1>1, <2>1, CommitOneTime
<1>2. ASSUME UNCHANGED welcomes, NEW p \in Packages, packages[p].state # "claimed",
             NEW r \in PackageRow, r.state = "claimed" \/ (r.chat = {} /\ ~r.used),
             packages' = [packages EXCEPT ![p] = r]
      PROVE  OneTime'
  <2>1. ASSUME NEW c \in Chats, NEW i \in DOMAIN welcomes[c]
        PROVE  welcomes[c][i].pkg \in Packages /\ packages[welcomes[c][i].pkg].used
    BY WelcomePackage
  <2>2. \A c \in Chats : \A i \in DOMAIN welcomes[c] : packages'[welcomes[c][i].pkg].used
    BY <1>2, <2>1 DEF OneTime, Typed
  <2> QED BY <1>2, <2>2 DEF OneTime, PackageOnce, Typed
<1>3. ASSUME NEW p \in Packages, UploadPackage(p) PROVE OneTime'
  <2> DEFINE r == [packages[p] EXCEPT !.state = "free"]
  <2>1. packages[p] \in PackageRow
    BY DEF Typed
  <2>2. r \in PackageRow /\ r.chat = packages[p].chat /\ r.used = packages[p].used
    BY <2>1 DEF PackageRow
  <2>3. packages[p].state # "claimed" /\ packages' = [packages EXCEPT ![p] = r] /\ UNCHANGED welcomes
    BY <1>3 DEF UploadPackage
  <2>4. r.chat = {} /\ ~r.used
    BY <2>2, <2>3 DEF OneTime
  <2> HIDE DEF r
  <2> QED BY <1>2, <2>2, <2>3, <2>4
<1>4. ASSUME NEW c \in Chats, NEW d \in Devices, ClaimPackage(c, d), ~UNCHANGED packages
      PROVE  OneTime'
  <2> DEFINE p == CHOOSE q \in Unclaimed(d) : \A z \in Unclaimed(d) : q <= z
             r == [state |-> "claimed", chat |-> {c}, used |-> FALSE]
  <2>1. Unclaimed(d) # {} /\ packages' = Claim(p, c) /\ UNCHANGED welcomes
    BY <1>4 DEF ClaimPackage
  <2>2. p \in Unclaimed(d)
    BY <2>1, LeastUnclaimed
  <2>3. r \in PackageRow /\ r.state = "claimed"
    BY DEF PackageRow
  <2> HIDE DEF p
  <2>4. p \in Packages /\ packages[p].state # "claimed" /\ packages' = [packages EXCEPT ![p] = r]
    BY <2>1, <2>2 DEF Unclaimed, Claim
  <2> HIDE DEF r
  <2> QED BY <1>2, <2>1, <2>3, <2>4
<1>5. ASSUME UNCHANGED <<packages, welcomes>> PROVE OneTime'
  BY <1>5 DEF OneTime, PackageOnce
<1>6. ASSUME NEW c \in Chats, NEW d \in Devices,
             \/ \E u \in Users : ClaimRequest(c, u, d)
             \/ ClaimPackage(c, d) /\ UNCHANGED packages
             \/ Prepare(c, d) \/ ReadInbox(c, d)
      PROVE OneTime'
  BY <1>5, <1>6 DEF ClaimRequest, ClaimPackage, Prepare, ReadInbox, relay
<1>7. ASSUME NEW c \in Chats, (\E r : InitGroup(c, r)) \/ (\E i : Confirm(c, i)) PROVE OneTime'
  BY <1>5, <1>7 DEF InitGroup, Confirm
<1>8. ASSUME \/ \E c \in Chats, u \in Users : \E m : PutMember(c, u, m)
             \/ \E d \in Devices : RevokeDevice(d)
             \/ \E u \in Users, off \in BOOLEAN : PutUser(u, off)
             \/ \E m \in prepared : Persist(m)
             \/ UNCHANGED vars
      PROVE OneTime'
  BY <1>5, <1>8 DEF PutMember, RevokeDevice, PutUser, Persist, vars, relay
<1> QED
  BY <1>1, <1>3, <1>4, <1>6, <1>7, <1>8 DEF Next, Step

\* MLS.PackageOnce, for every number of chats and packages: a key package goes
\* into at most one Welcome of all chats.
THEOREM PackageOnceHolds == Spec => []PackageOnce
<1>1. Init => Typed /\ OneTime
  BY InitTyped DEF Init, OneTime, PackageOnce, NoPackage
<1>2. Typed /\ OneTime /\ [Next]_vars => (Typed /\ OneTime)'
  BY NextTyped, NextOneTime
<1>3. OneTime => PackageOnce
  BY DEF OneTime
<1> QED BY <1>1, <1>2, <1>3, PTL DEF Spec

-----------------------------------------------------------------------------
(* Welcomes and the group they lead into.                                   *)

\* A Welcome is written before its epoch exists.  What makes WelcomesLeadIn
\* inductive is that only one commit may then be unconfirmed, that it was made in
\* the chat's epoch, and that every Welcome of a later epoch is its own.
LedIn(c, w) ==
  \/ w.epoch <= Epoch(c) /\ w.dev \in rosters[c][w.epoch + 1]
  \/ w.epoch = Epoch(c) + 1 /\ \E j \in Unconfirmed(c) : w.dev \in trans[c][j].tree

LeadIn(c) ==
  /\ ~HasGroup(c) => trans[c] = << >> /\ welcomes[c] = << >>
  /\ \A i, j \in Unconfirmed(c) : i = j
  /\ \A i \in Unconfirmed(c) : trans[c][i].epoch = Epoch(c)
  /\ \A i \in DOMAIN welcomes[c] : LedIn(c, welcomes[c][i])

\* The Welcomes of a commit lead into its epoch, not confirmed yet.
LEMMA CommitLeadIn ==
  ASSUME Typed, NEW c \in Chats, LeadIn(c), NEW d \in Devices, NEW out, NEW n \in Nat,
         NEW kps \in [1..n -> Packages], SubmitCommit(c, d, out, kps)
  PROVE  LeadIn(c)'
<1> DEFINE t == [dev |-> d, epoch |-> Epoch(c), confirmed |-> FALSE,
                 tree |-> (Roster(c) \ out) \cup {PackageOf[p] : p \in ToSet(kps)}]
           last == Len(trans[c]) + 1
<1>1. HasGroup(c) /\ Epoch(c) \in Nat /\ Unconfirmed(c) = {}
  BY EpochNat DEF SubmitCommit, MayCommit
<1>2. UNCHANGED rosters /\ Epoch(c)' = Epoch(c) /\ HasGroup(c)'
  BY <1>1 DEF SubmitCommit, HasGroup, Epoch
<1>3. t.epoch = Epoch(c) /\ ~t.confirmed /\ {PackageOf[p] : p \in ToSet(kps)} \subseteq t.tree
  OBVIOUS
<1>4. trans'[c] = Append(trans[c], t)
  BY DEF SubmitCommit, Typed
<1> HIDE DEF t
<1>5. /\ DOMAIN trans[c] = 1..Len(trans[c]) /\ Len(trans[c]) \in Nat
      /\ DOMAIN trans'[c] = 1..last /\ trans'[c][last] = t
      /\ \A i \in 1..Len(trans[c]) : trans'[c][i] = trans[c][i]
  BY <1>4 DEF Typed
<1>6. Unconfirmed(c)' = {last}
  <2>1. \A i \in 1..Len(trans[c]) : trans'[c][i].confirmed
    BY <1>1, <1>5 DEF Unconfirmed
  <2> QED BY <1>3, <1>5, <2>1 DEF Unconfirmed
<1>7. ASSUME NEW i \in DOMAIN welcomes'[c] PROVE LedIn(c, welcomes[c][i])'
  <2>1. CASE i \in DOMAIN welcomes[c]
    <3>1. welcomes'[c][i] = welcomes[c][i]
      BY <1>1, <2>1, WelcomeRows
    <3>2. LedIn(c, welcomes[c][i])
      BY <2>1 DEF LeadIn
    <3>3. welcomes[c][i].epoch <= Epoch(c) /\ welcomes[c][i].dev \in rosters[c][welcomes[c][i].epoch + 1]
      BY <1>1, <3>2 DEF LedIn
    <3> QED BY <1>2, <3>1, <3>3 DEF LedIn
  <2>2. CASE AddedRow(c, kps, i, welcomes'[c][i])
    <3> DEFINE w == welcomes'[c][i]
    <3>1. w.pkg \in ToSet(kps) /\ w.dev = PackageOf[w.pkg] /\ w.epoch = Epoch(c) + 1
      BY <2>2 DEF AddedRow, ToSet
    <3>2. w.dev \in t.tree
      BY <1>3, <3>1
    <3> QED BY <1>2, <1>5, <1>6, <3>1, <3>2 DEF LedIn
  <2> QED BY <1>1, <2>1, <2>2, WelcomeRows
<1> QED BY <1>2, <1>3, <1>5, <1>6, <1>7 DEF LeadIn

\* Confirming a commit makes the epoch its Welcomes lead into current.
LEMMA ConfirmLeadIn ==
  ASSUME Typed, NEW c \in Chats, LeadIn(c), NEW i \in DOMAIN trans[c], Confirm(c, i)
  PROVE  LeadIn(c)'
<1> DEFINE r == trans[c][i].tree
           n == Len(rosters[c])
<1>1. i \in Unconfirmed(c) /\ trans[c][i].epoch = Epoch(c)
  BY DEF Confirm
<1>2. trans[c][i] \in Transition
  BY DEF Typed
<1>3. Epoch(c) \in Nat /\ n = Epoch(c) + 1 /\ n \in Nat
  BY <1>1, <1>2, EpochNat DEF Transition
<1>4. rosters'[c] = Append(rosters[c], r) /\ UNCHANGED welcomes
  BY DEF Confirm, Typed
<1> HIDE DEF r
<1>5. /\ Len(rosters'[c]) = n + 1 /\ rosters'[c][n + 1] = r
      /\ \A j \in 1..n : rosters'[c][j] = rosters[c][j]
  BY <1>4 DEF Typed
<1> HIDE DEF n
<1>6. Epoch(c)' = n /\ HasGroup(c)'
  <2>1. Len(rosters'[c]) - 1 = n /\ Len(rosters'[c]) # 0
    BY <1>3, <1>5
  <2>2. rosters'[c] # << >>
    BY <2>1
  <2> QED BY <2>1, <2>2 DEF Epoch, HasGroup
<1>7. trans'[c] = [trans[c] EXCEPT ![i].confirmed = TRUE]
  BY DEF Confirm, Typed
<1>8. Unconfirmed(c)' = {}
  <2>1. DOMAIN trans'[c] = DOMAIN trans[c]
    BY <1>7
  <2>2. ASSUME NEW j \in DOMAIN trans[c] PROVE trans'[c][j].confirmed
    <3>1. CASE j = i
      BY <1>2, <1>7, <3>1 DEF Transition
    <3>2. CASE j # i
      <4>1. j \notin Unconfirmed(c)
        BY <1>1, <3>2 DEF LeadIn
      <4>2. trans'[c][j] = trans[c][j]
        BY <1>7, <3>2
      <4> QED BY <4>1, <4>2 DEF Unconfirmed
    <3> QED BY <3>1, <3>2
  <2> QED BY <2>1, <2>2 DEF Unconfirmed
<1>9. ASSUME NEW j \in DOMAIN welcomes[c] PROVE LedIn(c, welcomes[c][j])'
  <2> DEFINE w == welcomes[c][j]
  <2>1. w \in WelcomeRow
    BY DEF Typed
  <2>2. w.epoch \in Nat /\ LedIn(c, w)
    BY <2>1 DEF WelcomeRow, LeadIn
  <2>3. CASE w.epoch <= Epoch(c) /\ w.dev \in rosters[c][w.epoch + 1]
    <3>1. w.epoch + 1 \in 1..n /\ w.epoch <= n
      BY <1>3, <2>2, <2>3
    <3>2. rosters'[c][w.epoch + 1] = rosters[c][w.epoch + 1]
      BY <1>5, <3>1
    <3> QED BY <1>4, <1>6, <2>3, <3>1, <3>2 DEF LedIn
  <2>4. CASE w.epoch = Epoch(c) + 1 /\ \E k \in Unconfirmed(c) : w.dev \in trans[c][k].tree
    <3>1. w.dev \in r
      BY <1>1, <2>4 DEF LeadIn, r
    <3> QED BY <1>3, <1>4, <1>5, <1>6, <2>4, <3>1 DEF LedIn
  <2> QED BY <2>2, <2>3, <2>4 DEF LedIn
<1> QED BY <1>4, <1>6, <1>8, <1>9 DEF LeadIn

\* Every step keeps Welcomes leading in.
LEMMA NextLeadIn ==
  ASSUME Typed, NEW c \in Chats, LeadIn(c), [Next]_vars
  PROVE  LeadIn(c)'
<1>1. ASSUME rosters'[c] = rosters[c], trans'[c] = trans[c], welcomes'[c] = welcomes[c]
      PROVE  LeadIn(c)'
  BY <1>1 DEF LeadIn, LedIn, HasGroup, Epoch, Unconfirmed
<1>2. ASSUME NEW e \in Chats, NEW d \in Devices, NEW out,
             NEW kps \in BoundedSeq(Packages, Cardinality(Packages)), SubmitCommit(e, d, out, kps)
      PROVE  LeadIn(c)'
  <2>1. PICK n \in Nat : kps \in [1..n -> Packages]
    BY DEF BoundedSeq, SeqOf
  <2>2. CASE e = c
    BY <1>2, <2>1, <2>2, CommitLeadIn
  <2>3. CASE e # c
    BY <1>1, <1>2, <2>3 DEF SubmitCommit, Typed
  <2> QED BY <2>2, <2>3
<1>3. ASSUME NEW e \in Chats, NEW i \in DOMAIN trans[e], Confirm(e, i) PROVE LeadIn(c)'
  <2>1. CASE e = c
    BY <1>3, <2>1, ConfirmLeadIn
  <2>2. CASE e # c
    BY <1>1, <1>3, <2>2 DEF Confirm, Typed
  <2> QED BY <2>1, <2>2
<1>4. ASSUME NEW e \in Chats, NEW r \in SUBSET Devices, InitGroup(e, r) PROVE LeadIn(c)'
  <2>1. CASE e = c
    <3>1. trans'[c] = << >> /\ welcomes'[c] = << >> /\ rosters'[c] = <<r>>
      BY <1>4, <2>1 DEF InitGroup, LeadIn, Typed
    <3>2. <<r>> # << >>
      OBVIOUS
    <3> QED BY <3>1, <3>2 DEF LeadIn, Unconfirmed, HasGroup
  <2>2. CASE e # c
    BY <1>1, <1>4, <2>2 DEF InitGroup, Typed
  <2> QED BY <2>1, <2>2
<1>5. CASE UNCHANGED <<rosters, trans, welcomes>>
  BY <1>1, <1>5
<1>6. ASSUME \/ \E p \in Packages : UploadPackage(p)
             \/ \E e \in Chats, d \in Devices :
                  \/ \E u \in Users : ClaimRequest(e, u, d)
                  \/ ClaimPackage(e, d) \/ Prepare(e, d) \/ ReadInbox(e, d)
             \/ \E e \in Chats, u \in Users : \E m : PutMember(e, u, m)
             \/ \E d \in Devices : RevokeDevice(d)
             \/ \E u \in Users, off \in BOOLEAN : PutUser(u, off)
             \/ \E m \in prepared : Persist(m)
             \/ UNCHANGED vars
      PROVE LeadIn(c)'
  BY <1>5, <1>6 DEF UploadPackage, ClaimRequest, ClaimPackage, Prepare, ReadInbox, PutMember,
                    RevokeDevice, PutUser, Persist, vars, relay
<1> QED BY <1>2, <1>3, <1>4, <1>6 DEF Next, Step

\* MLS.WelcomesLeadIn, for every number of chats and devices and any length of
\* the chat's history: a Welcome leads into the group of its epoch.
THEOREM WelcomesLeadInHolds == Spec => []WelcomesLeadIn
<1>1. Init => Typed /\ \A c \in Chats : LeadIn(c)
  <2> SUFFICES ASSUME Init, NEW c \in Chats PROVE LeadIn(c)
    BY InitTyped
  <2>1. trans[c] = << >> /\ welcomes[c] = << >>
    BY DEF Init
  <2> QED BY <2>1 DEF LeadIn, Unconfirmed
<1>2. (Typed /\ \A c \in Chats : LeadIn(c)) /\ [Next]_vars => (Typed /\ \A c \in Chats : LeadIn(c))'
  BY NextTyped, NextLeadIn
<1>3. (\A c \in Chats : LeadIn(c)) /\ Typed => WelcomesLeadIn
  <2> SUFFICES ASSUME Typed, NEW c \in Chats, LeadIn(c), NEW i \in DOMAIN welcomes[c],
                      welcomes[c][i].epoch <= Epoch(c)
               PROVE  welcomes[c][i].dev \in rosters[c][welcomes[c][i].epoch + 1]
    BY DEF WelcomesLeadIn
  <2>1. welcomes[c][i] \in WelcomeRow
    BY DEF Typed
  <2>2. welcomes[c][i].epoch \in Nat /\ LedIn(c, welcomes[c][i]) /\ Epoch(c) \in Int
    BY <2>1, EpochNat DEF WelcomeRow, LeadIn
  <2> QED BY <2>2 DEF LedIn
<1> QED BY <1>1, <1>2, <1>3, PTL DEF Spec

-----------------------------------------------------------------------------
(* The inbox.                                                               *)

\* InboxWhole speaks of the commits only while the device is in the group.  It
\* holds after a device has left and come back because it holds of every commit,
\* and because no cursor is beyond the end of its table, where rows will be added.
Addressed(c, d, k) ==
  IF k = "welcome" THEN {i \in DOMAIN welcomes[c] : welcomes[c][i].dev = d} ELSE DOMAIN trans[c]

Size(c, k) == IF k = "welcome" THEN Len(welcomes[c]) ELSE Len(trans[c])

Given(c, d, k) ==
  /\ cursor[c][d][k] <= Size(c, k)
  /\ \A i \in Addressed(c, d, k) : i <= cursor[c][d][k] => i \in got[c][d][k]

\* A page leaves out no row before its last one.
LEMMA PageWhole ==
  ASSUME Typed, NEW c \in Chats, NEW d \in Devices, NEW k \in Kinds,
         NEW i \in Later(c, d, k), NEW m \in Page(c, d, k), i <= m
  PROVE  i \in Page(c, d, k)
<1> DEFINE Before(j) == {x \in Later(c, d, k) : x < j}
<1>1. PICK n \in Nat : \A x \in Rows(c, d)[k] : x <= n
  BY RowsBounded
<1>2. Later(c, d, k) \subseteq 0..n
  BY <1>1, RowsBounded DEF Later
<1>3. IsFiniteSet(0..n)
  <2>1. 0 \in Int /\ n \in Int
    BY <1>1
  <2> QED BY <2>1, FS_Interval
<1>4. i \in Nat /\ m \in Nat
  BY <1>1, <1>2 DEF Page
<1>5. Before(i) \subseteq Before(m)
  BY <1>2, <1>4
<1>6. IsFiniteSet(Before(m))
  BY <1>2, <1>3, FS_Subset
<1>7. /\ IsFiniteSet(Before(i)) /\ Cardinality(Before(i)) <= Cardinality(Before(m))
      /\ Cardinality(Before(i)) \in Nat /\ Cardinality(Before(m)) \in Nat
  BY <1>5, <1>6, FS_Subset, FS_CardinalityType
<1>8. Cardinality(Before(m)) < PageLimit
  BY DEF Page
<1>9. Cardinality(Before(i)) < PageLimit
  BY <1>7, <1>8, MLSAssumption
<1> QED BY <1>9 DEF Page

\* A page gives everything up to its cursor.
LEMMA ReadGiven ==
  ASSUME Typed, NEW c \in Chats, NEW d \in Devices, NEW k \in Kinds, Given(c, d, k), ReadInbox(c, d)
  PROVE  Given(c, d, k)'
<1> DEFINE x == CursorAfter(c, d, k)
<1>1. /\ Page(c, d, k) \subseteq Rows(c, d)[k] /\ x \in {cursor[c][d][k]} \cup Page(c, d, k)
      /\ x \in Nat /\ cursor[c][d][k] <= x
  BY CursorMoves
<1>2. cursor'[c][d][k] = x /\ got'[c][d][k] = got[c][d][k] \cup Page(c, d, k)
  BY DEF ReadInbox, Typed
<1> HIDE DEF x
<1>3. UNCHANGED <<trans, welcomes>>
  BY DEF ReadInbox, relay
<1>4. /\ Rows(c, d)[k] \subseteq Addressed(c, d, k) /\ Addressed(c, d, k) \subseteq 1..Size(c, k)
      /\ Size(c, k) \in Nat /\ cursor[c][d][k] \in Nat
  BY DEF Rows, Addressed, Size, Kinds, Typed
<1>5. x <= Size(c, k)
  BY <1>1, <1>4 DEF Given
<1>6. ASSUME NEW i \in Addressed(c, d, k), i <= x PROVE i \in got'[c][d][k]
  <2>1. CASE i <= cursor[c][d][k]
    BY <1>2, <2>1 DEF Given
  <2>2. CASE ~(i <= cursor[c][d][k])
    <3>1. x \in Page(c, d, k)
      BY <1>1, <1>4, <1>6, <2>2
    <3>2. Addressed(c, d, k) = Rows(c, d)[k]
      <4>1. x \in Rows(c, d)[k]
        BY <1>1, <3>1
      <4>2. CASE k = "welcome"
        BY <4>2 DEF Rows, Addressed
      <4>3. CASE k = "commit"
        <5>1. d \in Roster(c)
          BY <4>1, <4>3 DEF Rows
        <5> QED BY <4>3, <5>1 DEF Rows, Addressed
      <4> QED BY <4>2, <4>3 DEF Kinds
    <3>3. i \in Later(c, d, k)
      BY <1>4, <2>2, <3>2 DEF Later
    <3> QED BY <1>2, <1>6, <3>1, <3>3, PageWhole
  <2> QED BY <2>1, <2>2
<1> QED BY <1>2, <1>3, <1>5, <1>6 DEF Given, Size, Addressed

\* No step adds to an inbox behind the cursor of its reader.
LEMMA NextGiven ==
  ASSUME Typed, NEW c \in Chats, NEW d \in Devices, NEW k \in Kinds, Given(c, d, k), [Next]_vars
  PROVE  Given(c, d, k)'
<1>1. ASSUME cursor'[c][d] = cursor[c][d], got'[c][d] = got[c][d], Size(c, k) <= Size(c, k)',
             Size(c, k) \in Nat, Size(c, k)' \in Nat,
             \A i \in Addressed(c, d, k)' : i <= Size(c, k) => i \in Addressed(c, d, k)
      PROVE  Given(c, d, k)'
  <2>1. cursor[c][d][k] \in Nat
    BY DEF Typed
  <2>2. ASSUME NEW i \in Addressed(c, d, k)', i <= cursor[c][d][k] PROVE i \in got[c][d][k]
    <3>1. Typed'
      BY NextTyped
    <3>2. DOMAIN trans'[c] = 1..Len(trans'[c]) /\ DOMAIN welcomes'[c] = 1..Len(welcomes'[c])
      BY <3>1 DEF Typed
    <3>3. i \in Int
      BY <2>2, <3>2 DEF Addressed
    <3>4. i <= Size(c, k)
      BY <1>1, <2>1, <2>2, <3>3 DEF Given
    <3> QED BY <1>1, <2>2, <3>4 DEF Given
  <2> QED BY <1>1, <2>1, <2>2 DEF Given
<1>2. Size(c, k) \in Nat /\ Size(c, k)' \in Nat
  <2>1. Len(trans[c]) \in Nat /\ Len(welcomes[c]) \in Nat
    BY DEF Typed
  <2>2. Typed'
    BY NextTyped
  <2>3. Len(trans'[c]) \in Nat /\ Len(welcomes'[c]) \in Nat
    BY <2>2 DEF Typed
  <2> QED BY <2>1, <2>3 DEF Size
<1>3. ASSUME cursor'[c][d] = cursor[c][d], got'[c][d] = got[c][d],
             trans'[c] = trans[c], welcomes'[c] = welcomes[c]
      PROVE  Given(c, d, k)'
  BY <1>1, <1>2, <1>3 DEF Size, Addressed
<1>4. ASSUME NEW e \in Chats, NEW f \in Devices, NEW out,
             NEW kps \in BoundedSeq(Packages, Cardinality(Packages)), SubmitCommit(e, f, out, kps)
      PROVE  Given(c, d, k)'
  <2>1. PICK n \in Nat : kps \in [1..n -> Packages]
    BY DEF BoundedSeq, SeqOf
  <2>2. UNCHANGED <<cursor, got>>
    BY <1>4 DEF SubmitCommit
  <2>3. CASE e # c
    BY <1>3, <1>4, <2>2, <2>3 DEF SubmitCommit, Typed
  <2>4. CASE e = c /\ k = "commit"
    <3>1. \E t : trans'[c] = Append(trans[c], t)
      BY <1>4, <2>4 DEF SubmitCommit, Typed
    <3>2. Len(trans'[c]) = Len(trans[c]) + 1 /\ DOMAIN trans[c] = 1..Len(trans[c])
          /\ DOMAIN trans'[c] = 1..Len(trans'[c])
      BY <3>1 DEF Typed
    <3> QED BY <1>1, <1>2, <2>2, <2>4, <3>2 DEF Size, Addressed
  <2>5. CASE e = c /\ k = "welcome"
    <3>1. Epoch(c) \in Nat
      BY <1>4, <2>5, EpochNat DEF SubmitCommit, MayCommit
    <3>2. \A i \in DOMAIN welcomes[c] : i \in DOMAIN welcomes'[c] /\ welcomes'[c][i] = welcomes[c][i]
      BY <1>4, <2>1, <2>5, <3>1, WelcomeRows
    <3>3. welcomes[c] \in Seq(WelcomeRow) /\ welcomes'[c] \in Seq(WelcomeRow)
      BY <1>4, <2>1, <2>5, <3>1, WelcomeRows DEF Typed
    <3>4. /\ DOMAIN welcomes[c] = 1..Len(welcomes[c]) /\ Len(welcomes[c]) \in Nat
          /\ DOMAIN welcomes'[c] = 1..Len(welcomes'[c]) /\ Len(welcomes'[c]) \in Nat
      BY <3>3
    <3>5. Len(welcomes[c]) <= Len(welcomes'[c])
      <4>1. CASE Len(welcomes[c]) = 0
        BY <3>4, <4>1
      <4>2. CASE Len(welcomes[c]) # 0
        <5>1. Len(welcomes[c]) \in DOMAIN welcomes'[c]
          BY <3>2, <3>4, <4>2
        <5> QED BY <3>4, <5>1
      <4> QED BY <4>1, <4>2
    <3> QED BY <1>1, <1>2, <2>2, <2>5, <3>2, <3>4, <3>5 DEF Size, Addressed
  <2> QED BY <2>3, <2>4, <2>5 DEF Kinds
<1>5. ASSUME NEW e \in Chats, NEW i \in DOMAIN trans[e], Confirm(e, i) PROVE Given(c, d, k)'
  <2>1. DOMAIN trans'[c] = DOMAIN trans[c] /\ UNCHANGED <<welcomes, cursor, got>>
    BY <1>5 DEF Confirm, Typed
  <2>2. trans[c] \in Seq(Transition) /\ trans'[c] \in Seq(Transition)
    BY NextTyped DEF Typed
  <2>3. Len(trans'[c]) = Len(trans[c])
    BY <2>1, <2>2
  <2> QED BY <1>1, <1>2, <2>1, <2>3 DEF Size, Addressed
<1>6. ASSUME NEW e \in Chats, NEW f \in Devices, ReadInbox(e, f) PROVE Given(c, d, k)'
  <2>1. CASE e = c /\ f = d
    BY <1>6, <2>1, ReadGiven
  <2>2. CASE ~(e = c /\ f = d)
    <3>1. cursor'[c][d] = cursor[c][d] /\ got'[c][d] = got[c][d]
      BY <1>6, <2>2 DEF ReadInbox, Typed
    <3> QED BY <1>3, <1>6, <3>1 DEF ReadInbox, relay
  <2> QED BY <2>1, <2>2
<1>7. ASSUME NEW e \in Chats, \E r : InitGroup(e, r) PROVE Given(c, d, k)'
  BY <1>3, <1>7 DEF InitGroup
<1>8. ASSUME \/ \E p \in Packages : UploadPackage(p)
             \/ \E e \in Chats, f \in Devices :
                  (\E u \in Users : ClaimRequest(e, u, f)) \/ ClaimPackage(e, f) \/ Prepare(e, f)
             \/ \E e \in Chats, u \in Users : \E m : PutMember(e, u, m)
             \/ \E f \in Devices : RevokeDevice(f)
             \/ \E u \in Users, off \in BOOLEAN : PutUser(u, off)
             \/ \E m \in prepared : Persist(m)
             \/ UNCHANGED vars
      PROVE Given(c, d, k)'
  BY <1>3, <1>8 DEF UploadPackage, ClaimRequest, ClaimPackage, Prepare, PutMember,
                    RevokeDevice, PutUser, Persist, vars, relay
<1> QED BY <1>4, <1>5, <1>6, <1>7, <1>8 DEF Next, Step

\* MLS.InboxWhole, for every size of a page and every number of rows: a client
\* that follows its cursors misses none.
THEOREM InboxWholeHolds == Spec => []InboxWhole
<1> DEFINE All == \A c \in Chats, d \in Devices, k \in Kinds : Given(c, d, k)
<1>1. Init => Typed /\ All
  <2> SUFFICES ASSUME Init, NEW c \in Chats, NEW d \in Devices, NEW k \in Kinds PROVE Given(c, d, k)
    BY InitTyped
  <2>1. cursor[c][d][k] = 0 /\ trans[c] = << >> /\ welcomes[c] = << >>
    BY DEF Init
  <2> QED BY <2>1 DEF Given, Size, Addressed
<1>2. (Typed /\ All) /\ [Next]_vars => (Typed /\ All)'
  BY NextTyped, NextGiven
<1>3. All => InboxWhole
  BY DEF InboxWhole, Given, Rows, Addressed, Kinds
<1> QED BY <1>1, <1>2, <1>3, PTL DEF Spec

=============================================================================
