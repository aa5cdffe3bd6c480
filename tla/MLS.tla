--------------------------------- MODULE MLS ---------------------------------
(***************************************************************************)
(* The MLS relay of end-to-end encrypted chats (internal/modules/e2ee.go): *)
(* key packages, commits with their Welcomes, the confirmation of an epoch *)
(* and the rekey barrier chats.pending, with what management does to       *)
(* members, accounts and devices, and the way of a message from the        *)
(* Prepare hook to the writer's transaction.                               *)
(*                                                                         *)
(* Every handler is one transaction, and one that is refused or fails is   *)
(* rolled back and leaves nothing, so that only the accepted ones are      *)
(* actions.  What is read before the transaction is a step of its own.     *)
(* The relay cannot read a commit: "tree" stands for the members of the    *)
(* group it leads to.  The roster put up for confirmation is that tree,    *)
(* which docs/e2ee.md makes an obligation of the management authority.     *)
(* Leaf indices, wires and signatures are left out, and so are the AI      *)
(* hooks, which belong to Tasks.                                           *)
(*                                                                         *)
(* Definitions named Mut... are wrong variants of the definition they      *)
(* precede; no specification uses them (see the README).                   *)
(***************************************************************************)
EXTENDS Integers, FiniteSets, Sequences, SequencesExt

CONSTANTS
  Chats, Users, Devices,
  Owner,       \* the account of a device
  Joined,      \* the accounts a chat is created with
  Packages,    \* key packages that may be uploaded, in the order of upload
  PackageOf,   \* the device of a key package
  QuotaKP,     \* unclaimed key packages a device may have
  PageLimit,   \* rows of one page of the inbox
  MaxCommits,  \* of a chat, bound on commits submitted
  MaxQueued,   \* bound on messages between Prepare and the writer
  MaxAdmin     \* bound on changes of members, accounts and devices

ASSUME MLSAssumption ==
  /\ Owner \in [Devices -> Users]
  /\ Joined \in [Chats -> SUBSET Users]
  /\ Packages \subseteq Nat /\ PackageOf \in [Packages -> Devices]
  /\ QuotaKP \in Nat \ {0} /\ PageLimit \in Nat \ {0}
  /\ MaxCommits \in [Chats -> Nat] /\ MaxQueued \in Nat /\ MaxAdmin \in Nat

VARIABLES
  member,    \* of a chat, "none", "out", "muted" or "sender" for each account
  disabled,  \* accounts
  revoked,   \* devices
  pending,   \* chats behind the rekey barrier
  rosters,   \* of a chat, the rosters of its epochs; empty without a group
  trans,     \* of a chat, its rows of mls_transitions
  packages,  \* rows of mls_keypackages
  welcomes,  \* of a chat, its rows of mls_controls
  claiming,  \* claims whose caller was found to be a member: <<chat, device>>
  prepared,  \* messages on their way to the writer: [chat, dev, epoch]
  sent,      \* the messages that the last step stored
  cursor,    \* of a chat and a device, the row of each kind its client has read up to
  got,       \* of a chat and a device, the rows of each kind its client was given
  admin

relay   == <<pending, rosters, trans, packages, welcomes>>
aclVars == <<member, disabled, revoked, admin>>
vars == <<relay, aclVars, claiming, prepared, sent, cursor, got>>

Kinds == {"welcome", "commit"}

NoPackage == [state |-> "absent", chat |-> {}, used |-> FALSE]

Init ==
  /\ member = [c \in Chats |-> [u \in Users |-> IF u \in Joined[c] THEN "sender" ELSE "none"]]
  /\ disabled = {} /\ revoked = {} /\ admin = 0
  /\ pending = Chats
  /\ rosters = [c \in Chats |-> << >>] /\ trans = [c \in Chats |-> << >>]
  /\ packages = [p \in Packages |-> NoPackage]
  /\ welcomes = [c \in Chats |-> << >>]
  /\ claiming = {} /\ prepared = {} /\ sent = {}
  /\ cursor = [c \in Chats |-> [d \in Devices |-> [k \in Kinds |-> 0]]]
  /\ got = [c \in Chats |-> [d \in Devices |-> [k \in Kinds |-> {}]]]

-----------------------------------------------------------------------------
HasGroup(c) == rosters[c] # << >>
Epoch(c)    == Len(rosters[c]) - 1
Roster(c)   == IF HasGroup(c) THEN Last(rosters[c]) ELSE {}

InChat(c, u) == member[c][u] \in {"muted", "sender"}

\* A device that is not revoked, of an enabled account in the chat.
Authorized(c, d) == d \notin revoked /\ Owner[d] \notin disabled /\ InChat(c, Owner[d])

\* validateMLSRoster.
ValidRoster(c, r) ==
  /\ r # {} /\ \A d \in r : Authorized(c, d)
  /\ \A u \in Users \ disabled : InChat(c, u) => \E d \in r : Owner[d] = u

-----------------------------------------------------------------------------
(* Key packages.                                                           *)

Unclaimed(d) == {p \in Packages : PackageOf[p] = d /\ packages[p].state = "free"}

\* uploadMLSKeyPackage.  A package is uploaded once: its id is its digest.
UploadPackage(p) ==
  /\ packages[p].state = "absent" /\ PackageOf[p] \notin revoked
  /\ Cardinality(Unclaimed(PackageOf[p])) < QuotaKP
  /\ packages' = [packages EXCEPT ![p].state = "free"]
  /\ UNCHANGED <<pending, rosters, trans, welcomes, aclVars, claiming, prepared, cursor, got>>

\* claimMLSKeyPackage, before its transaction.
ClaimRequest(c, u, d) ==
  /\ claiming = {} /\ member[c][u] = "sender" /\ u \notin disabled
  /\ claiming' = {<<c, d>>}
  /\ UNCHANGED <<relay, aclVars, prepared, cursor, got>>

\* The package leaves the free ones, whether it is handed out or, having
\* expired, only retired.
Claim(p, c) == [packages EXCEPT ![p] = [state |-> "claimed", chat |-> {c}, used |-> FALSE]]

ClaimPackage(c, d) ==
  /\ <<c, d>> \in claiming
  /\ claiming' = claiming \ {<<c, d>>}
  /\ IF Authorized(c, d) /\ Unclaimed(d) # {}
       THEN packages' = Claim(CHOOSE p \in Unclaimed(d) : \A q \in Unclaimed(d) : p <= q, c)
       ELSE UNCHANGED packages
  /\ UNCHANGED <<pending, rosters, trans, welcomes, aclVars, prepared, cursor, got>>

-----------------------------------------------------------------------------
(* Commits and epochs.                                                     *)

Unconfirmed(c) == {i \in DOMAIN trans[c] : ~trans[c][i].confirmed}

MutMayCommit(c, d) == d \in Roster(c) /\ Authorized(c, d) /\ member[c][Owner[d]] = "sender"

\* The sender, and the unique index mls_one_transition.
MayCommit(c, d) ==
  /\ d \in Roster(c) /\ Authorized(c, d) /\ member[c][Owner[d]] = "sender"
  /\ Unconfirmed(c) = {}

MutConsumable(c, p) == packages[p].chat = {c} /\ Authorized(c, PackageOf[p])

\* UPDATE mls_keypackages SET used=1 ... and the checks of what it returns.
Consumable(c, p) ==
  packages[p].chat = {c} /\ ~packages[p].used /\ Authorized(c, PackageOf[p])

\* submitMLSCommit.  The commit removes "out" from the group and adds the
\* devices of the key packages "kps", each with a Welcome, in the order sent.
SubmitCommit(c, d, out, kps) ==
  /\ Len(trans[c]) < MaxCommits[c]
  /\ MayCommit(c, d)
  /\ \A i \in DOMAIN kps :
       /\ Consumable(c, kps[i])
       /\ \A j \in DOMAIN kps : PackageOf[kps[i]] = PackageOf[kps[j]] => i = j
  /\ trans' = [trans EXCEPT ![c] =
       Append(@, [dev |-> d, epoch |-> Epoch(c), confirmed |-> FALSE,
                  tree |-> (Roster(c) \ out) \cup {PackageOf[p] : p \in ToSet(kps)}])]
  /\ packages' = [p \in Packages |-> IF p \in ToSet(kps) THEN [packages[p] EXCEPT !.used = TRUE]
                                                          ELSE packages[p]]
  /\ welcomes' = [welcomes EXCEPT ![c] = @ \o
       [i \in DOMAIN kps |-> [dev |-> PackageOf[kps[i]], epoch |-> Epoch(c) + 1, pkg |-> kps[i]]]]
  /\ pending' = pending \cup {c}
  /\ UNCHANGED <<rosters, aclVars, claiming, prepared, cursor, got>>

\* confirmMLSEpoch with previous_epoch = -1: InitMLSRelayTx.
InitGroup(c, r) ==
  /\ ~HasGroup(c) /\ ValidRoster(c, r)
  /\ rosters' = [rosters EXCEPT ![c] = <<r>>]
  /\ pending' = pending \ {c}
  /\ UNCHANGED <<trans, packages, welcomes, aclVars, claiming, prepared, cursor, got>>

\* confirmMLSEpoch, signed by the sender of the commit.
Confirm(c, i) ==
  LET t == trans[c][i] IN
  /\ i \in Unconfirmed(c) /\ c \in pending /\ t.epoch = Epoch(c)
  /\ ValidRoster(c, t.tree)
  /\ t.dev \notin revoked /\ t.dev \in t.tree /\ t.dev \in Roster(c)
  /\ rosters' = [rosters EXCEPT ![c] = Append(@, t.tree)]
  /\ trans' = [trans EXCEPT ![c][i].confirmed = TRUE]
  /\ pending' = pending \ {c}
  /\ UNCHANGED <<packages, welcomes, aclVars, claiming, prepared, cursor, got>>

-----------------------------------------------------------------------------
(* Messages.                                                               *)

\* prepareMessage and the Prepare hook.
Prepare(c, d) ==
  /\ Authorized(c, d) /\ member[c][Owner[d]] = "sender"
  /\ c \notin pending /\ d \in Roster(c)
  /\ Cardinality(prepared) < MaxQueued
  /\ prepared' = prepared \cup {[chat |-> c, dev |-> d, epoch |-> Epoch(c)]}
  /\ UNCHANGED <<relay, aclVars, claiming, cursor, got>>

MutMayPersist(m) ==
  /\ Authorized(m.chat, m.dev) /\ member[m.chat][Owner[m.dev]] = "sender"
  /\ m.chat \notin pending /\ m.dev \in Roster(m.chat)

\* persistMessageInTx and the InTransaction hook.
MayPersist(m) ==
  /\ Authorized(m.chat, m.dev) /\ member[m.chat][Owner[m.dev]] = "sender"
  /\ m.chat \notin pending /\ m.epoch = Epoch(m.chat) /\ m.dev \in Roster(m.chat)

Persist(m) ==
  /\ prepared' = prepared \ {m}
  /\ sent' = IF MayPersist(m) THEN {m} ELSE {}
  /\ UNCHANGED <<relay, aclVars, claiming, cursor, got>>

-----------------------------------------------------------------------------
(* The inbox.                                                              *)

\* The Welcomes of the device; the commits, if it is in the group.
Rows(c, d) ==
  [welcome |-> {i \in DOMAIN welcomes[c] : welcomes[c][i].dev = d},
   commit  |-> {i \in DOMAIN trans[c] : d \in Roster(c)}]

Later(c, d, k) == {i \in Rows(c, d)[k] : i > cursor[c][d][k]}

\* The first PageLimit rows after the cursor.
Page(c, d, k) ==
  {i \in Later(c, d, k) : Cardinality({j \in Later(c, d, k) : j < i}) < PageLimit}

MutCursorAfter(c, d, k) == Max({cursor[c][d][k]} \cup Later(c, d, k))

\* next_welcome and next_commit.
CursorAfter(c, d, k) == Max({cursor[c][d][k]} \cup Page(c, d, k))

\* getMLSInbox.
ReadInbox(c, d) ==
  /\ InChat(c, Owner[d])
  /\ cursor' = [cursor EXCEPT ![c][d] = [k \in Kinds |-> CursorAfter(c, d, k)]]
  /\ got' = [got EXCEPT ![c][d] = [k \in Kinds |-> @[k] \cup Page(c, d, k)]]
  /\ UNCHANGED <<relay, aclVars, claiming, prepared>>

-----------------------------------------------------------------------------
(* Management.                                                             *)

Change == admin < MaxAdmin /\ admin' = admin + 1

MutBarrier(c, u, m) == IF ~InChat(c, u) /\ m # "out" THEN pending \cup {c} ELSE pending

\* A member that joins or leaves raises the barrier.
Barrier(c, u, m) ==
  IF member[c][u] = "none" \/ InChat(c, u) # (m # "out") THEN pending \cup {c} ELSE pending

PutMember(c, u, m) ==
  /\ Change /\ member[c][u] # m
  /\ member' = [member EXCEPT ![c][u] = m]
  /\ pending' = Barrier(c, u, m)
  /\ UNCHANGED <<rosters, trans, packages, welcomes, disabled, revoked, claiming, prepared, cursor, got>>

RevokeDevice(d) ==
  /\ Change
  /\ revoked' = revoked \cup {d}
  /\ pending' = pending \cup {c \in Chats : InChat(c, Owner[d])}
  /\ UNCHANGED <<rosters, trans, packages, welcomes, member, disabled, claiming, prepared, cursor, got>>

\* putUser.  No barrier.
PutUser(u, off) ==
  /\ Change
  /\ disabled' = IF off THEN disabled \cup {u} ELSE disabled \ {u}
  /\ disabled' # disabled
  /\ UNCHANGED <<relay, member, revoked, claiming, prepared, cursor, got>>

-----------------------------------------------------------------------------
Step ==
  \/ \E p \in Packages : UploadPackage(p)
  \/ \E c \in Chats, d \in Devices :
       \/ \E u \in Users : ClaimRequest(c, u, d)
       \/ ClaimPackage(c, d)
       \/ \E out \in SUBSET (Roster(c) \ {d}), kps \in BoundedSeq(Packages, Cardinality(Packages)) :
            SubmitCommit(c, d, out, kps)
       \/ Prepare(c, d) \/ ReadInbox(c, d)
  \/ \E c \in Chats :
       \/ \E r \in SUBSET Devices : InitGroup(c, r)
       \/ \E i \in DOMAIN trans[c] : Confirm(c, i)
  \/ \E c \in Chats, u \in Users, m \in {"out", "muted", "sender"} : PutMember(c, u, m)
  \/ \E d \in Devices : RevokeDevice(d)
  \/ \E u \in Users, off \in BOOLEAN : PutUser(u, off)

Next == (Step /\ sent' = {}) \/ \E m \in prepared : Persist(m)

Spec == Init /\ [][Next]_vars

-----------------------------------------------------------------------------
\* Types, for a chat and its tables.
TypeOK ==
  /\ member \in [Chats -> [Users -> {"none", "out", "muted", "sender"}]]
  /\ disabled \subseteq Users /\ revoked \subseteq Devices /\ pending \subseteq Chats
  /\ \A c \in Chats : \A i \in DOMAIN rosters[c] : rosters[c][i] \in (SUBSET Devices) \ {{}}
  /\ packages \in [Packages -> [state : {"absent", "free", "claimed"},
                                chat : SUBSET Chats, used : BOOLEAN]]
  /\ prepared \cup sent \subseteq [chat : Chats, dev : Devices, epoch : Nat]

\* A chat that is open to messages has a group, and every device of its roster
\* is still one of the chat's: no removal or revocation, whatever runs beside
\* it, leaves the barrier down (management.go:134 and 251, e2ee.go:602).
RosterCurrent ==
  \A c \in Chats \ pending :
    HasGroup(c) /\ \A d \in Roster(c) : d \notin revoked /\ InChat(c, Owner[d])

\* A message is stored only while every device that its epoch lets read it is
\* still in the chat, although the epoch and the roster were read before the
\* message was queued (e2ee.go:201, messages.go:175).
ReadersStillMembers ==
  [][\A m \in sent' :
       \A d \in rosters[m.chat][m.epoch + 1] :
         d \notin revoked /\ InChat(m.chat, Owner[d])]_vars

\* A key package goes into at most one Welcome of all chats (one-time keys,
\* e2ee.go:414).
PackageOnce ==
  \A c, e \in Chats : \A i \in DOMAIN welcomes[c], j \in DOMAIN welcomes[e] :
    welcomes[c][i].pkg = welcomes[e][j].pkg => c = e /\ i = j

\* A Welcome for an epoch that the chat has reached leads into that epoch's
\* group, never into that of a commit that lost (e2ee.go:397, 440).
WelcomesLeadIn ==
  \A c \in Chats : \A i \in DOMAIN welcomes[c] :
    LET w == welcomes[c][i] IN
    w.epoch <= Epoch(c) => w.dev \in rosters[c][w.epoch + 1]

\* A client that follows its cursors is given every Welcome of its device and
\* every commit up to them, whatever is stored between two pages and however
\* often the device leaves and rejoins the group (e2ee.go:524, 555).
InboxWhole ==
  \A c \in Chats, d \in Devices, k \in Kinds :
    {i \in Rows(c, d)[k] : i <= cursor[c][d][k]} \subseteq got[c][d][k]
=============================================================================
