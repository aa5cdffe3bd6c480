-------------------------------- MODULE Calls --------------------------------
(***************************************************************************)
(* Call signaling in one direct chat (internal/modules/calls.go): the      *)
(* tables calls and call_operations, and the events of the chat.           *)
(*                                                                         *)
(* Creating a call, signaling and cleanup hold one mutex, so that what     *)
(* they read of the two tables stays true until they write; "at" is the    *)
(* step of the holder.  Members, devices, the MLS epoch and agents change  *)
(* without it, between any two statements; only a transaction excludes     *)
(* them.  A request is the record of its contents; one that is malformed   *)
(* never starts.  Retention of events is left out: the log is what a       *)
(* client that keeps up has seen.                                          *)
(*                                                                         *)
(* Definitions named Mut... are wrong variants of the definition they      *)
(* precede; no specification uses them (see the README).                   *)
(***************************************************************************)
EXTENDS Integers, FiniteSets, Sequences

CONSTANTS
  People,     \* the two members the chat was created with
  Agents,     \* AI users that may be attached
  Devices,
  Owner,      \* the user of a device
  E2EE,       \* mode of the chat: E2EE, or basic
  Signals,    \* the requests: [dev, op, type, call, to, epoch]
  MaxCalls,   \* bound on calls created
  MaxAdmin,   \* bound on changes of members, devices and epoch
  MaxFaults,  \* bound on failing statements, crashes and expired operations
  None

Users == People \cup Agents
CallIds == 1..MaxCalls
Media == {"offer", "answer", "ice"}
Request == [dev : Devices, op : {s.op : s \in Signals}, call : CallIds,
            type : Media \cup {"accept", "reject", "end"},
            to : Devices \cup {None}, epoch : Nat]

ASSUME CallsAssumption ==
  /\ IsFiniteSet(People) /\ Cardinality(People) = 2 /\ People \cap Agents = {}
  /\ Owner \in [Devices -> Users]
  /\ E2EE \in BOOLEAN /\ (E2EE => Agents = {})
  /\ Signals \subseteq Request
  /\ MaxCalls \in Nat \ {0} /\ MaxAdmin \in Nat /\ MaxFaults \in Nat
  /\ None \notin Users \cup Devices \cup Signals

VARIABLES
  calls,     \* rows of calls
  ops,       \* rows of call_operations: [sig, seq, state]
  aged,      \* operations older than their retention
  log,       \* events of the chat
  member,    \* "none", "out", "muted" or "sender"
  revoked, epoch, pending,
  waiting,   \* devices whose create request waits for the mutex
  at, dev, sig, callee, todo, \* the mutex holder
  answers,   \* history: [sig, seq, state] of positive answers, until the operation expires
  admin, faults

tables   == <<calls, ops, aged, log>>
aclVars  == <<member, revoked, epoch, pending>>
lockVars == <<at, dev, sig, callee, todo>>
vars == <<tables, aclVars, waiting, lockVars, answers, admin, faults>>

NoCall == [state |-> "none", caller |-> None, callee |-> None, age |-> 0, stale |-> FALSE]
Ringing(u, v) ==
  [state |-> "ringing", caller |-> u, callee |-> v, age |-> 0, stale |-> FALSE]

Init ==
  /\ calls = [c \in CallIds |-> NoCall] /\ ops = {} /\ aged = {} /\ log = << >>
  /\ member = [u \in Users |-> IF u \in People THEN "sender" ELSE "none"]
  /\ revoked = {} /\ epoch = 0 /\ pending = FALSE
  /\ waiting = {}
  /\ at = "free" /\ dev = None /\ sig = None /\ callee = None /\ todo = {}
  /\ answers = {} /\ admin = 0 /\ faults = 0

-----------------------------------------------------------------------------
Active == {u \in Users : member[u] \in {"muted", "sender"}}

\* callPermission, read inside the transaction.
Permitted(d) == d \notin revoked /\ member[Owner[d]] = "sender"

Event(kind, c, d, s, u) == [kind |-> kind, call |-> c, dev |-> d, sig |-> s, user |-> u]
Append1(e) == log' = Append(log, e)

Unlock == at' = "free" /\ dev' = None /\ sig' = None /\ callee' = None /\ todo' = {}
Refuse == Unlock /\ UNCHANGED <<tables, aclVars, answers, admin>>
Fault  == faults < MaxFaults /\ faults' = faults + 1

InProgress(c) == calls[c].state \in {"ringing", "active"}
Created == {c \in CallIds : \E i \in 1..Len(log) : log[i].kind = "ringing" /\ log[i].call = c}

-----------------------------------------------------------------------------
(* Creating a call.                                                        *)

CreateRequest(d) ==
  /\ d \notin waiting /\ member[Owner[d]] = "sender"
  /\ waiting' = waiting \cup {d}
  /\ UNCHANGED <<tables, aclVars, lockVars, answers, admin, faults>>

CreateLock(d) ==
  /\ at = "free" /\ d \in waiting /\ Created # CallIds
  /\ waiting' = waiting \ {d}
  /\ IF Cardinality(Active) = 2
       THEN at' = "peer" /\ dev' = d /\ UNCHANGED <<sig, callee, todo>>
       ELSE UNCHANGED lockVars
  /\ UNCHANGED <<tables, aclVars, answers, admin, faults>>

MutBusy == FALSE
Busy == \E c \in CallIds : InProgress(c)

CreatePeer ==
  /\ at = "peer"
  /\ \/ \E u \in Active \ {Owner[dev]} :
          /\ ~Busy
          /\ at' = "insert" /\ callee' = u
          /\ UNCHANGED <<tables, aclVars, dev, sig, todo, answers, admin>>
     \/ (Busy \/ Active \subseteq {Owner[dev]}) /\ Refuse
  /\ UNCHANGED <<waiting, faults>>

StillTwo == Cardinality(Active) = 2

\* The id is a new one; the model takes the next.
CreateInsert ==
  /\ at = "insert"
  /\ IF Permitted(dev) /\ StillTwo
       THEN LET c == Cardinality(Created) + 1
            IN /\ calls' = [calls EXCEPT ![c] = Ringing(Owner[dev], callee)]
               /\ Append1(Event("ringing", c, dev, None, Owner[dev]))
               /\ Unlock
               /\ UNCHANGED <<ops, aged, aclVars, answers, admin>>
       ELSE Refuse
  /\ UNCHANGED <<waiting, faults>>

-----------------------------------------------------------------------------
(* Signals.                                                                *)

Earlier(s) == {o \in ops : o.sig.dev = s.dev /\ o.sig.op = s.op}

Transition(s) ==
  LET c == calls[s.call]
      u == Owner[s.dev]
  IN CASE s.type \in {"accept", "reject"} -> c.state = "ringing" /\ u = c.callee
       [] s.type = "offer"  -> InProgress(s.call) /\ u = c.caller
       [] s.type = "answer" -> c.state = "active" /\ u = c.callee
       [] OTHER             -> InProgress(s.call)

NextState(s) ==
  CASE s.type = "accept" -> "active"
    [] s.type \in {"reject", "end"} -> "ended"
    [] OTHER -> calls[s.call].state

MayRead(s) ==
  /\ calls[s.call].state # "none"
  /\ Owner[s.dev] \in {calls[s.call].caller, calls[s.call].callee}
  /\ member[Owner[s.dev]] = "sender"

\* Up to the transaction the handler reads its own two tables, which nobody
\* else changes meanwhile, and once the member.  A repeated operation with
\* equal content is answered as before, one with other content refused.
SignalRead(s) ==
  /\ at = "free" /\ MayRead(s)
  /\ IF Earlier(s) # {}
       THEN /\ answers' = answers \cup {o \in Earlier(s) : o.sig = s}
            /\ UNCHANGED lockVars
       ELSE /\ Transition(s)
            /\ at' = "signal" /\ sig' = s
            /\ UNCHANGED <<answers, dev, callee, todo>>
  /\ UNCHANGED <<tables, aclVars, waiting, admin, faults>>

MutMediaAllowed(s) ==
  s.type \in Media =>
    IF E2EE THEN epoch = s.epoch
    ELSE s.to \notin revoked

\* Media of an e2ee chat needs the current epoch and no pending rekey, of a
\* basic chat a device of the other participant.
MediaAllowed(s) ==
  s.type \in Media =>
    IF E2EE THEN ~pending /\ epoch = s.epoch
    ELSE LET c == calls[s.call]
             peer == IF Owner[s.dev] = c.callee THEN c.caller ELSE c.callee
         IN s.to \in Devices /\ s.to \notin revoked /\ Owner[s.to] = peer /\ peer \in Active

MutRecord(s) == [sig |-> s, seq |-> Len(log), state |-> NextState(s)]
Record(s) == [sig |-> s, seq |-> Len(log) + 1, state |-> NextState(s)]

SignalCommit ==
  /\ at = "signal"
  /\ IF Permitted(sig.dev) /\ MediaAllowed(sig)
       THEN /\ Append1(Event(sig.type, sig.call, sig.dev, sig, Owner[sig.dev]))
            /\ calls' = [calls EXCEPT ![sig.call].state = NextState(sig)]
            /\ ops' = ops \cup {Record(sig)}
            /\ at' = "answer"
            /\ UNCHANGED <<aged, aclVars, dev, sig, callee, todo, answers, admin>>
       ELSE Refuse
  /\ UNCHANGED <<waiting, faults>>

SignalAnswer ==
  /\ at = "answer"
  /\ answers' = answers \cup {o \in Earlier(sig) : o.sig = sig}
  /\ Unlock
  /\ UNCHANGED <<tables, aclVars, waiting, admin, faults>>

\* A statement fails or the request is cancelled; after the commit only the
\* answer is lost.
RequestFails ==
  /\ at \in {"peer", "insert", "signal", "answer"} /\ Fault
  /\ Refuse /\ UNCHANGED waiting

-----------------------------------------------------------------------------
(* Cleanup.                                                                *)

MutOverdue(c) == calls[c].state = "ringing" /\ calls[c].age >= 1

\* Two minutes of ringing, twelve hours of talking.
Overdue(c) ==
  \/ calls[c].state = "ringing" /\ calls[c].age >= 1
  \/ calls[c].state = "active" /\ calls[c].age = 2

CleanupSelect ==
  /\ at = "free"
  /\ at' = "expire" /\ todo' = {c \in CallIds : Overdue(c)}
  /\ UNCHANGED <<tables, aclVars, waiting, dev, sig, callee, answers, admin, faults>>

\* The row is updated and the event appended without another look at it.
CleanupExpire(c) ==
  /\ at = "expire" /\ c \in todo
  /\ calls' = [calls EXCEPT ![c].state = "ended"]
  /\ Append1(Event("timeout", c, None, None, None))
  /\ todo' = todo \ {c}
  /\ UNCHANGED <<ops, aged, aclVars, waiting, at, dev, sig, callee, answers, admin, faults>>

CleanupOperations ==
  /\ at = "expire" /\ todo = {}
  /\ ops' = ops \ aged /\ aged' = {}
  /\ answers' = answers \ aged
  /\ at' = "delete"
  /\ UNCHANGED <<calls, log, aclVars, waiting, dev, sig, callee, todo, admin, faults>>

CleanupCalls ==
  /\ at = "delete"
  /\ calls' = [c \in CallIds |->
       IF calls[c].state = "ended" /\ calls[c].stale THEN NoCall ELSE calls[c]]
  /\ Unlock
  /\ UNCHANGED <<ops, aged, log, aclVars, waiting, answers, admin, faults>>

CleanupFails ==
  /\ at \in {"expire", "delete"} /\ Fault
  /\ Refuse /\ UNCHANGED waiting

-----------------------------------------------------------------------------
(* Time, administration, crashes.                                          *)

\* Age counts from creation, staleness from the end.
Age(c) ==
  /\ \/ InProgress(c) /\ calls[c].age < 2
        /\ calls' = [calls EXCEPT ![c].age = @ + 1]
     \/ calls[c].state = "ended" /\ ~calls[c].stale
        /\ calls' = [calls EXCEPT ![c].stale = TRUE]
  /\ UNCHANGED <<ops, aged, log, aclVars, waiting, lockVars, answers, admin, faults>>

AgeOperation(o) ==
  /\ o \in ops \ aged /\ Fault
  /\ aged' = aged \cup {o}
  /\ UNCHANGED <<calls, ops, log, aclVars, waiting, lockVars, answers, admin>>

Administer == admin < MaxAdmin /\ admin' = admin + 1

\* The membership of a direct chat is fixed: no row, no change.
PutMember(u, status) ==
  /\ Administer /\ member[u] # "none"
  /\ member' = [member EXCEPT ![u] = status]
  /\ pending' = (pending \/ (E2EE /\ (member[u] = "out") # (status = "out")))
  /\ Append1(Event(IF (member[u] = "out") = (status = "out") THEN "member"
                   ELSE IF status = "out" THEN "left" ELSE "joined", 0, None, None, u))
  /\ UNCHANGED <<calls, ops, aged, revoked, epoch, waiting, lockVars, answers, faults>>

RevokeDevice(d) ==
  /\ Administer
  /\ revoked' = revoked \cup {d}
  /\ pending' = (pending \/ (E2EE /\ Owner[d] \in Active))
  /\ UNCHANGED <<tables, member, epoch, waiting, lockVars, answers, faults>>

ConfirmEpoch ==
  /\ Administer /\ E2EE /\ pending
  /\ epoch' = epoch + 1 /\ pending' = FALSE
  /\ Append1(Event("confirmed", 0, None, None, None))
  /\ UNCHANGED <<calls, ops, aged, member, revoked, waiting, lockVars, answers, faults>>

\* An agent takes the free place of a direct chat.
AttachAgent(a) ==
  /\ Administer /\ (Cardinality(Active) < 2 \/ a \in Active)
  /\ member' = [member EXCEPT ![a] = "sender"]
  /\ Append1(Event("attached", 0, None, None, a))
  /\ UNCHANGED <<calls, ops, aged, revoked, epoch, pending, waiting, lockVars, answers, faults>>

\* The mutex and the requests are gone, an open transaction is rolled back.
Restart ==
  /\ Fault
  /\ Refuse /\ waiting' = {}

Holder ==
  \/ CreatePeer \/ CreateInsert \/ SignalCommit \/ SignalAnswer \/ RequestFails
  \/ (\E c \in CallIds : CleanupExpire(c))
  \/ CleanupOperations \/ CleanupCalls \/ CleanupFails

Next ==
  \/ (\E d \in Devices : CreateRequest(d) \/ CreateLock(d) \/ RevokeDevice(d))
  \/ (\E s \in Signals : SignalRead(s))
  \/ CleanupSelect \/ Holder
  \/ (\E c \in CallIds : Age(c)) \/ (\E o \in ops : AgeOperation(o))
  \/ (\E u \in Users, s \in {"out", "muted", "sender"} : PutMember(u, s))
  \/ ConfirmEpoch \/ (\E a \in Agents : AttachAgent(a))
  \/ Restart

Spec == Init /\ [][Next]_vars

\* The holder runs on, the cleanup ticker gets the mutex again and again, and
\* time passes.
FairSpec ==
  Spec /\ WF_vars(Holder) /\ SF_vars(CleanupSelect) /\ \A c \in CallIds : WF_vars(Age(c))

-----------------------------------------------------------------------------
(* Properties.                                                             *)

\* What a client that applies the first n events believes of a call.
Kinds(c, n) == {log[i].kind : i \in {j \in 1..n : log[j].call = c}}
Believed(c, n) ==
  IF Kinds(c, n) \cap {"end", "reject", "timeout"} # {} THEN "ended"
  ELSE IF "accept" \in Kinds(c, n) THEN "active"
  ELSE IF "ringing" \in Kinds(c, n) THEN "ringing" ELSE "none"

\* Types of the tables, the log and the mutex holder.
TypeOK ==
  /\ calls \in [CallIds -> [state : {"none", "ringing", "active", "ended"}, age : 0..2,
                            stale : BOOLEAN, caller : Users \cup {None}, callee : Users \cup {None}]]
  /\ ops \cup aged \cup answers \subseteq
       [sig : Signals, seq : 1..Len(log), state : {"ringing", "active", "ended"}]
  /\ aged \subseteq ops
  /\ \A i \in 1..Len(log) :
       /\ log[i].call \in CallIds \cup {0} /\ log[i].user \in Users \cup {None}
       /\ log[i].dev \in Devices \cup {None} /\ log[i].sig \in Signals \cup {None}
  /\ member \in [Users -> {"none", "out", "muted", "sender"}] /\ revoked \subseteq Devices
  /\ epoch \in 0..MaxAdmin /\ pending \in BOOLEAN
  /\ waiting \subseteq Devices
  /\ at \in {"free", "peer", "insert", "signal", "answer", "expire", "delete"}
  /\ dev \in Devices \cup {None} /\ sig \in Signals \cup {None}
  /\ callee \in Users \cup {None} /\ todo \subseteq CallIds
  /\ admin \in 0..MaxAdmin /\ faults \in 0..MaxFaults

\* At most one call of the chat rings or runs.
OneCall == \A b, c \in CallIds : InProgress(b) /\ InProgress(c) => b = c

\* A positive answer, the first or one to a retry after a lost answer, a
\* crash or later signals, names the event the signal became and the state
\* that event led to; the signal became no second one, and its operation id
\* none of another content.
AnswersTrue ==
  \A a \in answers :
    /\ log[a.seq].sig = a.sig /\ a.state = Believed(a.sig.call, a.seq)
    /\ \A b \in answers : b.sig.dev = a.sig.dev /\ b.sig.op = a.sig.op => b = a

\* While the group rekeys after somebody left or joined, no media signal
\* enters the log: a former member never sees one of the old epoch, although
\* membership changes between the reads of a signal and its transaction.
NoMediaInRekey ==
  E2EE => \A i, j \in 1..Len(log) :
    (i < j /\ log[i].kind \in {"left", "joined"} /\ log[j].kind \in Media)
      => \E k \in i..j : log[k].kind = "confirmed"

\* A call is created between the two active participants of the chat,
\* although the peer is read before the transaction.
BetweenActive ==
  [][\A c \in CallIds : calls[c].state = "none" /\ calls'[c].state = "ringing"
       => {calls'[c].caller, calls'[c].callee} = Active]_vars

\* A call nobody ends is ended and forgotten, so the chat can call again.
CallsEnd == \A c \in CallIds : InProgress(c) ~> calls[c].state = "none"
=============================================================================
