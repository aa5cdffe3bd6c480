------------------------------- MODULE Writer -------------------------------
(***************************************************************************)
(* The message write path of internal/core: the request handlers that      *)
(* prepare messages (messages.go), the bounded queue in front of the       *)
(* single SQLite writer and the writer goroutine that runs savepoint       *)
(* batches (writer_queue.go), and the administrative transactions that     *)
(* compete with it for the one write connection (management.go, e2ee.go).  *)
(*                                                                         *)
(* A request is a sequence of messages of one device for one chat: a       *)
(* request of one message is POST messages (send), a longer one POST batch *)
(* (batch).  A body stands for the sealed payload and everything else the  *)
(* request hash covers; a message id is represented by the event row it is *)
(* written with, which (chat, seq) identifies.                             *)
(*                                                                         *)
(* Definitions named Mut... are wrong variants of the definition they      *)
(* precede; no specification uses them (see the README).                   *)
(***************************************************************************)
EXTENDS Integers, Sequences, FiniteSets

LOCAL INSTANCE Folds

CONSTANTS
  Clients,     \* request goroutines
  Chats,
  E2EE,        \* the chats in mode "e2ee"; the others are "basic"
  Devices,     \* one device per user
  Ops,         \* operation ids
  Bodies,
  Size,        \* stored bytes of a body
  Requests,    \* the message sequences a client may send
  Capacity,    \* cap(w.jobs)
  MaxBatch,    \* maxWriteBatch
  MaxBytes,    \* maxWriteBatchBytes
  AdminLimit,  \* bound on the administrative transactions of a behaviour
  Faults,      \* what may go wrong in a behaviour, of FaultKinds
  NoMessage    \* stands where an event or a result carries no message

Message == [chat : Chats, dev : Devices, op : Ops, body : Bodies]

\* messageWriteJob: whom it answers, and what its closure captured, the
\* message and the epoch it was prepared in.
Job == [client : Clients, item : Nat \ {0}, epoch : Nat, msg : Message]

\* A client cancels; validation, a hook or a read refuses a message; a SQL
\* statement fails; the core is closed; the process is restarted.
FaultKinds == {"cancel", "refuse", "storage", "close", "restart"}

ASSUME ConstantsAssumption ==
  /\ Faults \subseteq FaultKinds
  /\ E2EE \subseteq Chats
  /\ Size \in [Bodies -> Nat \ {0}]
  /\ Capacity \in Nat \ {0}
  /\ MaxBatch \in Nat \ {0}
  /\ MaxBytes \in Nat \ {0}
  /\ AdminLimit \in Nat
  /\ NoMessage \notin Message /\ NoMessage \notin Job

ASSUME RequestsAssumption ==
  /\ Requests \subseteq Seq(Message)
  /\ \A r \in Requests :
       /\ r # <<>>
       /\ \A i, j \in DOMAIN r : r[i].chat = r[j].chat /\ r[i].dev = r[j].dev

VARIABLES
  \* the request goroutines
  pc,          \* where each one is
  req,         \* the messages of its request
  pos,         \* the message it prepares next
  group,       \* prepared jobs not yet submitted, or submitted and awaited
  held,        \* the job prepared just before a flush made room for it
  out,         \* the result of each message so far
  gone,        \* the request context is cancelled
  \* the queue
  queue, groupExtra, closed,
  \* the writer goroutine
  wpc, cur, pend, batch, res, batchErr, tx,
  coreDone,    \* Core.Context is cancelled
  \* the database, as committed
  db, acl, revoked, epoch, pending,
  admin,       \* administrative transactions so far
  \* history variables
  acked,       \* acceptances returned to clients, with what they asked for
  wrote        \* the messages of the running request its own jobs committed

callVars   == <<pc, req, pos, group, held, out, gone>>
queueVars  == <<queue, groupExtra, closed>>
workVars   == <<wpc, cur, pend, batch, res, batchErr, tx, coreDone>>
accessVars == <<acl, revoked, epoch, pending, admin>>
ghostVars  == <<acked, wrote>>
vars == <<callVars, queueVars, workVars, db, accessVars, ghostVars>>

-----------------------------------------------------------------------------
(* Data.                                                                   *)

Result == [st : {"none", "new", "repeated", "err"}, seq : Nat, msg : Message \cup {NoMessage}]
Row    == [chat : Chats, seq : Nat, msg : Message \cup {NoMessage}, job : Job \cup {NoMessage}]
OpRow  == [dev : Devices, op : Ops, chat : Chats, body : Bodies, seq : Nat]
Store  == [seq : [Chats -> Nat], rows : SUBSET Row, ops : SUBSET OpRow]

NoResult == [st |-> "none", seq |-> 0, msg |-> NoMessage]
Err      == [st |-> "err", seq |-> 0, msg |-> NoMessage]
OK(r)    == r.st \in {"new", "repeated"}

Bytes(jobs) ==
  MapThenFoldSet(LAMBDA x, y : x + y, 0,
                 LAMBDA i : Size[jobs[i].msg.body],
                 LAMBDA S : CHOOSE i \in S : TRUE, DOMAIN jobs)

GroupLimit == IF MaxBatch < Capacity THEN MaxBatch ELSE Capacity

\* Append: the chat's counter is incremented and one event row inserted.
AppendRow(s, ch, m, j) ==
  [s EXCEPT !.seq[ch] = @ + 1,
            !.rows = @ \cup {[chat |-> ch, seq |-> s.seq[ch] + 1, msg |-> m, job |-> j]}]

\* The operations row of a message, if the store has one.
OpRows(s, m) == {o \in s.ops : o.dev = m.dev /\ o.op = m.op}
SameHash(o, m) == o.chat = m.chat /\ o.body = m.body

\* The result stored with an operation.
Saved(o) == [st |-> "repeated", seq |-> o.seq,
             msg |-> [chat |-> o.chat, dev |-> o.dev, op |-> o.op, body |-> o.body]]

\* A member is "out" (inactive), "muted" (can_send = 0) or a "sender".
MaySend(ch, d) == acl[ch][d] = "sender" /\ d \notin revoked
MayRead(ch, d) == acl[ch][d] # "out" /\ d \notin revoked

InitStore == [seq |-> [ch \in Chats |-> 0], rows |-> {}, ops |-> {}]

-----------------------------------------------------------------------------
Init ==
  /\ pc = [c \in Clients |-> "idle"]
  /\ req = [c \in Clients |-> <<>>]
  /\ pos = [c \in Clients |-> 1]
  /\ group = [c \in Clients |-> <<>>]
  /\ held = [c \in Clients |-> <<>>]
  /\ out = [c \in Clients |-> <<>>]
  /\ gone = [c \in Clients |-> FALSE]
  /\ queue = <<>> /\ groupExtra = 0 /\ closed = FALSE
  /\ wpc = "select" /\ cur = <<>> /\ pend = <<>> /\ batch = <<>>
  /\ res = <<>> /\ batchErr = FALSE /\ tx = InitStore /\ coreDone = FALSE
  /\ wrote = [c \in Clients |-> {}]
  /\ db = InitStore
  /\ acl = [ch \in Chats |-> [d \in Devices |-> "sender"]]
  /\ revoked = {}
  /\ epoch = [ch \in Chats |-> 0]
  /\ pending = [ch \in Chats |-> FALSE]
  /\ admin = 0
  /\ acked = {}

-----------------------------------------------------------------------------
(* The request goroutine.                                                  *)

Receive(c) ==
  /\ pc[c] = "idle"
  /\ \E r \in Requests :
       /\ req' = [req EXCEPT ![c] = r]
       /\ out' = [out EXCEPT ![c] = [i \in 1..Len(r) |-> NoResult]]
  /\ pc' = [pc EXCEPT ![c] = "prepare"]
  /\ pos' = [pos EXCEPT ![c] = 1]
  /\ UNCHANGED <<group, held, gone, queueVars, workVars, db, accessVars, ghostVars>>

\* The client disconnects.
Cancel(c) ==
  /\ "cancel" \in Faults
  /\ pc[c] # "idle" /\ ~gone[c]
  /\ gone' = [gone EXCEPT ![c] = TRUE]
  /\ UNCHANGED <<pc, req, pos, group, held, out, queueVars, workVars, db, accessVars, ghostVars>>

PendingIDs(c) == {group[c][i].msg.op : i \in DOMAIN group[c]}

\* An operation id that is already in the unsubmitted group is prepared only
\* after that group has its outcome.
FlushRepeatedOp(c) ==
  /\ pc[c] = "prepare" /\ pos[c] <= Len(req[c])
  /\ req[c][pos[c]].op \in PendingIDs(c)
  /\ pc' = [pc EXCEPT ![c] = "submit"]
  /\ UNCHANGED <<req, pos, group, held, out, gone, queueVars, workVars, db, accessVars, ghostVars>>

\* prepareMessage up to the operations lookup, on the read pool.  The lookup
\* or the validation before it may fail; with a cancelled context it does.
PrepareDedup(c) ==
  LET m    == req[c][pos[c]]
      prev == OpRows(db, m)
      settle(r) == /\ out' = [out EXCEPT ![c][pos[c]] = r]
                   /\ pos' = [pos EXCEPT ![c] = @ + 1]
                   /\ UNCHANGED pc
  IN /\ pc[c] = "prepare" /\ pos[c] <= Len(req[c])
     /\ m.op \notin PendingIDs(c)
     /\ \/ /\ gone[c] \/ "refuse" \in Faults
           /\ settle(Err)
        \/ /\ ~gone[c]
           /\ \E o \in prev :
                settle(IF SameHash(o, m) THEN Saved(o) ELSE Err)
        \/ /\ ~gone[c] /\ prev = {}
           /\ pc' = [pc EXCEPT ![c] = "access"]
           /\ UNCHANGED <<pos, out>>
     /\ UNCHANGED <<req, group, held, gone, queueVars, workVars, db, accessVars, ghostVars>>

\* The rest of prepareMessage: a second read for permission, barrier and
\* epoch, then the Prepare hooks and sealing.  Every refusal is an error
\* result; a job remembers the epoch it was prepared under.
PrepareRefused(c) ==
  /\ pc[c] = "access"
  /\ LET m == req[c][pos[c]]
     IN gone[c] \/ ~MaySend(m.chat, m.dev) \/ pending[m.chat] \/ "refuse" \in Faults
  /\ out' = [out EXCEPT ![c][pos[c]] = Err]
  /\ pos' = [pos EXCEPT ![c] = @ + 1]
  /\ pc' = [pc EXCEPT ![c] = "prepare"]
  /\ UNCHANGED <<req, group, held, gone, queueVars, workVars, db, accessVars, ghostVars>>

PrepareAccepted(c) ==
  LET m   == req[c][pos[c]]
      job == [client |-> c, item |-> pos[c], epoch |-> epoch[m.chat], msg |-> m]
      flush == Len(group[c]) > 0
               /\ (Len(group[c]) = GroupLimit \/ Size[m.body] > MaxBytes - Bytes(group[c]))
  IN /\ pc[c] = "access" /\ ~gone[c]
     /\ MaySend(m.chat, m.dev) /\ ~pending[m.chat]
     /\ pos' = [pos EXCEPT ![c] = @ + 1]
     /\ IF flush
          THEN /\ held' = [held EXCEPT ![c] = <<job>>]
               /\ pc' = [pc EXCEPT ![c] = "submit"]
               /\ UNCHANGED group
          ELSE /\ group' = [group EXCEPT ![c] = Append(@, job)]
               /\ pc' = [pc EXCEPT ![c] = "prepare"]
               /\ UNCHANGED held
     /\ UNCHANGED <<req, out, gone, queueVars, workVars, db, accessVars, ghostVars>>

PrepareDone(c) ==
  /\ pc[c] = "prepare" /\ pos[c] > Len(req[c])
  /\ pc' = [pc EXCEPT ![c] = IF group[c] = <<>> THEN "answer" ELSE "submit"]
  /\ UNCHANGED <<req, pos, group, held, out, gone, queueVars, workVars, db, accessVars, ghostVars>>

MutFull(n) == Len(queue) + groupExtra >= Capacity

\* The admission rule of enqueue (one job) and submitGroup (several): a group
\* takes one channel slot and Len - 1 units of groupExtra.
Full(n) == Len(queue) + groupExtra + n > Capacity

SubmitRejected(c) ==
  /\ pc[c] = "submit"
  /\ gone[c] \/ closed \/ Full(Len(group[c])) \/ Len(queue) >= Capacity
  /\ out' = [out EXCEPT ![c] =
       [i \in DOMAIN @ |-> IF \E k \in DOMAIN group[c] : group[c][k].item = i THEN Err ELSE @[i]]]
  /\ group' = [group EXCEPT ![c] = held[c]]
  /\ held' = [held EXCEPT ![c] = <<>>]
  /\ pc' = [pc EXCEPT ![c] = "prepare"]
  /\ UNCHANGED <<req, pos, gone, queueVars, workVars, db, accessVars, ghostVars>>

SubmitAdmitted(c) ==
  /\ pc[c] = "submit"
  /\ ~gone[c] /\ ~closed /\ ~Full(Len(group[c])) /\ Len(queue) < Capacity
  /\ queue' = Append(queue, group[c])
  /\ groupExtra' = groupExtra + Len(group[c]) - 1
  /\ pc' = [pc EXCEPT ![c] = "wait"]
  /\ UNCHANGED <<req, pos, group, held, out, gone, closed, workVars, db, accessVars, ghostVars>>

\* The submitter waits for the outcome of every job, cancelled or not.
Collect(c) ==
  /\ pc[c] = "wait"
  /\ \A k \in DOMAIN group[c] : out[c][group[c][k].item] # NoResult
  /\ group' = [group EXCEPT ![c] = held[c]]
  /\ held' = [held EXCEPT ![c] = <<>>]
  /\ pc' = [pc EXCEPT ![c] = "prepare"]
  /\ UNCHANGED <<req, pos, out, gone, queueVars, workVars, db, accessVars, ghostVars>>

\* sendResult for every item, then the response.  A stored result is shown
\* only to a device that still has access; any projection may fail, so the
\* accepted items are any subset of those the rules allow.
Answer(c) ==
  LET shown == {i \in DOMAIN req[c] :
                  \/ out[c][i].st = "new"
                  \/ /\ out[c][i].st = "repeated"
                     /\ MayRead(req[c][i].chat, req[c][i].dev)}
  IN /\ pc[c] = "answer"
     /\ \E S \in SUBSET shown :
          acked' = acked \cup {[asked |-> req[c][i], msg |-> out[c][i].msg, seq |-> out[c][i].seq]
                               : i \in S}
     /\ pc' = [pc EXCEPT ![c] = "idle"]
     /\ req' = [req EXCEPT ![c] = <<>>]
     /\ pos' = [pos EXCEPT ![c] = 1]
     /\ out' = [out EXCEPT ![c] = <<>>]
     /\ gone' = [gone EXCEPT ![c] = FALSE]
     /\ wrote' = [wrote EXCEPT ![c] = {}]
     /\ UNCHANGED <<group, held, queueVars, workVars, db, accessVars>>

Caller(c) ==
  \/ FlushRepeatedOp(c) \/ PrepareDedup(c) \/ PrepareRefused(c) \/ PrepareAccepted(c)
  \/ PrepareDone(c) \/ SubmitRejected(c) \/ SubmitAdmitted(c) \/ Collect(c) \/ Answer(c)

-----------------------------------------------------------------------------
(* The writer goroutine.                                                   *)

Take ==
  /\ wpc = "select" /\ queue # <<>>
  /\ cur' = Head(queue)
  /\ queue' = Tail(queue)
  /\ wpc' = "process"
  /\ UNCHANGED <<callVars, groupExtra, closed, pend, batch, res, batchErr, tx, coreDone, db,
                 accessVars, ghostVars>>

\* stop is observed only between batches and the loop returns once nothing
\* is queued.
Return ==
  /\ wpc = "select" /\ closed /\ queue = <<>>
  /\ wpc' = "stopped"
  /\ UNCHANGED <<callVars, queueVars, cur, pend, batch, res, batchErr, tx, coreDone, db,
                 accessVars, ghostVars>>

\* A group pays back its extra slots and runs alone; a single job drains.
Process ==
  /\ wpc = "process"
  /\ groupExtra' = groupExtra - (Len(cur) - 1)
  /\ batch' = cur
  /\ cur' = <<>>
  /\ wpc' = IF Len(cur) > 1 THEN "begin" ELSE "drain"
  /\ UNCHANGED <<callVars, queue, closed, pend, res, batchErr, tx, coreDone, db, accessVars, ghostVars>>

\* A single job shares its transaction with the singles already queued.
DrainOpen == Len(batch) < MaxBatch /\ Bytes(batch) < MaxBytes /\ queue # <<>>
Joins(el) == Len(el) = 1 /\ Bytes(el) <= MaxBytes - Bytes(batch)

DrainJoin ==
  /\ wpc = "drain" /\ DrainOpen /\ Joins(Head(queue))
  /\ batch' = batch \o Head(queue)
  /\ queue' = Tail(queue)
  /\ UNCHANGED <<callVars, groupExtra, closed, wpc, cur, pend, res, batchErr, tx, coreDone, db,
                 accessVars, ghostVars>>

MutDrainPend ==
  /\ wpc = "drain" /\ DrainOpen /\ ~Joins(Head(queue))
  /\ queue' = Tail(queue)
  /\ wpc' = "begin"
  /\ UNCHANGED <<callVars, groupExtra, closed, cur, pend, batch, res, batchErr, tx, coreDone, db,
                 accessVars, ghostVars>>

\* What does not fit, and every group, is kept for the next round.
DrainPend ==
  /\ wpc = "drain" /\ DrainOpen /\ ~Joins(Head(queue))
  /\ pend' = Head(queue)
  /\ queue' = Tail(queue)
  /\ wpc' = "begin"
  /\ UNCHANGED <<callVars, groupExtra, closed, cur, batch, res, batchErr, tx, coreDone, db,
                 accessVars, ghostVars>>

DrainEnd ==
  /\ wpc = "drain" /\ ~DrainOpen
  /\ wpc' = "begin"
  /\ UNCHANGED <<callVars, queueVars, cur, pend, batch, res, batchErr, tx, coreDone, db,
                 accessVars, ghostVars>>

\* Statements fail on their own, or because Core.Context has ended.
StorageMayFail == coreDone \/ "storage" \in Faults

Begin(fail) ==
  /\ wpc = "begin"
  /\ coreDone => fail
  /\ fail => StorageMayFail
  /\ batchErr' = fail
  /\ tx' = IF fail THEN InitStore ELSE db
  /\ res' = <<>>
  /\ wpc' = "run"
  /\ UNCHANGED <<callVars, queueVars, cur, pend, batch, coreDone, db, accessVars, ghostVars>>

Running == wpc = "run" /\ Len(res) < Len(batch)
NextJob == batch[Len(res) + 1]

SkipJob ==
  /\ Running
  /\ gone[NextJob.client] \/ batchErr
  /\ res' = Append(res, Err)
  /\ UNCHANGED <<callVars, queueVars, wpc, cur, pend, batch, batchErr, tx, coreDone, db,
                 accessVars, ghostVars>>

MutAdmissible(j) == ~pending[j.msg.chat]

\* The checks persistMessageInTx repeats inside the transaction.
Admissible(j) ==
  LET m == j.msg
  IN MaySend(m.chat, m.dev) /\ ~pending[m.chat] /\ j.epoch = epoch[m.chat]

Conflicts(s, j) == \E o \in OpRows(s, j.msg) : ~SameHash(o, j.msg)

\* The event, message and operation rows of a message that is new.
Written(s, j) ==
  LET m == j.msg
      a == AppendRow(s, m.chat, m, j)
  IN [a EXCEPT !.ops = @ \cup {[dev |-> m.dev, op |-> m.op, chat |-> m.chat, body |-> m.body,
                                 seq |-> a.seq[m.chat]]}]

\* SAVEPOINT, in a batch of several.
SavepointFails ==
  /\ Running /\ ~gone[NextJob.client] /\ ~batchErr /\ Len(batch) > 1
  /\ StorageMayFail
  /\ batchErr' = TRUE
  /\ res' = Append(res, Err)
  /\ UNCHANGED <<callVars, queueVars, wpc, cur, pend, batch, tx, coreDone, db, accessVars, ghostVars>>

MutRollbackTo(saved, dirty) == dirty

\* ROLLBACK TO restores what the savepoint saw.
RollbackTo(saved, dirty) == saved

\* runTx returns an error: a repeated check refuses, a statement or an
\* InTransaction hook fails, or the context ends, before or after its writes.
PersistFails ==
  /\ Running /\ ~batchErr
  /\ \/ gone[NextJob.client] \/ StorageMayFail
     \/ ~Admissible(NextJob) \/ Conflicts(tx, NextJob)
  /\ res' = Append(res, Err)
  /\ LET writes == Admissible(NextJob) /\ OpRows(tx, NextJob.msg) = {}
         dirty  == IF writes THEN Written(tx, NextJob) ELSE tx
     IN \/ /\ Len(batch) > 1
           /\ tx' = RollbackTo(tx, dirty)
           /\ batchErr' = FALSE
        \/ /\ Len(batch) = 1 \/ StorageMayFail
           /\ tx' = dirty
           /\ batchErr' = TRUE
  /\ UNCHANGED <<callVars, queueVars, wpc, cur, pend, batch, coreDone, db, accessVars, ghostVars>>

PersistRepeated(releaseFails) ==
  /\ Running /\ ~gone[NextJob.client] /\ ~batchErr
  /\ releaseFails => Len(batch) > 1 /\ StorageMayFail
  /\ Admissible(NextJob) /\ ~Conflicts(tx, NextJob)
  /\ \E o \in OpRows(tx, NextJob.msg) :
       res' = Append(res, Saved(o))
  /\ batchErr' = releaseFails
  /\ UNCHANGED <<callVars, queueVars, wpc, cur, pend, batch, tx, coreDone, db, accessVars, ghostVars>>

PersistNew(releaseFails) ==
  /\ Running /\ ~gone[NextJob.client] /\ ~batchErr
  /\ releaseFails => Len(batch) > 1 /\ StorageMayFail
  /\ Admissible(NextJob) /\ OpRows(tx, NextJob.msg) = {}
  /\ tx' = Written(tx, NextJob)
  /\ res' = Append(res, [st |-> "new", seq |-> tx.seq[NextJob.msg.chat] + 1, msg |-> NextJob.msg])
  /\ batchErr' = releaseFails
  /\ UNCHANGED <<callVars, queueVars, wpc, cur, pend, batch, coreDone, db, accessVars, ghostVars>>

Changed == {k \in DOMAIN res : res[k].st = "new"}

Commit ==
  /\ wpc = "run" /\ Len(res) = Len(batch)
  /\ ~batchErr /\ Changed # {} /\ ~coreDone
  /\ db' = tx
  /\ wrote' = [c \in Clients |-> wrote[c] \cup
                 {r.job.item : r \in {q \in tx.rows \ db.rows : q.job # NoMessage /\ q.job.client = c}}]
  /\ tx' = InitStore
  /\ wpc' = "reply"
  /\ UNCHANGED <<callVars, queueVars, cur, pend, batch, res, batchErr, coreDone, accessVars, acked>>

\* The commit fails, there is nothing to commit, or the batch already failed;
\* the rollback of a clean batch may fail too.
Rollback(fail) ==
  /\ wpc = "run" /\ Len(res) = Len(batch)
  /\ (~batchErr /\ Changed # {}) => fail
  /\ fail => StorageMayFail
  /\ batchErr' = (batchErr \/ fail)
  /\ tx' = InitStore
  /\ wpc' = "reply"
  /\ UNCHANGED <<callVars, queueVars, cur, pend, batch, res, coreDone, db, accessVars, ghostVars>>

MutFinal(r) == IF batchErr /\ r.st = "new" THEN Err ELSE r

\* A failed transaction invalidates every tentative success of the batch.
Final(r) == IF batchErr /\ OK(r) THEN Err ELSE r

Reply ==
  /\ wpc = "reply"
  /\ out' = [c \in Clients |-> [i \in DOMAIN out[c] |->
       IF \E k \in DOMAIN batch : batch[k].client = c /\ batch[k].item = i
         THEN Final(res[CHOOSE k \in DOMAIN batch : batch[k].client = c /\ batch[k].item = i])
         ELSE out[c][i]]]
  /\ cur' = pend
  /\ pend' = <<>>
  /\ wpc' = IF pend = <<>> THEN "select" ELSE "process"
  /\ batch' = <<>> /\ res' = <<>> /\ batchErr' = FALSE
  /\ UNCHANGED <<pc, req, pos, group, held, gone, queueVars, tx, coreDone, db, accessVars, ghostVars>>

Worker ==
  \/ Take \/ Return \/ Process \/ DrainJoin \/ DrainPend \/ DrainEnd
  \/ (\E f \in BOOLEAN : Begin(f) \/ PersistRepeated(f) \/ PersistNew(f) \/ Rollback(f))
  \/ SkipJob \/ SavepointFails \/ PersistFails \/ Commit \/ Reply

-----------------------------------------------------------------------------
(* Core.Close, process death, and the other transactions.                  *)

CloseCore ==
  /\ "close" \in Faults /\ ~coreDone
  /\ coreDone' = TRUE
  /\ UNCHANGED <<callVars, queueVars, wpc, cur, pend, batch, res, batchErr, tx, db, accessVars, ghostVars>>

CloseWriter ==
  /\ coreDone /\ ~closed
  /\ closed' = TRUE
  /\ UNCHANGED <<callVars, queue, groupExtra, workVars, db, accessVars, ghostVars>>

\* The process ends, gracefully or not, and is started again: only what was
\* committed remains, and the clients saw no answer.
Restart ==
  /\ "restart" \in Faults
  /\ pc' = [c \in Clients |-> "idle"]
  /\ req' = [c \in Clients |-> <<>>]
  /\ pos' = [c \in Clients |-> 1]
  /\ group' = [c \in Clients |-> <<>>]
  /\ held' = [c \in Clients |-> <<>>]
  /\ out' = [c \in Clients |-> <<>>]
  /\ gone' = [c \in Clients |-> FALSE]
  /\ queue' = <<>> /\ groupExtra' = 0 /\ closed' = FALSE
  /\ wpc' = "select" /\ cur' = <<>> /\ pend' = <<>> /\ batch' = <<>>
  /\ res' = <<>> /\ batchErr' = FALSE /\ tx' = InitStore /\ coreDone' = FALSE
  /\ wrote' = [c \in Clients |-> {}]
  /\ UNCHANGED <<db, accessVars, acked>>

ConnectionFree == wpc # "run"

PutMember(ch, d, status) ==
  /\ admin < AdminLimit /\ ConnectionFree
  /\ admin' = admin + 1
  /\ acl' = [acl EXCEPT ![ch][d] = status]
  /\ pending' = [pending EXCEPT ![ch] =
       @ \/ (ch \in E2EE /\ (acl[ch][d] = "out") # (status = "out"))]
  /\ db' = AppendRow(db, ch, NoMessage, NoMessage)
  /\ UNCHANGED <<callVars, queueVars, workVars, revoked, epoch, ghostVars>>

RevokeDevice(d) ==
  /\ admin < AdminLimit /\ ConnectionFree
  /\ admin' = admin + 1
  /\ revoked' = revoked \cup {d}
  /\ pending' = [ch \in Chats |-> pending[ch] \/ (ch \in E2EE /\ acl[ch][d] # "out")]
  /\ UNCHANGED <<callVars, queueVars, workVars, db, acl, epoch, ghostVars>>

ConfirmMLSEpoch(ch) ==
  /\ admin < AdminLimit /\ ConnectionFree
  /\ ch \in E2EE /\ pending[ch]
  /\ admin' = admin + 1
  /\ epoch' = [epoch EXCEPT ![ch] = @ + 1]
  /\ pending' = [pending EXCEPT ![ch] = FALSE]
  /\ db' = AppendRow(db, ch, NoMessage, NoMessage)
  /\ UNCHANGED <<callVars, queueVars, workVars, acl, revoked, ghostVars>>

Administer ==
  \/ \E ch \in Chats, d \in Devices, s \in {"out", "muted", "sender"} : PutMember(ch, d, s)
  \/ \E d \in Devices : RevokeDevice(d)
  \/ \E ch \in Chats : ConfirmMLSEpoch(ch)

Next ==
  \/ \E c \in Clients : Receive(c) \/ Cancel(c) \/ Caller(c)
  \/ Worker
  \/ CloseCore \/ CloseWriter \/ Restart
  \/ Administer

Spec == Init /\ [][Next]_vars

\* Goroutines that can run are run; closing, restarting, cancelling and
\* administering are nobody's duty.
FairSpec == Spec /\ WF_vars(Worker) /\ \A c \in Clients : WF_vars(Caller(c))

-----------------------------------------------------------------------------
(* Properties.                                                             *)

CallTypes ==
  /\ pc \in [Clients -> {"idle", "prepare", "access", "submit", "wait", "answer"}]
  /\ req \in [Clients -> Seq(Message)]
  /\ pos \in [Clients -> Nat \ {0}]
  /\ group \in [Clients -> Seq(Job)]
  /\ held \in [Clients -> Seq(Job)]
  /\ out \in [Clients -> Seq(Result)]
  /\ gone \in [Clients -> BOOLEAN]

WorkTypes ==
  /\ queue \in Seq(Seq(Job)) /\ groupExtra \in Int /\ closed \in BOOLEAN
  /\ wpc \in {"select", "process", "drain", "begin", "run", "reply", "stopped"}
  /\ cur \in Seq(Job) /\ pend \in Seq(Job) /\ batch \in Seq(Job)
  /\ res \in Seq(Result) /\ batchErr \in BOOLEAN /\ coreDone \in BOOLEAN

StoreTypes ==
  /\ tx \in Store /\ db \in Store
  /\ acl \in [Chats -> [Devices -> {"out", "muted", "sender"}]]
  /\ revoked \subseteq Devices
  /\ epoch \in [Chats -> Nat] /\ pending \in [Chats -> BOOLEAN]
  /\ admin \in Nat

GhostTypes ==
  /\ acked \subseteq [asked : Message, msg : Message \cup {NoMessage}, seq : Nat]
  /\ wrote \in [Clients -> SUBSET (Nat \ {0})]

\* Types of the handler, queue, writer and database state.
TypeOK == CallTypes /\ WorkTypes /\ StoreTypes /\ GhostTypes

\* Admission never lets the channel plus the slots that groups hold beyond
\* their first job exceed the channel's capacity (enqueue, submitGroup).
QueueBound == Len(queue) + groupExtra <= Capacity

\* An acceptance the client saw names a message that is in the committed log
\* with that sequence number and content: nothing is acknowledged before
\* the shared commit, and no crash, rollback or batch neighbour undoes it.
\* It follows from ImplementsLog, as receipts are for entries of a log that only grows.
AckedDurable ==
  \A a \in acked : \E r \in db.rows : r.chat = a.msg.chat /\ r.seq = a.seq /\ r.msg = a.msg

\* What the writer tells a submitter is what happened to its job: an error
\* means the job left nothing behind, a fresh success that its row is
\* committed, whatever races the cancellation of the request.
DefinitiveOutcome ==
  \A c \in Clients : \A i \in DOMAIN out[c] :
    /\ out[c][i].st = "err" => i \notin wrote[c]
    /\ out[c][i].st = "new" => i \in wrote[c]

\* A message row is committed only for a device that may send at that
\* moment, in the chat's current epoch and not behind the rekey barrier,
\* although all three were first checked before queueing.
GatedCommit ==
  [][\A r \in db'.rows \ db.rows :
       r.msg # NoMessage =>
         MaySend(r.chat, r.msg.dev) /\ ~pending[r.chat] /\ r.job.epoch = epoch[r.chat]]_vars

\* A submitter that was admitted gets all its results.
EveryWaitEnds == \A c \in Clients : pc[c] = "wait" ~> pc[c] # "wait"

\* The write path implements a durable append-only log with receipts.
Log == INSTANCE MessageLog WITH log <- db.rows, receipts <- acked
ImplementsLog == Log!Spec
=============================================================================
