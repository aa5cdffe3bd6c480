---------------------------- MODULE WriterProofs ----------------------------
(***************************************************************************)
(* Theorems about Writer, for every number of clients, chats, devices and  *)
(* messages, every queue capacity and every batch limit: its types and the *)
(* bound of its queue, that what was acknowledged is durable, what a       *)
(* commit may append (GatedCommit), that the answer to every job is what   *)
(* happened to it (DefinitiveOutcome), and that the whole write path       *)
(* implements MessageLog (ImplementsLog).                                  *)
(*                                                                         *)
(* Inductive invariants carry the proofs, each on top of the types.        *)
(*   DurInv     what was acknowledged is in the store, or stays there      *)
(*   LogInv     the committed store is a journal without gaps, and the     *)
(*              running transaction continues it with rows of its results  *)
(*   FlightInv  every prepared or submitted job stands for the message of  *)
(*              its item, is in one place of the queue and the writer, and *)
(*              belongs to a client that waits for it                      *)
(*   OutcomeInv what the jobs of a request committed is what their results *)
(*              say, or will say when the worker replies                   *)
(***************************************************************************)
EXTENDS Writer, TLAPS

-----------------------------------------------------------------------------
(* Sequences and stores.                                                   *)

\* A function on 1..n is a sequence.
LEMMA FunctionIsSeq ==
  ASSUME NEW S, NEW n \in Nat, NEW f \in [1..n -> S]
  PROVE  f \in Seq(S) /\ Len(f) = n
  OBVIOUS

\* Overwriting an element keeps a sequence's type and length.
LEMMA SeqExcept ==
  ASSUME NEW S, NEW s \in Seq(S), NEW i, NEW x \in S
  PROVE  [s EXCEPT ![i] = x] \in Seq(S) /\ Len([s EXCEPT ![i] = x]) = Len(s)
<1>1. Len(s) \in Nat /\ s \in [1..Len(s) -> S]
  OBVIOUS
<1>2. [s EXCEPT ![i] = x] \in [1..Len(s) -> S]
  BY <1>1
<1> QED
  BY <1>1, <1>2, FunctionIsSeq

\* The empty database is a store.
LEMMA InitStoreType == InitStore \in Store
  BY DEF InitStore, Store

\* Append writes a store, whether the row carries a message or not.
LEMMA AppendRowType ==
  ASSUME NEW s \in Store, NEW ch \in Chats, NEW m \in Message \cup {NoMessage},
         NEW j \in Job \cup {NoMessage}
  PROVE  /\ AppendRow(s, ch, m, j) \in Store
         /\ AppendRow(s, ch, m, j).rows
              = s.rows \cup {[chat |-> ch, seq |-> s.seq[ch] + 1, msg |-> m, job |-> j]}
         /\ AppendRow(s, ch, m, j).ops = s.ops
         /\ AppendRow(s, ch, m, j).seq[ch] = s.seq[ch] + 1
         /\ AppendRow(s, ch, m, j).seq = [s.seq EXCEPT ![ch] = @ + 1]
<1> DEFINE r == [chat |-> ch, seq |-> s.seq[ch] + 1, msg |-> m, job |-> j]
           q == [s.seq EXCEPT ![ch] = @ + 1]
<1>1. s.seq \in [Chats -> Nat] /\ s.rows \subseteq Row /\ s.ops \subseteq OpRow
  BY DEF Store
<1>2. q \in [Chats -> Nat] /\ q[ch] = s.seq[ch] + 1
  BY <1>1
<1>3. r \in Row
  BY <1>1 DEF Row
<1>4. s = [seq |-> s.seq, rows |-> s.rows, ops |-> s.ops]
  BY DEF Store
<1>5. AppendRow(s, ch, m, j) = [[s EXCEPT !.seq = q] EXCEPT !.rows = s.rows \cup {r}]
  BY <1>4 DEF AppendRow
<1>6. AppendRow(s, ch, m, j) = [seq |-> q, rows |-> s.rows \cup {r}, ops |-> s.ops]
  BY <1>4, <1>5
<1> QED
  BY <1>1, <1>2, <1>3, <1>6 DEF Store

\* What persistMessageInTx leaves behind: one event row and one operations
\* row that names it.
LEMMA WrittenType ==
  ASSUME NEW s \in Store, NEW j \in Job
  PROVE  LET m == j.msg IN
         /\ Written(s, j) \in Store
         /\ Written(s, j).rows
              = s.rows \cup {[chat |-> m.chat, seq |-> s.seq[m.chat] + 1, msg |-> m, job |-> j]}
         /\ Written(s, j).ops
              = s.ops \cup {[dev |-> m.dev, op |-> m.op, chat |-> m.chat, body |-> m.body,
                             seq |-> s.seq[m.chat] + 1]}
         /\ Written(s, j).seq = [s.seq EXCEPT ![m.chat] = @ + 1]
<1> DEFINE m == j.msg
           a == AppendRow(s, m.chat, m, j)
           o == [dev |-> m.dev, op |-> m.op, chat |-> m.chat, body |-> m.body,
                 seq |-> s.seq[m.chat] + 1]
<1>1. m \in Message /\ m.chat \in Chats
  BY DEF Job, Message
<1>2. /\ a \in Store /\ a.ops = s.ops
      /\ a.rows = s.rows \cup {[chat |-> m.chat, seq |-> s.seq[m.chat] + 1, msg |-> m, job |-> j]}
      /\ a.seq[m.chat] = s.seq[m.chat] + 1
      /\ a.seq = [s.seq EXCEPT ![m.chat] = @ + 1]
  BY <1>1, AppendRowType
<1>3. o \in OpRow
  BY <1>1 DEF OpRow, Message, Store
<1>4. Written(s, j) = [a EXCEPT !.ops = a.ops \cup {o}]
  BY <1>2 DEF Written
<1>5. a = [seq |-> a.seq, rows |-> a.rows, ops |-> a.ops]
  BY <1>2 DEF Store
<1>6. Written(s, j) = [seq |-> a.seq, rows |-> a.rows, ops |-> a.ops \cup {o}]
  BY <1>4, <1>5
<1> HIDE DEF a, o
<1>7. a.ops \cup {o} \subseteq OpRow /\ a.rows \subseteq Row /\ a.seq \in [Chats -> Nat]
  BY <1>2, <1>3 DEF Store
<1>8. Written(s, j) \in Store
  BY <1>6, <1>7 DEF Store
<1> QED
  BY <1>2, <1>6, <1>8 DEF o

\* A stored operation answers with a result.
LEMMA SavedType ==
  ASSUME NEW s \in Store, NEW o \in s.ops
  PROVE  Saved(o) \in Result
<1>1. o \in OpRow
  BY DEF Store
<1>2. [chat |-> o.chat, dev |-> o.dev, op |-> o.op, body |-> o.body] \in Message
  BY <1>1 DEF OpRow, Message
<1> QED
  BY <1>1, <1>2 DEF Saved, Result, OpRow

\* The two results that carry no message.
LEMMA ConstantResults == Err \in Result /\ NoResult \in Result
  BY DEF Err, NoResult, Result

-----------------------------------------------------------------------------
(* Type correctness.                                                       *)

\* Where the code indexes a request or a result list, the index exists.
Indexed ==
  /\ \A c \in Clients : pc[c] = "access" => pos[c] <= Len(req[c])
  /\ \A c \in Clients : Len(out[c]) = Len(req[c])
  /\ wpc = "reply" => Len(res) = Len(batch)

TypeInv == TypeOK /\ Indexed

\* The initial state is well typed.
LEMMA TypeInit == Init => TypeInv
<1> SUFFICES ASSUME Init PROVE TypeInv
  OBVIOUS
<1>1. CallTypes
  BY DEF Init, CallTypes
<1>2. WorkTypes
  <2>1. <<>> \in Seq(Seq(Job)) /\ <<>> \in Seq(Job) /\ <<>> \in Seq(Result) /\ 0 \in Int
    OBVIOUS
  <2> QED
    BY <2>1 DEF Init, WorkTypes
<1>3. StoreTypes
  BY InitStoreType DEF Init, StoreTypes
<1>4. GhostTypes
  BY DEF Init, GhostTypes
<1>5. Indexed
  BY DEF Init, Indexed
<1> QED
  BY <1>1, <1>2, <1>3, <1>4, <1>5 DEF TypeInv, TypeOK

\* The request goroutine's steps keep every type.
LEMMA RequestType ==
  ASSUME TypeInv, NEW c \in Clients, Receive(c) \/ Cancel(c) \/ Caller(c)
  PROVE  TypeInv'
<1> USE DEF TypeInv, TypeOK, CallTypes, WorkTypes, StoreTypes, GhostTypes, Indexed,
            callVars, queueVars, workVars, accessVars, ghostVars
<1>1. CASE Receive(c)
  <2>1. PICK r \in Requests : req' = [req EXCEPT ![c] = r]
                              /\ out' = [out EXCEPT ![c] = [i \in 1..Len(r) |-> NoResult]]
    BY <1>1 DEF Receive
  <2>2. r \in Seq(Message) /\ Len(r) \in Nat
    BY RequestsAssumption
  <2>3. [i \in 1..Len(r) |-> NoResult] \in Seq(Result)
        /\ Len([i \in 1..Len(r) |-> NoResult]) = Len(r)
    BY <2>2, ConstantResults
  <2> QED
    BY <1>1, <2>1, <2>2, <2>3 DEF Receive
<1>2. CASE Cancel(c)
  BY <1>2 DEF Cancel
<1>3. CASE FlushRepeatedOp(c)
  BY <1>3 DEF FlushRepeatedOp
<1>4. CASE PrepareDedup(c)
  <2>1. \A o \in OpRows(db, req[c][pos[c]]) : Saved(o) \in Result
    BY SavedType DEF OpRows
  <2>2. \A x \in Result : [out[c] EXCEPT ![pos[c]] = x] \in Seq(Result)
                          /\ Len([out[c] EXCEPT ![pos[c]] = x]) = Len(out[c])
    BY SeqExcept
  <2>3. CASE UNCHANGED <<pos, out>>
    BY <1>4, <2>3 DEF PrepareDedup
  <2>4. CASE ~UNCHANGED <<pos, out>>
    <3>1. PICK x \in Result : out' = [out EXCEPT ![c][pos[c]] = x]
      BY <1>4, <2>1, <2>4, ConstantResults DEF PrepareDedup
    <3>2. out' = [out EXCEPT ![c] = [out[c] EXCEPT ![pos[c]] = x]]
      BY <3>1
    <3>3. pos' = [pos EXCEPT ![c] = @ + 1] /\ UNCHANGED pc
      BY <1>4, <2>4 DEF PrepareDedup
    <3>4. out' \in [Clients -> Seq(Result)] /\ \A d \in Clients : Len(out'[d]) = Len(out[d])
      BY <2>2, <3>2
    <3>5. pos' \in [Clients -> Nat \ {0}] /\ pc[c] = "prepare"
      BY <1>4, <3>3 DEF PrepareDedup
    <3>6. UNCHANGED <<req, group, held, gone, queueVars, workVars, db, accessVars, ghostVars>>
      BY <1>4 DEF PrepareDedup
    <3> QED
      BY <3>3, <3>4, <3>5, <3>6
  <2> QED
    BY <2>3, <2>4
<1>5. CASE PrepareRefused(c)
  <2>1. [out[c] EXCEPT ![pos[c]] = Err] \in Seq(Result)
        /\ Len([out[c] EXCEPT ![pos[c]] = Err]) = Len(out[c])
    BY SeqExcept, ConstantResults
  <2>2. out' = [out EXCEPT ![c] = [out[c] EXCEPT ![pos[c]] = Err]]
    BY <1>5 DEF PrepareRefused
  <2> QED
    BY <1>5, <2>1, <2>2 DEF PrepareRefused
<1>6. CASE PrepareAccepted(c)
  <2> DEFINE m   == req[c][pos[c]]
             job == [client |-> c, item |-> pos[c], epoch |-> epoch[m.chat], msg |-> m]
  <2>1. m \in Message
    BY <1>6 DEF PrepareAccepted
  <2>2. job \in Job
    BY <2>1 DEF Job, Message
  <2> HIDE DEF job, m
  <2>4. \/ held' = [held EXCEPT ![c] = <<job>>] /\ pc' = [pc EXCEPT ![c] = "submit"] /\ UNCHANGED group
        \/ group' = [group EXCEPT ![c] = Append(group[c], job)] /\ pc' = [pc EXCEPT ![c] = "prepare"]
           /\ UNCHANGED held
    BY <1>6 DEF PrepareAccepted, job, m
  <2>5. pos' = [pos EXCEPT ![c] = @ + 1]
        /\ UNCHANGED <<req, out, gone, queueVars, workVars, db, accessVars, ghostVars>>
    BY <1>6 DEF PrepareAccepted
  <2>6. group' \in [Clients -> Seq(Job)] /\ held' \in [Clients -> Seq(Job)]
    <3>1. <<job>> \in Seq(Job) /\ Append(group[c], job) \in Seq(Job)
      BY <2>2
    <3>2. CASE group' = [group EXCEPT ![c] = Append(group[c], job)] /\ UNCHANGED held
      BY <3>1, <3>2
    <3>3. CASE held' = [held EXCEPT ![c] = <<job>>] /\ UNCHANGED group
      BY <3>1, <3>3
    <3> QED
      BY <2>4, <3>2, <3>3
  <2>7. pc' \in [Clients -> {"idle", "prepare", "access", "submit", "wait", "answer"}]
        /\ \A d \in Clients : pc'[d] = "access" => d # c /\ pc[d] = "access"
    BY <2>4
  <2>8. pos' \in [Clients -> Nat \ {0}] /\ \A d \in Clients : d # c => pos'[d] = pos[d]
    BY <2>5
  <2> QED
    BY <2>5, <2>6, <2>7, <2>8
<1>7. CASE PrepareDone(c)
  BY <1>7 DEF PrepareDone
<1>8. CASE SubmitRejected(c)
  <2> DEFINE f == [i \in DOMAIN out[c] |->
                    IF \E k \in DOMAIN group[c] : group[c][k].item = i THEN Err ELSE out[c][i]]
  <2>1. f \in [1..Len(out[c]) -> Result] /\ Len(out[c]) \in Nat
    BY ConstantResults
  <2>2. f \in Seq(Result) /\ Len(f) = Len(out[c])
    BY <2>1, FunctionIsSeq
  <2>3. out' = [out EXCEPT ![c] = f]
    BY <1>8 DEF SubmitRejected
  <2> QED
    BY <1>8, <2>2, <2>3 DEF SubmitRejected
<1>9. CASE SubmitAdmitted(c)
  BY <1>9 DEF SubmitAdmitted
<1>10. CASE Collect(c)
  BY <1>10 DEF Collect
<1>11. CASE Answer(c)
  <2>1. \A i \in DOMAIN req[c] : req[c][i] \in Message /\ out[c][i] \in Result
    OBVIOUS
  <2>2. acked' \subseteq [asked : Message, msg : Message \cup {NoMessage}, seq : Nat]
    BY <1>11, <2>1 DEF Answer, Result
  <2>3. wrote' \in [Clients -> SUBSET (Nat \ {0})]
    BY <1>11 DEF Answer
  <2> QED
    BY <1>11, <2>2, <2>3 DEF Answer
<1> QED
  BY <1>1, <1>2, <1>3, <1>4, <1>5, <1>6, <1>7, <1>8, <1>9, <1>10, <1>11 DEF Caller

\* The writer goroutine's steps keep every type.
LEMMA WorkerType == ASSUME TypeInv, Worker PROVE TypeInv'
<1> USE DEF TypeInv, TypeOK, CallTypes, WorkTypes, StoreTypes, GhostTypes, Indexed,
            callVars, queueVars, workVars, accessVars, ghostVars
<1>0. Running => NextJob \in Job
  BY DEF Running, NextJob
<1>1. CASE Take
  BY <1>1 DEF Take
<1>2. CASE Return
  BY <1>2 DEF Return
<1>3. CASE Process
  BY <1>3 DEF Process
<1>4. CASE DrainJoin
  <2>1. Head(queue) \in Seq(Job) /\ Tail(queue) \in Seq(Seq(Job))
    BY <1>4 DEF DrainJoin, DrainOpen
  <2>2. batch \o Head(queue) \in Seq(Job)
    BY <2>1
  <2> QED
    BY <1>4, <2>1, <2>2 DEF DrainJoin
<1>5. CASE DrainPend
  BY <1>5 DEF DrainPend, DrainOpen
<1>6. CASE DrainEnd
  BY <1>6 DEF DrainEnd
<1>7. ASSUME NEW f \in BOOLEAN, Begin(f) PROVE TypeInv'
  BY <1>7, InitStoreType DEF Begin
<1>8. ASSUME NEW f \in BOOLEAN, PersistRepeated(f) PROVE TypeInv'
  <2>1. PICK o \in OpRows(tx, NextJob.msg) : res' = Append(res, Saved(o))
    BY <1>8 DEF PersistRepeated
  <2>2. res' \in Seq(Result)
    BY <2>1, SavedType DEF OpRows
  <2> QED
    BY <1>8, <2>2 DEF PersistRepeated, Running
<1>9. ASSUME NEW f \in BOOLEAN, PersistNew(f) PROVE TypeInv'
  <2>1. NextJob \in Job /\ wpc = "run"
    BY <1>0, <1>9 DEF PersistNew, Running
  <2>2. Written(tx, NextJob) \in Store
    BY <2>1, WrittenType
  <2>3. [st |-> "new", seq |-> tx.seq[NextJob.msg.chat] + 1, msg |-> NextJob.msg] \in Result
    BY <2>1 DEF Result, Job, Message, Store
  <2>4. res' \in Seq(Result)
    BY <1>9, <2>3 DEF PersistNew
  <2> QED
    BY <1>9, <2>1, <2>2, <2>4 DEF PersistNew
<1>10. ASSUME NEW f \in BOOLEAN, Rollback(f) PROVE TypeInv'
  BY <1>10, InitStoreType DEF Rollback
<1>11. CASE SkipJob
  BY <1>11, ConstantResults DEF SkipJob, Running
<1>12. CASE SavepointFails
  BY <1>12, ConstantResults DEF SavepointFails, Running
<1>13. CASE PersistFails
  <2>1. NextJob \in Job /\ wpc = "run"
    BY <1>0, <1>13 DEF PersistFails, Running
  <2>2. Written(tx, NextJob) \in Store
    BY <2>1, WrittenType
  <2>3. tx' \in Store /\ batchErr' \in BOOLEAN
    BY <1>13, <2>2 DEF PersistFails, RollbackTo
  <2>4. res' \in Seq(Result)
    BY <1>13, ConstantResults DEF PersistFails
  <2> QED
    BY <1>13, <2>1, <2>3, <2>4 DEF PersistFails
<1>14. CASE Commit
  <2>1. \A r \in tx.rows : r.job # NoMessage => r.job.item \in Nat \ {0}
    BY DEF Store, Row, Job
  <2>2. wrote' \in [Clients -> SUBSET (Nat \ {0})]
    BY <1>14, <2>1 DEF Commit
  <2> QED
    BY <1>14, <2>2, InitStoreType DEF Commit
<1>15. CASE Reply
  <2> DEFINE new(c) == [i \in DOMAIN out[c] |->
               IF \E k \in DOMAIN batch : batch[k].client = c /\ batch[k].item = i
                 THEN Final(res[CHOOSE k \in DOMAIN batch : batch[k].client = c /\ batch[k].item = i])
                 ELSE out[c][i]]
  <2>1. \A k \in DOMAIN batch : Final(res[k]) \in Result
    BY <1>15, ConstantResults DEF Reply, Final
  <2>2. ASSUME NEW c \in Clients PROVE new(c) \in Seq(Result) /\ Len(new(c)) = Len(out[c])
    <3>1. new(c) \in [1..Len(out[c]) -> Result] /\ Len(out[c]) \in Nat
      BY <2>1
    <3> QED
      BY <3>1, FunctionIsSeq
  <2>3. out' = [c \in Clients |-> new(c)]
    BY <1>15 DEF Reply
  <2> HIDE DEF new
  <2>4. out' \in [Clients -> Seq(Result)] /\ \A c \in Clients : Len(out'[c]) = Len(out[c])
    BY <2>2, <2>3
  <2>5. WorkTypes'
    <3>1. <<>> \in Seq(Job) /\ <<>> \in Seq(Result)
      OBVIOUS
    <3> QED
      BY <1>15, <3>1 DEF Reply
  <2>6. UNCHANGED <<pc, req, pos, group, held, gone, tx, db, accessVars, ghostVars>> /\ wpc' # "reply"
    BY <1>15 DEF Reply
  <2> QED
    BY <2>4, <2>5, <2>6
<1> QED
  BY <1>1, <1>2, <1>3, <1>4, <1>5, <1>6, <1>7, <1>8, <1>9, <1>10, <1>11, <1>12, <1>13, <1>14, <1>15
  DEF Worker

\* Closing, restarting and administering keep every type.
LEMMA OtherType ==
  ASSUME TypeInv, CloseCore \/ CloseWriter \/ Restart \/ Administer
  PROVE  TypeInv'
<1> USE DEF TypeInv, TypeOK, CallTypes, WorkTypes, StoreTypes, GhostTypes, Indexed,
            callVars, queueVars, workVars, accessVars, ghostVars
<1>1. CASE CloseCore
  BY <1>1 DEF CloseCore
<1>2. CASE CloseWriter
  BY <1>2 DEF CloseWriter
<1>3. CASE Restart
  <2>1. CallTypes'
    BY <1>3 DEF Restart
  <2>2. WorkTypes'
    <3>1. <<>> \in Seq(Seq(Job)) /\ <<>> \in Seq(Job) /\ <<>> \in Seq(Result) /\ 0 \in Int
      OBVIOUS
    <3> QED
      BY <1>3, <3>1 DEF Restart
  <2>3. StoreTypes' /\ GhostTypes'
    BY <1>3, InitStoreType DEF Restart
  <2>4. Indexed'
    BY <1>3 DEF Restart
  <2> QED
    BY <2>1, <2>2, <2>3, <2>4
<1>4. ASSUME NEW ch \in Chats PROVE AppendRow(db, ch, NoMessage, NoMessage) \in Store
  BY AppendRowType
<1>5. ASSUME NEW ch \in Chats, NEW d \in Devices, NEW s \in {"out", "muted", "sender"},
             PutMember(ch, d, s)
      PROVE  TypeInv'
  <2>1. db' \in Store
    BY <1>4, <1>5 DEF PutMember
  <2>2. acl' \in [Chats -> [Devices -> {"out", "muted", "sender"}]]
    BY <1>5 DEF PutMember
  <2>3. pending' \in [Chats -> BOOLEAN]
    BY <1>5 DEF PutMember
  <2> QED
    BY <1>5, <2>1, <2>2, <2>3 DEF PutMember
<1>6. ASSUME NEW d \in Devices, RevokeDevice(d) PROVE TypeInv'
  <2>1. pending' \in [Chats -> BOOLEAN]
    BY <1>6 DEF RevokeDevice
  <2> QED
    BY <1>6, <2>1 DEF RevokeDevice
<1>7. ASSUME NEW ch \in Chats, ConfirmMLSEpoch(ch) PROVE TypeInv'
  <2>1. db' \in Store
    BY <1>4, <1>7 DEF ConfirmMLSEpoch
  <2> QED
    BY <1>7, <2>1 DEF ConfirmMLSEpoch
<1> HIDE DEF TypeInv
<1> QED
  BY <1>1, <1>2, <1>3, <1>5, <1>6, <1>7 DEF Administer

\* Types and indices are right in every reachable state: no handler indexes
\* past its request and the writer replies to exactly the jobs it ran.
THEOREM TypeCorrect == Spec => []TypeInv
<1>1. Init => TypeInv
  BY TypeInit
<1>2. TypeInv /\ [Next]_vars => TypeInv'
  <2> SUFFICES ASSUME TypeInv, [Next]_vars PROVE TypeInv'
    OBVIOUS
  <2>1. CASE UNCHANGED vars
    BY <2>1 DEF vars, TypeInv, TypeOK, CallTypes, WorkTypes, StoreTypes, GhostTypes, Indexed,
                callVars, queueVars, workVars, accessVars, ghostVars
  <2> QED
    BY <2>1, RequestType, WorkerType, OtherType DEF Next
<1> QED
  BY <1>1, <1>2, PTL DEF Spec

\* The type invariant the runs check.
THEOREM TypeOKHolds == Spec => []TypeOK
<1>1. TypeInv => TypeOK
  BY DEF TypeInv
<1> QED
  BY <1>1, TypeCorrect, PTL

-----------------------------------------------------------------------------
(* The queue's capacity.                                                   *)

\* No empty group is ever submitted, queued or processed, so paying a group's
\* slots back never raises groupExtra.
NonEmpty ==
  /\ \A c \in Clients : pc[c] = "submit" => group[c] # <<>>
  /\ \A i \in DOMAIN queue : queue[i] # <<>>
  /\ wpc = "process" => cur # <<>>

SlotInv == QueueBound /\ NonEmpty

\* Steps that leave the queue and the writer's program counter alone need
\* only show that a submitter has something to submit.
LEMMA SlotFrame ==
  ASSUME SlotInv, UNCHANGED <<queue, groupExtra, wpc, cur>>,
         \A c \in Clients : pc'[c] = "submit" => group'[c] # <<>>
  PROVE  SlotInv'
  BY DEF SlotInv, QueueBound, NonEmpty

\* The request goroutine keeps the bound: admission tests it.
LEMMA RequestSlots ==
  ASSUME TypeInv, SlotInv, NEW c \in Clients, Receive(c) \/ Cancel(c) \/ Caller(c)
  PROVE  SlotInv'
<1> USE DEF TypeInv, TypeOK, CallTypes, WorkTypes, callVars, queueVars, workVars
<1>0. \A d \in Clients : pc[d] = "submit" => group[d] # <<>>
  BY DEF SlotInv, NonEmpty
<1>1. CASE Receive(c)
  BY <1>0, <1>1, SlotFrame DEF Receive
<1>2. CASE Cancel(c)
  BY <1>0, <1>2, SlotFrame DEF Cancel
<1>3. CASE FlushRepeatedOp(c)
  <2>1. group[c] # <<>>
    BY <1>3 DEF FlushRepeatedOp, PendingIDs
  <2> QED
    BY <1>0, <1>3, <2>1, SlotFrame DEF FlushRepeatedOp
<1>4. CASE PrepareDedup(c)
  BY <1>0, <1>4, SlotFrame DEF PrepareDedup
<1>5. CASE PrepareRefused(c)
  BY <1>0, <1>5, SlotFrame DEF PrepareRefused
<1>6. CASE PrepareAccepted(c)
  <2>1. /\ UNCHANGED <<queue, groupExtra, wpc, cur>>
        /\ \A d \in Clients : d # c => pc'[d] = pc[d] /\ group'[d] = group[d]
    BY <1>6 DEF PrepareAccepted
  <2>2. pc'[c] = "submit" => group'[c] # <<>>
    BY <1>6 DEF PrepareAccepted
  <2>3. \A d \in Clients : pc'[d] = "submit" => group'[d] # <<>>
    BY <1>0, <2>1, <2>2
  <2> QED
    BY <2>1, <2>3, SlotFrame
<1>7. CASE PrepareDone(c)
  BY <1>0, <1>7, SlotFrame DEF PrepareDone
<1>8. CASE SubmitRejected(c)
  BY <1>0, <1>8, SlotFrame DEF SubmitRejected
<1>9. CASE SubmitAdmitted(c)
  <2>1. Len(queue') + groupExtra' <= Capacity
    BY <1>9, ConstantsAssumption DEF SubmitAdmitted, Full
  <2>2. \A i \in DOMAIN queue' : queue'[i] # <<>>
    BY <1>0, <1>9 DEF SubmitAdmitted, SlotInv, NonEmpty
  <2> QED
    BY <1>0, <1>9, <2>1, <2>2 DEF SubmitAdmitted, SlotInv, NonEmpty, QueueBound
<1>10. CASE Collect(c)
  BY <1>0, <1>10, SlotFrame DEF Collect
<1>11. CASE Answer(c)
  BY <1>0, <1>11, SlotFrame DEF Answer
<1> QED
  BY <1>1, <1>2, <1>3, <1>4, <1>5, <1>6, <1>7, <1>8, <1>9, <1>10, <1>11 DEF Caller

\* The writer goroutine only frees slots.
LEMMA WorkerSlots == ASSUME TypeInv, SlotInv, Worker PROVE SlotInv'
<1> USE DEF TypeInv, TypeOK, CallTypes, WorkTypes, callVars, queueVars, workVars,
            SlotInv, NonEmpty, QueueBound
<1>1. CASE Take
  <2>1. queue # <<>> /\ queue' = Tail(queue) /\ cur' = Head(queue) /\ UNCHANGED <<pc, group, groupExtra>>
    BY <1>1 DEF Take
  <2>2. Len(queue') + groupExtra' <= Capacity
    BY <2>1, ConstantsAssumption
  <2>3. cur' # <<>> /\ \A i \in DOMAIN queue' : queue'[i] # <<>>
    BY <2>1
  <2> QED
    BY <2>1, <2>2, <2>3
<1>2. CASE Return
  BY <1>2 DEF Return
<1>3. CASE Process
  BY <1>3, ConstantsAssumption DEF Process
<1>4. CASE DrainJoin
  <2>1. queue # <<>> /\ queue' = Tail(queue) /\ UNCHANGED <<pc, group, groupExtra, wpc, cur>>
    BY <1>4 DEF DrainJoin, DrainOpen
  <2>2. Len(queue') + groupExtra' <= Capacity
    BY <2>1, ConstantsAssumption
  <2>3. \A i \in DOMAIN queue' : queue'[i] # <<>>
    BY <2>1
  <2> QED
    BY <2>1, <2>2, <2>3
<1>5. CASE DrainPend
  <2>1. queue # <<>> /\ queue' = Tail(queue) /\ wpc' = "begin" /\ UNCHANGED <<pc, group, groupExtra>>
    BY <1>5 DEF DrainPend, DrainOpen
  <2>2. Len(queue') + groupExtra' <= Capacity
    BY <2>1, ConstantsAssumption
  <2>3. \A i \in DOMAIN queue' : queue'[i] # <<>>
    BY <2>1
  <2> QED
    BY <2>1, <2>2, <2>3
<1>6. CASE DrainEnd
  BY <1>6 DEF DrainEnd
<1>7. ASSUME NEW f \in BOOLEAN, Begin(f) \/ Rollback(f) PROVE SlotInv'
  BY <1>7 DEF Begin, Rollback
<1>8. ASSUME NEW f \in BOOLEAN, PersistRepeated(f) \/ PersistNew(f) PROVE SlotInv'
  BY <1>8 DEF PersistRepeated, PersistNew
<1>9. CASE SkipJob \/ SavepointFails \/ PersistFails
  BY <1>9 DEF SkipJob, SavepointFails, PersistFails
<1>10. CASE Commit
  BY <1>10 DEF Commit
<1>11. CASE Reply
  BY <1>11 DEF Reply
<1> HIDE DEF SlotInv
<1> QED
  BY <1>1, <1>2, <1>3, <1>4, <1>5, <1>6, <1>7, <1>8, <1>9, <1>10, <1>11 DEF Worker

\* The other steps leave the queue alone or empty it.
LEMMA OtherSlots ==
  ASSUME TypeInv, SlotInv, CloseCore \/ CloseWriter \/ Restart \/ Administer
  PROVE  SlotInv'
<1> USE DEF callVars, queueVars, workVars, SlotInv, NonEmpty, QueueBound
<1>1. CASE CloseCore \/ CloseWriter
  BY <1>1 DEF CloseCore, CloseWriter
<1>2. CASE Restart
  BY <1>2, ConstantsAssumption DEF Restart
<1>3. CASE Administer
  BY <1>3 DEF Administer, PutMember, RevokeDevice, ConfirmMLSEpoch
<1> QED
  BY <1>1, <1>2, <1>3

\* Admission keeps channel slots plus group slots within cap(w.jobs), for
\* every capacity, group size and interleaving of submitters and writer.
THEOREM QueueBounded == Spec => []QueueBound
<1>1. Init => SlotInv
  BY ConstantsAssumption DEF Init, SlotInv, QueueBound, NonEmpty
<1>2. TypeInv /\ SlotInv /\ [Next]_vars => SlotInv'
  <2> SUFFICES ASSUME TypeInv, SlotInv, [Next]_vars PROVE SlotInv'
    OBVIOUS
  <2>1. CASE UNCHANGED vars
    BY <2>1 DEF vars, callVars, queueVars, workVars, SlotInv, QueueBound, NonEmpty
  <2> QED
    BY <2>1, RequestSlots, WorkerSlots, OtherSlots DEF Next
<1>3. SlotInv => QueueBound
  BY DEF SlotInv
<1> QED
  BY <1>1, <1>2, <1>3, TypeCorrect, PTL DEF Spec

-----------------------------------------------------------------------------
(* The central promise of the write path: an acceptance that a client saw  *)
(* is, and stays, in the committed log.                                    *)
(*                                                                         *)
(* Acceptances come from four places: the operations table on the read     *)
(* pool, the operations table inside the running transaction, a fresh      *)
(* insert, and the results a batch shares.  The invariant follows a result *)
(* through them: what the table names exists (Backed), what the running    *)
(* transaction has produced exists in it, and a transaction that is not    *)
(* committed either failed, which erases its results, or changed nothing.  *)

\* A row carries the message and number that a result or a receipt names.
Named(rows, a) == \E r \in rows : r.chat = a.msg.chat /\ r.seq = a.seq /\ r.msg = a.msg

\* Every stored operation result names a row of the same store.
Backed(s) == \A o \in s.ops : Named(s.rows, Saved(o))

\* Every acceptance of a result list is named.
Honest(rows, rs) == \A i \in DOMAIN rs : OK(rs[i]) => Named(rows, rs[i])

Transaction ==
  /\ Backed(tx)
  /\ db.rows \subseteq tx.rows
  /\ Honest(tx.rows, res)
  /\ (\A k \in DOMAIN res : res[k].st # "new") => tx = db

DurInv ==
  /\ \A a \in acked : Named(db.rows, a)
  /\ \A c \in Clients : Honest(db.rows, out[c])
  /\ Backed(db)
  /\ (wpc = "run" /\ ~batchErr) => Transaction
  /\ (wpc = "reply" /\ ~batchErr) => Honest(db.rows, res)

-----------------------------------------------------------------------------
\* A log that only grows keeps naming what it named.
LEMMA NamedGrows ==
  ASSUME NEW S, NEW T, S \subseteq T, NEW a, Named(S, a)
  PROVE  Named(T, a)
  BY DEF Named

\* So does it name what results say.
LEMMA HonestGrows ==
  ASSUME NEW S, NEW T, S \subseteq T, NEW rs, Honest(S, rs)
  PROVE  Honest(T, rs)
  BY NamedGrows DEF Honest

\* A result that is an error or is named may be appended.
LEMMA HonestAppend ==
  ASSUME NEW rows, NEW rs \in Seq(Result), Honest(rows, rs), NEW x \in Result,
         OK(x) => Named(rows, x)
  PROVE  Honest(rows, Append(rs, x))
<1>1. \A i \in DOMAIN Append(rs, x) :
        (i \in DOMAIN rs /\ Append(rs, x)[i] = rs[i]) \/ Append(rs, x)[i] = x
  OBVIOUS
<1> QED
  BY <1>1 DEF Honest

\* A result that is an error or is named may overwrite another.
LEMMA HonestExcept ==
  ASSUME NEW rows, NEW rs \in Seq(Result), Honest(rows, rs), NEW i, NEW x \in Result,
         OK(x) => Named(rows, x)
  PROVE  Honest(rows, [rs EXCEPT ![i] = x])
<1>1. \A k \in DOMAIN [rs EXCEPT ![i] = x] :
        k \in DOMAIN rs /\ ([rs EXCEPT ![i] = x][k] = rs[k] \/ [rs EXCEPT ![i] = x][k] = x)
  OBVIOUS
<1> QED
  BY <1>1 DEF Honest

\* Neither constant result accepts anything.
LEMMA Refusals == ~OK(Err) /\ ~OK(NoResult)
  BY DEF OK, Err, NoResult

\* An insert keeps a store backed, grows it and names the new result.
LEMMA WrittenBacked ==
  ASSUME NEW s \in Store, Backed(s), NEW j \in Job
  PROVE  /\ s.rows \subseteq Written(s, j).rows
         /\ Backed(Written(s, j))
         /\ Named(Written(s, j).rows,
                  [st |-> "new", seq |-> s.seq[j.msg.chat] + 1, msg |-> j.msg])
<1> DEFINE m == j.msg
           n == s.seq[m.chat] + 1
           o == [dev |-> m.dev, op |-> m.op, chat |-> m.chat, body |-> m.body, seq |-> n]
           r == [chat |-> m.chat, seq |-> n, msg |-> m, job |-> j]
           w == Written(s, j)
<1>1. w.rows = s.rows \cup {r} /\ w.ops = s.ops \cup {o}
  BY WrittenType
<1>2. m \in Message
  BY DEF Job
<1>3. m = [chat |-> m.chat, dev |-> m.dev, op |-> m.op, body |-> m.body]
  BY <1>2 DEF Message
<1>4. r.chat = m.chat /\ r.seq = n /\ r.msg = m
  OBVIOUS
<1>5. Saved(o).msg = m /\ Saved(o).seq = n
  BY <1>3 DEF Saved
<1> HIDE DEF r, o, w, n
<1>6. Named(w.rows, Saved(o))
  BY <1>1, <1>4, <1>5 DEF Named
<1>7. \A p \in s.ops : Named(w.rows, Saved(p))
  BY <1>1, NamedGrows DEF Backed
<1>8. Named(w.rows, [st |-> "new", seq |-> n, msg |-> m])
  BY <1>1, <1>4 DEF Named
<1> QED
  BY <1>1, <1>6, <1>7, <1>8 DEF Backed, w, n

-----------------------------------------------------------------------------
\* Steps of a handler touch neither the database nor the transaction.
LEMMA HandlerFrame ==
  ASSUME DurInv, UNCHANGED <<workVars, db>>,
         \A a \in acked' : Named(db.rows, a),
         \A c \in Clients : Honest(db.rows, out'[c])
  PROVE  DurInv'
  BY DEF DurInv, Transaction, workVars

\* The request goroutine accepts only what the database names.
LEMMA RequestDurable ==
  ASSUME TypeInv, DurInv, NEW c \in Clients, Receive(c) \/ Cancel(c) \/ Caller(c)
  PROVE  DurInv'
<1> USE DEF TypeInv, TypeOK, CallTypes, StoreTypes, ghostVars, callVars
<1>0. (\A a \in acked : Named(db.rows, a)) /\ \A d \in Clients : Honest(db.rows, out[d])
  BY DEF DurInv
<1>1. CASE Receive(c)
  <2>1. PICK r \in Requests : out' = [out EXCEPT ![c] = [i \in 1..Len(r) |-> NoResult]]
    BY <1>1 DEF Receive
  <2>2. Honest(db.rows, [i \in 1..Len(r) |-> NoResult])
    BY Refusals DEF Honest
  <2>3. \A d \in Clients : Honest(db.rows, out'[d])
    BY <1>0, <2>1, <2>2
  <2> QED
    BY <1>0, <1>1, <2>3, HandlerFrame DEF Receive
<1>2. CASE Cancel(c)
  BY <1>0, <1>2, HandlerFrame DEF Cancel
<1>3. CASE FlushRepeatedOp(c)
  BY <1>0, <1>3, HandlerFrame DEF FlushRepeatedOp
<1>4. CASE PrepareDedup(c)
  <2>1. ASSUME NEW x \in Result, OK(x) => Named(db.rows, x),
               out' = [out EXCEPT ![c][pos[c]] = x]
        PROVE  \A d \in Clients : Honest(db.rows, out'[d])
    <3>1. out' = [out EXCEPT ![c] = [out[c] EXCEPT ![pos[c]] = x]]
      BY <2>1
    <3>2. Honest(db.rows, [out[c] EXCEPT ![pos[c]] = x])
      BY <1>0, <2>1, HonestExcept
    <3> QED
      BY <1>0, <3>1, <3>2
  <2>2. \A o \in OpRows(db, req[c][pos[c]]) : Saved(o) \in Result /\ Named(db.rows, Saved(o))
    BY SavedType DEF OpRows, DurInv, Backed
  <2>3. \/ \E x \in Result : (OK(x) => Named(db.rows, x)) /\ out' = [out EXCEPT ![c][pos[c]] = x]
        \/ UNCHANGED out
    BY <1>4, <2>2, ConstantResults, Refusals DEF PrepareDedup
  <2>4. \A d \in Clients : Honest(db.rows, out'[d])
    BY <1>0, <2>1, <2>3
  <2> QED
    BY <1>0, <1>4, <2>4, HandlerFrame DEF PrepareDedup
<1>5. CASE PrepareRefused(c)
  <2>1. out' = [out EXCEPT ![c] = [out[c] EXCEPT ![pos[c]] = Err]]
    BY <1>5 DEF PrepareRefused
  <2>2. Honest(db.rows, [out[c] EXCEPT ![pos[c]] = Err])
    BY <1>0, HonestExcept, ConstantResults, Refusals
  <2>3. \A d \in Clients : Honest(db.rows, out'[d])
    BY <1>0, <2>1, <2>2
  <2> QED
    BY <1>0, <1>5, <2>3, HandlerFrame DEF PrepareRefused
<1>6. CASE PrepareAccepted(c)
  BY <1>0, <1>6, HandlerFrame DEF PrepareAccepted
<1>7. CASE PrepareDone(c)
  BY <1>0, <1>7, HandlerFrame DEF PrepareDone
<1>8. CASE SubmitRejected(c)
  <2> DEFINE f == [i \in DOMAIN out[c] |->
                    IF \E k \in DOMAIN group[c] : group[c][k].item = i THEN Err ELSE out[c][i]]
  <2>1. Honest(db.rows, f)
    BY <1>0, Refusals DEF Honest
  <2>2. out' = [out EXCEPT ![c] = f]
    BY <1>8 DEF SubmitRejected
  <2>3. \A d \in Clients : Honest(db.rows, out'[d])
    BY <1>0, <2>1, <2>2
  <2> QED
    BY <1>0, <1>8, <2>3, HandlerFrame DEF SubmitRejected
<1>9. CASE SubmitAdmitted(c)
  BY <1>0, <1>9, HandlerFrame DEF SubmitAdmitted
<1>10. CASE Collect(c)
  BY <1>0, <1>10, HandlerFrame DEF Collect
<1>11. CASE Answer(c)
  <2>1. DOMAIN req[c] = DOMAIN out[c]
    BY DEF Indexed
  <2>2. \A i \in DOMAIN req[c] : OK(out[c][i]) =>
          Named(db.rows, [asked |-> req[c][i], msg |-> out[c][i].msg, seq |-> out[c][i].seq])
    BY <1>0, <2>1 DEF Honest, Named
  <2>3. \A a \in acked' \ acked :
          \E i \in DOMAIN req[c] : OK(out[c][i])
            /\ a = [asked |-> req[c][i], msg |-> out[c][i].msg, seq |-> out[c][i].seq]
    BY <1>11 DEF Answer, OK
  <2>4. ASSUME NEW a \in acked' PROVE Named(db.rows, a)
    <3>1. CASE a \in acked
      BY <1>0, <3>1
    <3>2. CASE a \notin acked
      <4>1. PICK i \in DOMAIN req[c] : OK(out[c][i])
              /\ a = [asked |-> req[c][i], msg |-> out[c][i].msg, seq |-> out[c][i].seq]
        BY <2>3, <3>2
      <4>2. Named(db.rows, [asked |-> req[c][i], msg |-> out[c][i].msg, seq |-> out[c][i].seq])
        BY <2>2, <4>1
      <4> QED
        BY <4>1, <4>2
    <3> QED
      BY <3>1, <3>2
  <2>5. \A d \in Clients : Honest(db.rows, out'[d])
    BY <1>0, <1>11 DEF Answer, Honest
  <2>6. UNCHANGED <<workVars, db>>
    BY <1>11 DEF Answer
  <2> QED
    BY <2>4, <2>5, <2>6, HandlerFrame
<1> QED
  BY <1>1, <1>2, <1>3, <1>4, <1>5, <1>6, <1>7, <1>8, <1>9, <1>10, <1>11 DEF Caller

\* Steps that append an error or a named result inside the transaction.
LEMMA TransactionStep ==
  ASSUME TypeInv, DurInv, wpc = "run", UNCHANGED <<wpc, db, acked, out>>,
         NEW x \in Result, res' = Append(res, x),
         ~batchErr' => /\ ~batchErr
                       /\ Backed(tx') /\ tx.rows \subseteq tx'.rows
                       /\ OK(x) => Named(tx'.rows, x)
                       /\ x.st # "new" => tx' = tx
  PROVE  DurInv'
<1>1. CASE batchErr'
  BY <1>1 DEF DurInv
<1>2. CASE ~batchErr'
  <2>1. Transaction /\ res \in Seq(Result)
    BY <1>2 DEF DurInv, TypeInv, TypeOK, WorkTypes
  <2>2. Honest(tx'.rows, res)
    BY <1>2, <2>1, HonestGrows DEF Transaction
  <2>3. Honest(tx'.rows, res')
    BY <1>2, <2>1, <2>2, HonestAppend
  <2>4. (\A k \in DOMAIN res' : res'[k].st # "new") => tx' = db
    <3>1. DOMAIN res' = 1..(Len(res) + 1) /\ DOMAIN res = 1..Len(res) /\ Len(res) \in Nat
      BY <2>1
    <3>2. res'[Len(res) + 1] = x /\ \A k \in DOMAIN res : k \in DOMAIN res' /\ res'[k] = res[k]
      BY <2>1
    <3> QED
      BY <1>2, <2>1, <3>1, <3>2 DEF Transaction
  <2>5. Transaction'
    BY <1>2, <2>1, <2>3, <2>4 DEF Transaction
  <2> QED
    BY <2>5 DEF DurInv
<1> QED
  BY <1>1, <1>2

\* Writer steps outside the transaction change nothing the invariant reads.
LEMMA WriterFrame ==
  ASSUME DurInv, wpc \notin {"run", "reply"}, wpc' \notin {"run", "reply"},
         UNCHANGED <<db, acked, out>>
  PROVE  DurInv'
  BY DEF DurInv

\* The writer goroutine keeps the invariant.
LEMMA WorkerDurable == ASSUME TypeInv, DurInv, Worker PROVE DurInv'
<1> USE DEF callVars, ghostVars
<1>0. /\ Running => wpc = "run" /\ NextJob \in Job
      /\ tx \in Store /\ db \in Store /\ res \in Seq(Result)
  BY DEF Running, NextJob, TypeInv, TypeOK, WorkTypes, StoreTypes
<1>1. CASE Take \/ Return \/ DrainPend \/ DrainEnd
  BY <1>1, WriterFrame DEF Take, Return, DrainPend, DrainEnd
<1>2. CASE Process
  BY <1>2, WriterFrame DEF Process
<1>3. CASE DrainJoin
  BY <1>3, WriterFrame DEF DrainJoin
<1>4. ASSUME NEW f \in BOOLEAN, Begin(f) PROVE DurInv'
  <2>1. CASE f
    BY <1>4, <2>1 DEF Begin, DurInv
  <2>2. CASE ~f
    <3>1. tx' = db /\ res' = <<>> /\ wpc' = "run" /\ UNCHANGED <<db, out, acked>>
      BY <1>4, <2>2 DEF Begin
    <3>2. Transaction'
      BY <3>1 DEF Transaction, Honest, DurInv, Backed
    <3> QED
      BY <3>1, <3>2 DEF DurInv
  <2> QED
    BY <2>1, <2>2
<1>5. ASSUME NEW f \in BOOLEAN, PersistRepeated(f) PROVE DurInv'
  <2>1. PICK o \in OpRows(tx, NextJob.msg) : res' = Append(res, Saved(o))
    BY <1>5 DEF PersistRepeated
  <2>2. ~batchErr /\ Running /\ UNCHANGED <<wpc, db, tx, acked, out>>
    BY <1>5 DEF PersistRepeated
  <2>3. Transaction
    BY <1>0, <2>2 DEF DurInv
  <2>4. Saved(o) \in Result /\ Named(tx.rows, Saved(o)) /\ Backed(tx)
    BY <1>0, <2>1, <2>3, SavedType DEF OpRows, Transaction, Backed
  <2> QED
    BY <1>0, <2>1, <2>2, <2>4, TransactionStep
<1>6. ASSUME NEW f \in BOOLEAN, PersistNew(f) PROVE DurInv'
  <2> DEFINE x == [st |-> "new", seq |-> tx.seq[NextJob.msg.chat] + 1, msg |-> NextJob.msg]
  <2>1. Running /\ ~batchErr /\ tx' = Written(tx, NextJob) /\ res' = Append(res, x)
        /\ UNCHANGED <<wpc, db, acked, out>>
    BY <1>6 DEF PersistNew
  <2>2. Transaction
    BY <1>0, <2>1 DEF DurInv
  <2>3. x \in Result
    BY <1>0, <2>1 DEF Result, Job, Message, Store
  <2>4. tx.rows \subseteq tx'.rows /\ Backed(tx') /\ Named(tx'.rows, x)
    BY <1>0, <2>1, <2>2, WrittenBacked DEF Transaction
  <2>5. x.st = "new"
    OBVIOUS
  <2> HIDE DEF x
  <2> QED
    BY <1>0, <2>1, <2>3, <2>4, <2>5, TransactionStep
<1>7. CASE SkipJob \/ SavepointFails
  <2>1. Running /\ res' = Append(res, Err) /\ UNCHANGED <<wpc, db, tx, acked, out>>
        /\ (~batchErr' => ~batchErr)
    BY <1>7 DEF SkipJob, SavepointFails
  <2>2. ~batchErr => Backed(tx)
    BY <1>0, <2>1 DEF DurInv, Transaction
  <2> QED
    BY <1>0, <2>1, <2>2, ConstantResults, Refusals, TransactionStep
<1>8. CASE PersistFails
  <2>1. Running /\ ~batchErr /\ res' = Append(res, Err) /\ UNCHANGED <<wpc, db, acked, out>>
        /\ (~batchErr' => tx' = tx)
    BY <1>8 DEF PersistFails, RollbackTo
  <2>2. Backed(tx)
    BY <1>0, <2>1 DEF DurInv, Transaction
  <2> QED
    BY <1>0, <2>1, <2>2, ConstantResults, Refusals, TransactionStep
<1>9. CASE Commit
  <2>1. wpc = "run" /\ ~batchErr /\ db' = tx /\ wpc' = "reply" /\ UNCHANGED <<res, acked, out>>
    BY <1>9 DEF Commit
  <2>2. Transaction
    BY <2>1 DEF DurInv
  <2>3. db.rows \subseteq db'.rows /\ Backed(db') /\ Honest(db'.rows, res')
    BY <2>1, <2>2 DEF Transaction
  <2>4. \A a \in acked' : Named(db'.rows, a)
    BY <2>1, <2>3, NamedGrows DEF DurInv
  <2>5. \A c \in Clients : Honest(db'.rows, out'[c])
    BY <2>1, <2>3, HonestGrows DEF DurInv
  <2> QED
    BY <2>1, <2>3, <2>4, <2>5 DEF DurInv
<1>10. ASSUME NEW f \in BOOLEAN, Rollback(f) PROVE DurInv'
  <2>1. wpc = "run" /\ wpc' = "reply" /\ UNCHANGED <<db, res, acked, out>>
    BY <1>10 DEF Rollback
  <2>2. ASSUME ~batchErr' PROVE Honest(db.rows, res)
    <3>1. ~batchErr /\ Changed = {}
      BY <1>10, <2>2 DEF Rollback
    <3>2. Transaction /\ \A k \in DOMAIN res : res[k].st # "new"
      BY <2>1, <3>1 DEF DurInv, Changed
    <3> QED
      BY <3>2 DEF Transaction
  <2> QED
    BY <2>1, <2>2 DEF DurInv
<1>11. CASE Reply
  <2>1. wpc = "reply" /\ wpc' \notin {"run", "reply"} /\ UNCHANGED <<db, acked>>
    BY <1>11 DEF Reply
  <2>2. \A k \in DOMAIN batch : OK(Final(res[k])) => Named(db.rows, Final(res[k]))
    <3>1. DOMAIN batch = DOMAIN res
      BY <2>1 DEF TypeInv, TypeOK, WorkTypes, Indexed
    <3> QED
      BY <2>1, <3>1, Refusals DEF Final, DurInv, Honest
  <2>3. ASSUME NEW c \in Clients PROVE Honest(db.rows, out'[c])
    <3>1. \A i \in DOMAIN out'[c] : i \in DOMAIN out[c] /\
            (out'[c][i] = out[c][i] \/ \E k \in DOMAIN batch : out'[c][i] = Final(res[k]))
      BY <1>11 DEF Reply
    <3> QED
      BY <2>2, <3>1 DEF Honest, DurInv
  <2> QED
    BY <2>1, <2>3 DEF DurInv
<1> QED
  BY <1>1, <1>2, <1>3, <1>4, <1>5, <1>6, <1>7, <1>8, <1>9, <1>10, <1>11 DEF Worker

\* Another transaction on the write connection only adds a row.
LEMMA AdminDurable ==
  ASSUME TypeInv, DurInv, wpc # "run", UNCHANGED <<callVars, workVars, acked>>,
         NEW ch \in Chats, db' = AppendRow(db, ch, NoMessage, NoMessage)
  PROVE  DurInv'
<1>1. db \in Store
  BY DEF TypeInv, TypeOK, StoreTypes
<1>2. db.rows \subseteq db'.rows /\ db'.ops = db.ops
  <2> DEFINE r == [chat |-> ch, seq |-> db.seq[ch] + 1, msg |-> NoMessage, job |-> NoMessage]
             t == AppendRow(db, ch, NoMessage, NoMessage)
  <2>1. t \in Store /\ t.rows = db.rows \cup {r} /\ t.ops = db.ops /\ t.seq = [db.seq EXCEPT ![ch] = @ + 1]
    BY <1>1, AppendRowType
  <2> QED BY <2>1
<1>3. Backed(db')
  BY <1>2, NamedGrows DEF DurInv, Backed
<1>4. \A a \in acked' : Named(db'.rows, a)
  BY <1>2, NamedGrows DEF DurInv
<1>5. \A c \in Clients : Honest(db'.rows, out'[c])
  BY <1>2, HonestGrows DEF DurInv, callVars
<1>6. wpc' = "reply" /\ ~batchErr' => Honest(db'.rows, res')
  BY <1>2, HonestGrows DEF DurInv, workVars
<1>7. wpc' # "run"
  BY DEF workVars
<1> QED
  BY <1>3, <1>4, <1>5, <1>6, <1>7 DEF DurInv

\* Closing, restarting and administering keep the invariant: a restart
\* forgets results, never rows.
LEMMA OtherDurable ==
  ASSUME TypeInv, DurInv, CloseCore \/ CloseWriter \/ Restart \/ Administer
  PROVE  DurInv'
<1>1. CASE CloseCore \/ CloseWriter
  BY <1>1 DEF CloseCore, CloseWriter, callVars, workVars, ghostVars, DurInv, Transaction
<1>2. CASE Restart
  <2>1. wpc' = "select" /\ out' = [c \in Clients |-> <<>>] /\ UNCHANGED <<db, acked>>
    BY <1>2 DEF Restart
  <2>2. \A c \in Clients : Honest(db'.rows, out'[c])
    BY <2>1 DEF Honest
  <2> QED
    BY <2>1, <2>2 DEF DurInv
<1>3. ASSUME NEW ch \in Chats, NEW d \in Devices, NEW s \in {"out", "muted", "sender"},
             PutMember(ch, d, s)
      PROVE  DurInv'
  BY <1>3, AdminDurable DEF PutMember, ConnectionFree, ghostVars
<1>4. ASSUME NEW d \in Devices, RevokeDevice(d) PROVE DurInv'
  BY <1>4 DEF RevokeDevice, callVars, workVars, ghostVars, DurInv, Transaction
<1>5. ASSUME NEW ch \in Chats, ConfirmMLSEpoch(ch) PROVE DurInv'
  BY <1>5, AdminDurable DEF ConfirmMLSEpoch, ConnectionFree, ghostVars
<1> QED
  BY <1>1, <1>2, <1>3, <1>4, <1>5 DEF Administer

\* No step breaks the invariant.
LEMMA DurStep == ASSUME TypeInv, DurInv, [Next]_vars PROVE DurInv'
<1>1. CASE UNCHANGED vars
  BY <1>1 DEF vars, callVars, workVars, ghostVars, DurInv, Transaction
<1> QED
  BY <1>1, RequestDurable, WorkerDurable, OtherDurable DEF Next

\* What a client was told was accepted is in the committed log, with that
\* number and content, whatever restarts, rollbacks, cancellations and
\* storage failures follow.
THEOREM AckedDurableHolds == Spec => []AckedDurable
<1>1. Init => DurInv
  BY DEF Init, DurInv, Honest, Backed, InitStore
<1>2. TypeInv /\ DurInv /\ [Next]_vars => DurInv'
  BY DurStep
<1>3. DurInv => AckedDurable
  BY DEF DurInv, AckedDurable, Named
<1> QED
  BY <1>1, <1>2, <1>3, TypeCorrect, PTL DEF Spec

-----------------------------------------------------------------------------
(* The log: what a transaction may append.                                 *)

\* What persistMessageInTx has checked holds of the row it wrote.
Gated(r) == MaySend(r.chat, r.msg.dev) /\ ~pending[r.chat] /\ r.job.epoch = epoch[r.chat]

\* A store's rows are numbered without gaps up to the counter of their chat, and
\* a row that carries a message has its operations row.
Journal(s) ==
  /\ \A r \in s.rows : r.seq \in 1..s.seq[r.chat]
  /\ \A ch \in Chats : \A n \in 1..s.seq[ch] : \E r \in s.rows : r.chat = ch /\ r.seq = n
  /\ Log!Numbered(s.rows) /\ Log!Once(s.rows)
  /\ \A r \in s.rows : r.msg # NoMessage => \E o \in s.ops : o.dev = r.msg.dev /\ o.op = r.msg.op

\* What the running transaction adds to the log: rows behind its end, one for
\* every new result.
Added == tx.rows \ db.rows
Adds ==
  /\ Journal(tx) /\ db.rows \subseteq tx.rows /\ (\A ch \in Chats : db.seq[ch] <= tx.seq[ch])
  /\ \A r \in Added :
        /\ r.seq > db.seq[r.chat] /\ r.job \in Job /\ r.msg \in Message /\ Gated(r)
        /\ \E k \in DOMAIN res : res[k].st = "new" /\ batch[k] = r.job
  /\ \A k \in DOMAIN res : res[k].st = "new" => \E r \in Added : r.job = batch[k]

LogInv == Journal(db) /\ (wpc = "run" /\ ~batchErr => Adds)

-----------------------------------------------------------------------------
\* The row that Append inserts.
LEMMA JournalRow ==
  ASSUME NEW s \in Store, Journal(s), NEW t \in Store, NEW r \in Row,
         t.rows = s.rows \cup {r}, t.seq = [s.seq EXCEPT ![r.chat] = @ + 1],
         r.seq = s.seq[r.chat] + 1, s.ops \subseteq t.ops,
         r.msg # NoMessage =>
           /\ ~\E o \in s.ops : o.dev = r.msg.dev /\ o.op = r.msg.op
           /\ \E o \in t.ops : o.dev = r.msg.dev /\ o.op = r.msg.op
  PROVE  Journal(t)
<1>1. s.seq \in [Chats -> Nat] /\ t.seq \in [Chats -> Nat] /\ r.chat \in Chats /\ s.rows \subseteq Row
  BY DEF Store, Row
<1>2. \A q \in s.rows : q.chat \in Chats /\ q.seq \in Nat
  BY <1>1 DEF Row
<1>3. \A q \in t.rows : q.seq \in 1..t.seq[q.chat]
  BY <1>1, <1>2 DEF Journal
<1>4. ASSUME NEW ch \in Chats, NEW n \in 1..t.seq[ch]
      PROVE  \E q \in t.rows : q.chat = ch /\ q.seq = n
  <2>1. CASE n \in 1..s.seq[ch]
    BY <2>1 DEF Journal
  <2>2. CASE n \notin 1..s.seq[ch]
    <3>1. ch = r.chat /\ n = r.seq
      BY <1>1, <1>4, <2>2
    <3> QED BY <3>1
  <2> QED BY <2>1, <2>2
<1>5. Log!Numbered(t.rows)
  <2>1. \A q \in s.rows : q.chat = r.chat => q.seq # r.seq
    BY <1>1, <1>2 DEF Journal
  <2> QED BY <2>1 DEF Journal, Log!Numbered
<1>6. Log!Once(t.rows)
  <2>1. ASSUME NEW q \in s.rows, q.msg # NoMessage, r.msg # NoMessage
        PROVE  ~(q.msg.dev = r.msg.dev /\ q.msg.op = r.msg.op)
    BY <2>1 DEF Journal
  <2> QED BY <2>1 DEF Journal, Log!Once
<1>7. \A q \in t.rows : q.msg # NoMessage => \E o \in t.ops : o.dev = q.msg.dev /\ o.op = q.msg.op
  BY DEF Journal
<1> QED BY <1>3, <1>4, <1>5, <1>6, <1>7 DEF Journal

\* Append keeps the journal, with and without a message.
LEMMA JournalAppend ==
  ASSUME NEW s \in Store, Journal(s), NEW ch \in Chats
  PROVE  Journal(AppendRow(s, ch, NoMessage, NoMessage))
<1> DEFINE r == [chat |-> ch, seq |-> s.seq[ch] + 1, msg |-> NoMessage, job |-> NoMessage]
           t == AppendRow(s, ch, NoMessage, NoMessage)
<1>1. /\ t \in Store /\ t.rows = s.rows \cup {r} /\ t.ops = s.ops
      /\ t.seq = [s.seq EXCEPT ![ch] = @ + 1]
  BY AppendRowType
<1>2. r \in Row
  BY DEF Row, Store
<1>3. r.chat = ch /\ r.seq = s.seq[ch] + 1 /\ r.msg = NoMessage
  OBVIOUS
<1> HIDE DEF r, t
<1>4. Journal(t)
  BY <1>1, <1>2, <1>3, JournalRow
<1> QED BY <1>4 DEF t

\* The row of an administrative transaction carries no message.
LEMMA NothingAppended ==
  ASSUME NEW s \in Store, NEW ch \in Chats
  PROVE  \A q \in AppendRow(s, ch, NoMessage, NoMessage).rows \ s.rows : q.msg = NoMessage
<1> DEFINE r == [chat |-> ch, seq |-> s.seq[ch] + 1, msg |-> NoMessage, job |-> NoMessage]
           t == AppendRow(s, ch, NoMessage, NoMessage)
<1>1. t \in Store /\ t.rows = s.rows \cup {r} /\ t.ops = s.ops /\ t.seq = [s.seq EXCEPT ![ch] = @ + 1]
  BY AppendRowType
<1>2. r.msg = NoMessage
  OBVIOUS
<1> HIDE DEF r, t
<1>3. \A q \in t.rows \ s.rows : q.msg = NoMessage
  BY <1>1, <1>2
<1> QED BY <1>3 DEF t

\* So does the row of a new message.
LEMMA JournalWritten ==
  ASSUME NEW s \in Store, Journal(s), NEW j \in Job, OpRows(s, j.msg) = {}
  PROVE  Journal(Written(s, j))
<1> DEFINE m == j.msg
           r == [chat |-> m.chat, seq |-> s.seq[m.chat] + 1, msg |-> m, job |-> j]
           o == [dev |-> m.dev, op |-> m.op, chat |-> m.chat, body |-> m.body,
                 seq |-> s.seq[m.chat] + 1]
           t == Written(s, j)
<1>1. /\ t \in Store /\ t.rows = s.rows \cup {r} /\ t.ops = s.ops \cup {o}
      /\ t.seq = [s.seq EXCEPT ![m.chat] = @ + 1]
  BY WrittenType
<1>2. m \in Message
  BY DEF Job
<1>3. r \in Row
  BY <1>2 DEF Row, Store, Message
<1>4. r.chat = m.chat /\ r.seq = s.seq[m.chat] + 1 /\ r.msg = m /\ o.dev = m.dev /\ o.op = m.op
  OBVIOUS
<1>5. ~\E x \in s.ops : x.dev = m.dev /\ x.op = m.op
  BY DEF OpRows
<1> HIDE DEF r, t, o, m
<1>6. Journal(t)
  BY <1>1, <1>3, <1>4, <1>5, JournalRow
<1> QED BY <1>6 DEF t

\* A store whose journal continues another's holds only later rows in addition.
LEMMA JournalDense ==
  ASSUME NEW s \in Store, Journal(s)
  PROVE  Log!Numbered(s.rows) /\ Log!Dense(s.rows) /\ Log!Once(s.rows)
<1>1. \A r \in s.rows : r.chat \in Chats /\ s.seq[r.chat] \in Nat /\ r.seq \in 1..s.seq[r.chat]
  BY DEF Journal, Store, Row
<1>2. \A r \in s.rows : \A n \in 1..r.seq : n \in 1..s.seq[r.chat]
  BY <1>1
<1> QED BY <1>1, <1>2 DEF Journal, Log!Dense
-----------------------------------------------------------------------------
(* The running transaction only continues the log.                         *)

\* Steps that the transaction does not see.
LEMMA LogFrame ==
  ASSUME LogInv, UNCHANGED <<db, tx, res, batch, batchErr, wpc, accessVars>>
  PROVE  LogInv'
  BY DEF LogInv, Adds, Added, Gated, MaySend, Journal, accessVars,
     Log!Numbered, Log!Once

\* Steps outside the transaction that leave the database.
LEMMA LogOutside ==
  ASSUME LogInv, UNCHANGED db, wpc' # "run"
  PROVE  LogInv'
  BY DEF LogInv, Journal, Log!Numbered, Log!Once

\* A result that is not new, in a transaction that is otherwise as it was.
LEMMA LogResult ==
  ASSUME TypeInv, LogInv, wpc = "run", NEW x \in Result, res' = Append(res, x), x.st # "new",
         UNCHANGED <<db, batch, accessVars>>, ~batchErr' => ~batchErr /\ tx' = tx
  PROVE  LogInv'
<1>1. Journal(db)'
  BY DEF LogInv, Journal, Log!Numbered, Log!Once
<1>2. ASSUME ~batchErr' PROVE Adds'
  <2>1. Adds /\ tx' = tx
    BY <1>2 DEF LogInv
  <2>2. res \in Seq(Result)
    BY DEF TypeInv, TypeOK, WorkTypes
  <2>3. \A k \in DOMAIN res' : res'[k].st = "new" => k \in DOMAIN res /\ res[k].st = "new"
    BY <2>2
  <2>4. \A k \in DOMAIN res : k \in DOMAIN res' /\ res'[k] = res[k]
    BY <2>2
  <2>5. Journal(tx)'
    BY <2>1 DEF Adds, Journal, Log!Numbered, Log!Once
  <2>6. Added' = Added /\ \A r : Gated(r)' <=> Gated(r)
    BY <2>1 DEF Added, Gated, MaySend, accessVars
  <2> QED BY <2>1, <2>3, <2>4, <2>5, <2>6 DEF Adds
<1> QED BY <1>1, <1>2 DEF LogInv

\* A new message, behind what the transaction has added before.
LEMMA LogNew ==
  ASSUME TypeInv, LogInv, wpc = "run", ~batchErr, Running, Admissible(NextJob),
         OpRows(tx, NextJob.msg) = {}, tx' = Written(tx, NextJob),
         res' = Append(res, [st |-> "new", seq |-> tx.seq[NextJob.msg.chat] + 1, msg |-> NextJob.msg]),
         UNCHANGED <<db, batch, wpc, accessVars>>
  PROVE  LogInv'
<1>1. PICK j : j = NextJob
  OBVIOUS
<1>2. j \in Job /\ tx \in Store /\ db \in Store /\ res \in Seq(Result) /\ Adds /\ batch \in Seq(Job)
      /\ Len(res) < Len(batch)
  BY <1>1 DEF Running, NextJob, TypeInv, TypeOK, WorkTypes, StoreTypes, LogInv
<1>3. j.msg \in Message /\ j.msg.chat \in Chats
  BY <1>2 DEF Job, Message
<1> DEFINE r == [chat |-> j.msg.chat, seq |-> tx.seq[j.msg.chat] + 1, msg |-> j.msg, job |-> j]
           x == [st |-> "new", seq |-> tx.seq[j.msg.chat] + 1, msg |-> j.msg]
<1>4. tx'.rows = tx.rows \cup {r} /\ tx'.seq = [tx.seq EXCEPT ![j.msg.chat] = @ + 1]
  BY <1>1, <1>2, WrittenType
<1>5. Journal(tx')
  BY <1>1, <1>2, JournalWritten DEF Adds
<1>6. r.chat = j.msg.chat /\ r.seq = tx.seq[j.msg.chat] + 1 /\ r.msg = j.msg /\ r.job = j
  OBVIOUS
<1>7. tx.seq \in [Chats -> Nat] /\ db.seq \in [Chats -> Nat]
  BY <1>2 DEF Store
<1>8. \A ch \in Chats : db.seq[ch] <= tx.seq[ch]
  BY <1>2 DEF Adds
<1>9. db.seq[r.chat] <= tx.seq[r.chat] /\ r.seq > db.seq[r.chat]
  BY <1>3, <1>6, <1>7, <1>8
<1>10. r \notin db.rows
  <2>1. \A q \in db.rows : q.seq \in 1..db.seq[q.chat]
    BY DEF LogInv, Journal
  <2>2. db.seq[r.chat] \in Nat /\ r.seq \in Int
    BY <1>3, <1>6, <1>7
  <2> QED BY <1>9, <2>1, <2>2
<1>11. res' = Append(res, x) /\ x.st = "new" /\ j = batch[Len(res) + 1]
  BY <1>1 DEF NextJob
<1>12. Gated(r)
  BY <1>1, <1>6 DEF Admissible, Gated
<1> HIDE DEF r, x
<1>13. Added' = Added \cup {r} /\ \A q : Gated(q)' <=> Gated(q)
  BY <1>4, <1>10 DEF Added, Gated, MaySend, accessVars
<1>14. /\ DOMAIN res' = DOMAIN res \cup {Len(res) + 1} /\ res'[Len(res) + 1] = x
       /\ \A k \in DOMAIN res : res'[k] = res[k]
  BY <1>2, <1>11
<1>15. ASSUME NEW q \in Added'
       PROVE  /\ q.seq > db.seq[q.chat] /\ q.job \in Job /\ q.msg \in Message /\ Gated(q)
              /\ \E k \in DOMAIN res' : res'[k].st = "new" /\ batch[k] = q.job
  <2>1. CASE q \in Added
    BY <1>2, <1>14, <2>1 DEF Adds
  <2>2. CASE q = r
    BY <1>2, <1>3, <1>6, <1>9, <1>11, <1>12, <1>14, <2>2
  <2> QED BY <1>13, <2>1, <2>2
<1>16. ASSUME NEW k \in DOMAIN res', res'[k].st = "new"
       PROVE  \E q \in Added' : q.job = batch[k]
  <2>1. CASE k \in DOMAIN res
    BY <1>2, <1>13, <1>14, <1>16, <2>1 DEF Adds
  <2>2. CASE k = Len(res) + 1
    BY <1>6, <1>11, <1>13, <2>2
  <2> QED BY <1>14, <2>1, <2>2
<1>17. \A ch \in Chats : db.seq[ch] <= tx'.seq[ch]
  BY <1>3, <1>4, <1>7, <1>8
<1>18. db.rows \subseteq tx'.rows
  BY <1>2, <1>4 DEF Adds
<1>19. Adds'
  BY <1>5, <1>13, <1>15, <1>16, <1>17, <1>18 DEF Adds
<1>20. Journal(db)'
  BY DEF LogInv, Journal, Log!Numbered, Log!Once
<1> QED BY <1>19, <1>20 DEF LogInv

\* The writer goroutine only continues the journal, with rows of its results.
LEMMA LogWorker == ASSUME TypeInv, LogInv, Worker PROVE LogInv'
<1> USE DEF callVars, ghostVars
<1>0. Running => wpc = "run" /\ NextJob \in Job
  BY DEF Running, NextJob, TypeInv, TypeOK, WorkTypes
<1>1. CASE Take \/ Return \/ DrainPend \/ DrainEnd \/ Process \/ DrainJoin
  BY <1>1, LogOutside DEF Take, Return, DrainPend, DrainEnd, Process, DrainJoin
<1>2. ASSUME NEW f \in BOOLEAN, Begin(f) PROVE LogInv'
  <2>1. UNCHANGED db /\ Journal(db)
    BY <1>2 DEF Begin, LogInv
  <2>2. ASSUME ~batchErr' PROVE Adds'
    <3>1. tx' = db /\ res' = <<>>
      BY <1>2, <2>2 DEF Begin
    <3>2. Added' = {} /\ Journal(tx)'
      BY <2>1, <3>1 DEF Added, Journal, Log!Numbered, Log!Once
    <3>3. \A ch \in Chats : db'.seq[ch] <= tx'.seq[ch]
      BY <2>1, <3>1 DEF TypeInv, TypeOK, StoreTypes, Store
    <3> QED BY <2>1, <3>1, <3>2, <3>3 DEF Adds
  <2>3. Journal(db)'
    BY <2>1 DEF Journal, Log!Numbered, Log!Once
  <2> QED BY <2>2, <2>3 DEF LogInv
<1>3. ASSUME NEW f \in BOOLEAN, PersistRepeated(f) PROVE LogInv'
  <2>1. PICK o \in OpRows(tx, NextJob.msg) : res' = Append(res, Saved(o))
    BY <1>3 DEF PersistRepeated
  <2>2. Saved(o) \in Result /\ Saved(o).st # "new"
    BY <2>1, SavedType DEF OpRows, TypeInv, TypeOK, StoreTypes, Saved
  <2> QED BY <1>0, <1>3, <2>1, <2>2, LogResult DEF PersistRepeated
<1>4. ASSUME NEW f \in BOOLEAN, PersistNew(f) PROVE LogInv'
  BY <1>0, <1>4, LogNew DEF PersistNew
<1>5. CASE SkipJob \/ SavepointFails \/ PersistFails
  <2>1. Err.st # "new"
    BY DEF Err
  <2>2. CASE SkipJob \/ SavepointFails
    BY <1>0, <2>1, <2>2, LogResult, ConstantResults DEF SkipJob, SavepointFails
  <2>3. CASE PersistFails
    BY <1>0, <2>1, <2>3, LogResult, ConstantResults DEF PersistFails, RollbackTo
  <2> QED BY <1>5, <2>2, <2>3
<1>6. CASE Commit
  <2>1. wpc' # "run" /\ db' = tx /\ Journal(tx)
    BY <1>6 DEF Commit, LogInv, Adds
  <2>2. Journal(db)'
    BY <2>1 DEF Journal, Log!Numbered, Log!Once
  <2> QED BY <2>1, <2>2 DEF LogInv
<1>7. ASSUME NEW f \in BOOLEAN, Rollback(f) PROVE LogInv'
  BY <1>7, LogOutside DEF Rollback
<1>8. CASE Reply
  BY <1>8, LogOutside DEF Reply
<1> QED BY <1>1, <1>2, <1>3, <1>4, <1>5, <1>6, <1>7, <1>8 DEF Worker

\* No step breaks the journal.
LEMMA LogStep == ASSUME TypeInv, LogInv, [Next]_vars PROVE LogInv'
<1>1. ASSUME NEW c \in Clients, Receive(c) \/ Cancel(c) \/ Caller(c) PROVE LogInv'
  <2>1. UNCHANGED <<db, workVars, accessVars>>
    BY <1>1 DEF Receive, Cancel, Caller, FlushRepeatedOp, PrepareDedup, PrepareRefused, PrepareAccepted,
       PrepareDone, SubmitRejected, SubmitAdmitted, Collect, Answer
  <2> QED BY <2>1, LogFrame DEF workVars
<1>2. CASE CloseCore \/ CloseWriter
  BY <1>2, LogFrame DEF CloseCore, CloseWriter, workVars
<1>3. CASE Restart
  BY <1>3, LogOutside DEF Restart
<1>4. CASE Administer
  <2>1. wpc' # "run"
    BY <1>4 DEF Administer, PutMember, RevokeDevice, ConfirmMLSEpoch, ConnectionFree, workVars
  <2>2. UNCHANGED db \/ \E ch \in Chats : db' = AppendRow(db, ch, NoMessage, NoMessage)
    BY <1>4 DEF Administer, PutMember, RevokeDevice, ConfirmMLSEpoch
  <2>3. \A ch \in Chats : Journal(AppendRow(db, ch, NoMessage, NoMessage))
    BY JournalAppend DEF LogInv, TypeInv, TypeOK, StoreTypes
  <2>4. Journal(db)'
    BY <2>2, <2>3 DEF LogInv, Journal, Log!Numbered, Log!Once
  <2> QED BY <2>1, <2>4 DEF LogInv
<1>5. CASE UNCHANGED vars
  BY <1>5, LogFrame DEF vars, workVars
<1> QED BY <1>1, <1>2, <1>3, <1>4, <1>5, LogWorker DEF Next

\* A message row is committed only for a device that may send, in the epoch of its
\* chat and not behind the barrier (persistMessageInTx repeats the checks, and nothing
\* else writes while it holds the connection).
THEOREM GatedCommitHolds == Spec => GatedCommit
<1>1. Init => LogInv
  BY DEF Init, LogInv, Journal, InitStore, Log!Numbered, Log!Once
<1>2. TypeInv /\ LogInv /\ [Next]_vars => LogInv'
  BY LogStep
<1>3. TypeInv /\ LogInv /\ [Next]_vars =>
        [\A r \in db'.rows \ db.rows :
           r.msg # NoMessage =>
             MaySend(r.chat, r.msg.dev) /\ ~pending[r.chat] /\ r.job.epoch = epoch[r.chat]]_vars
  <2> SUFFICES ASSUME TypeInv, LogInv, Next, NEW r \in db'.rows \ db.rows, r.msg # NoMessage
               PROVE  Gated(r)
    BY DEF Gated, vars
  <2>1. CASE Commit
    BY <2>1 DEF Commit, LogInv, Adds, Added
  <2>2. CASE Administer
    <3>1. PICK ch \in Chats : db' = AppendRow(db, ch, NoMessage, NoMessage)
      BY <2>2 DEF Administer, PutMember, RevokeDevice, ConfirmMLSEpoch
    <3>2. PICK s \in Store : s = db
      BY DEF TypeInv, TypeOK, StoreTypes
    <3>3. \A q \in AppendRow(s, ch, NoMessage, NoMessage).rows \ s.rows : q.msg = NoMessage
      BY NothingAppended
    <3>4. r.msg = NoMessage
      BY <3>1, <3>2, <3>3
    <3> QED BY <3>4
  <2>3. CASE UNCHANGED db
    BY <2>3
  <2>4. Commit \/ Administer \/ UNCHANGED db
    BY DEF Next, Receive, Cancel, Caller, FlushRepeatedOp, PrepareDedup, PrepareRefused, PrepareAccepted,
       PrepareDone, SubmitRejected, SubmitAdmitted, Collect, Answer, Worker, Take, Return, DrainPend,
       DrainEnd, Process, DrainJoin, Begin, PersistRepeated, PersistNew, Rollback, SkipJob,
       SavepointFails, PersistFails, Reply, CloseCore, CloseWriter, Restart
  <2> QED BY <2>1, <2>2, <2>3, <2>4
<1> QED BY <1>1, <1>2, <1>3, TypeCorrect, PTL DEF Spec, GatedCommit

-----------------------------------------------------------------------------
(* What a client has prepared, and what of it is under way.                *)

Same(i, j)  == i.client = j.client /\ i.item = j.item
Distinct(s) == \A k, l \in DOMAIN s : Same(s[k], s[l]) => k = l
Apart(s, t) == \A k \in DOMAIN s, l \in DOMAIN t : ~Same(s[k], t[l])

\* A prepared job of client c stands for the message of its item, of those before p.
Owned(c, r, p, j) == j.client = c /\ j.item \in DOMAIN r /\ j.item < p /\ j.msg = r[j.item]

\* A client in state s, with request r, at item p, with group g, held job h and results o.
Fit(c, s, r, p, g, h, o) ==
  /\ \A k \in DOMAIN g : Owned(c, r, p, g[k]) /\ (s # "wait" => o[g[k].item] = NoResult)
  /\ \A k \in DOMAIN h : Owned(c, r, p, h[k]) /\ o[h[k].item] = NoResult
  /\ Distinct(g) /\ Distinct(h) /\ Apart(g, h)
  /\ h # <<>> => s \in {"submit", "wait"}
  /\ s \in {"idle", "answer"} => g = <<>>
  /\ \A i \in DOMAIN o : i >= p => o[i] = NoResult
  /\ s = "idle" => o = <<>>
  /\ \A i \in DOMAIN o : OK(o[i]) => o[i].msg = r[i]

Fits(c) == Fit(c, pc[c], req[c], pos[c], group[c], held[c], out[c])

\* Every job is in one place of the queue and the writer, once.
Separate(q, cu, pe, ba) ==
  /\ \A p \in DOMAIN q :
       /\ Distinct(q[p]) /\ Apart(q[p], cu) /\ Apart(q[p], pe) /\ Apart(q[p], ba)
       /\ \A l \in DOMAIN q : p # l => Apart(q[p], q[l])
  /\ Distinct(cu) /\ Distinct(pe) /\ Distinct(ba)
  /\ Apart(cu, pe) /\ Apart(cu, ba) /\ Apart(pe, ba)

Jobs(s) == {s[k] : k \in DOMAIN s}
Submitted == (UNION {Jobs(queue[p]) : p \in DOMAIN queue}) \cup Jobs(cur) \cup Jobs(pend) \cup Jobs(batch)

\* What is submitted and has no result belongs to a group that is waited for.
Travels(j) ==
  /\ pc[j.client] = "wait" /\ out[j.client][j.item] = NoResult
  /\ \E k \in DOMAIN group[j.client] : group[j.client][k] = j

\* A result is about the job it is for.
Matching ==
  wpc \in {"run", "reply"} =>
    Len(res) <= Len(batch) /\ \A k \in DOMAIN res : OK(res[k]) => res[k].msg = batch[k].msg

Flight ==
  /\ Separate(queue, cur, pend, batch)
  /\ \A j \in Submitted : Travels(j)
  /\ Matching

FlightInv == (\A c \in Clients : Fits(c)) /\ Flight

\* The types of one client's variables.
ClientTyped(r, p, g, h, o) ==
  /\ r \in Seq(Message) /\ o \in Seq(Result) /\ Len(o) = Len(r) /\ p \in Nat \ {0}
  /\ g \in Seq(Job) /\ h \in Seq(Job)

\* The result of an item is known before it is prepared.
LEMMA FitSettled ==
  ASSUME NEW c, NEW s, NEW r, NEW p, NEW g, NEW o, ClientTyped(r, p, g, <<>>, o),
         Fit(c, s, r, p, g, <<>>, o), s \notin {"idle", "wait", "answer"},
         NEW x \in Result, p <= Len(r), OK(x) => x.msg = r[p]
  PROVE  Fit(c, "prepare", r, p + 1, g, <<>>, [o EXCEPT ![p] = x])
<1> DEFINE f == [o EXCEPT ![p] = x]
<1>1. p \in DOMAIN o /\ p \in Nat
  BY DEF ClientTyped
<1>2. DOMAIN f = DOMAIN o /\ f[p] = x /\ \A i \in DOMAIN o : i # p => f[i] = o[i]
  BY <1>1
<1> HIDE DEF f
<1>3. ASSUME NEW k \in DOMAIN g PROVE Owned(c, r, p + 1, g[k]) /\ f[g[k].item] = NoResult
  <2>1. Owned(c, r, p, g[k]) /\ o[g[k].item] = NoResult
    BY DEF Fit
  <2>2. g[k].item \in DOMAIN o /\ g[k].item \in Nat
    BY <2>1 DEF Owned, ClientTyped
  <2>3. g[k].item # p /\ g[k].item < p + 1
    BY <1>1, <2>1, <2>2 DEF Owned
  <2> QED BY <1>2, <2>1, <2>2, <2>3 DEF Owned
<1>4. \A i \in DOMAIN f : i >= p + 1 => f[i] = NoResult
  BY <1>1, <1>2 DEF Fit, ClientTyped
<1>5. \A i \in DOMAIN f : OK(f[i]) => f[i].msg = r[i]
  BY <1>2 DEF Fit
<1> QED BY <1>3, <1>4, <1>5 DEF Fit, f

\* A prepared item, which is not prepared yet.
LEMMA FitPrepared ==
  ASSUME NEW c, NEW s, NEW r, NEW p, NEW g, NEW o, ClientTyped(r, p, g, <<>>, o),
         Fit(c, s, r, p, g, <<>>, o), s \notin {"idle", "wait", "answer"}, p <= Len(r),
         NEW job \in Job, job.client = c, job.item = p, job.msg = r[p]
  PROVE  /\ Fit(c, "submit", r, p + 1, g, <<job>>, o)
         /\ Fit(c, "prepare", r, p + 1, Append(g, job), <<>>, o)
<1>1. p \in DOMAIN o /\ p \in DOMAIN r /\ p \in Nat /\ g \in Seq(Job)
  BY DEF ClientTyped
<1>2. Owned(c, r, p + 1, job) /\ o[job.item] = NoResult
  BY <1>1 DEF Owned, Fit
<1>3. ASSUME NEW k \in DOMAIN g
      PROVE  /\ Owned(c, r, p + 1, g[k]) /\ o[g[k].item] = NoResult
             /\ ~Same(g[k], job) /\ ~Same(job, g[k])
  <2>1. Owned(c, r, p, g[k]) /\ o[g[k].item] = NoResult
    BY DEF Fit
  <2>2. g[k].item \in Nat
    BY <2>1 DEF Owned, ClientTyped
  <2>3. g[k].item < p + 1 /\ g[k].item # p
    BY <1>1, <2>1, <2>2 DEF Owned
  <2> QED BY <2>1, <2>3 DEF Owned, Same
<1>4. \A i \in DOMAIN o : i >= p + 1 => o[i] = NoResult
  BY <1>1 DEF Fit, ClientTyped
<1>5. Distinct(g) /\ \A i \in DOMAIN o : OK(o[i]) => o[i].msg = r[i]
  BY DEF Fit
<1>6. DOMAIN <<job>> = {1} /\ <<job>>[1] = job /\ DOMAIN <<>> = {}
  OBVIOUS
<1>7. Fit(c, "submit", r, p + 1, g, <<job>>, o)
  <2>1. Distinct(<<job>>) /\ Apart(g, <<job>>)
    BY <1>3, <1>6 DEF Distinct, Apart
  <2> QED BY <1>2, <1>3, <1>4, <1>5, <1>6, <2>1 DEF Fit
<1>8. Fit(c, "prepare", r, p + 1, Append(g, job), <<>>, o)
  <2> DEFINE q == Append(g, job)
  <2>1. /\ DOMAIN q = DOMAIN g \cup {Len(g) + 1} /\ q[Len(g) + 1] = job
        /\ \A k \in DOMAIN g : q[k] = g[k]
    BY <1>1
  <2> HIDE DEF q
  <2>2. \A k \in DOMAIN q : Owned(c, r, p + 1, q[k]) /\ o[q[k].item] = NoResult
    BY <1>2, <1>3, <2>1
  <2>3. Distinct(q)
    BY <1>3, <1>5, <2>1 DEF Distinct
  <2>4. Distinct(<<>>) /\ Apart(q, <<>>)
    BY <1>6 DEF Distinct, Apart
  <2>5. Fit(c, "prepare", r, p + 1, q, <<>>, o)
    BY <1>4, <1>5, <1>6, <2>2, <2>3, <2>4 DEF Fit
  <2> QED BY <2>5 DEF q
<1> QED BY <1>7, <1>8

\* The group was not admitted: its items are errors, what was held back is next.
LEMMA FitRejected ==
  ASSUME NEW c, NEW r, NEW p, NEW g, NEW h, NEW o, ClientTyped(r, p, g, h, o),
         Fit(c, "submit", r, p, g, h, o)
  PROVE  Fit(c, "prepare", r, p, h, <<>>,
             [i \in DOMAIN o |-> IF \E k \in DOMAIN g : g[k].item = i THEN Err ELSE o[i]])
<1> DEFINE f == [i \in DOMAIN o |-> IF \E k \in DOMAIN g : g[k].item = i THEN Err ELSE o[i]]
<1>1. DOMAIN f = DOMAIN o /\ \A i \in DOMAIN o :
        f[i] = IF \E k \in DOMAIN g : g[k].item = i THEN Err ELSE o[i]
  OBVIOUS
<1> HIDE DEF f
<1>2. DOMAIN <<>> = {}
  OBVIOUS
<1>3. ASSUME NEW k \in DOMAIN h PROVE Owned(c, r, p, h[k]) /\ f[h[k].item] = NoResult
  <2>1. Owned(c, r, p, h[k]) /\ o[h[k].item] = NoResult
    BY DEF Fit
  <2>2. h[k].item \in DOMAIN o
    BY <2>1 DEF Owned, ClientTyped
  <2>3. ~\E l \in DOMAIN g : g[l].item = h[k].item
    BY <2>1 DEF Fit, Apart, Same, Owned
  <2> QED BY <1>1, <2>1, <2>2, <2>3
<1>4. ASSUME NEW i \in DOMAIN f, i >= p PROVE f[i] = NoResult
  <2>1. i \in Nat /\ p \in Nat
    BY <1>1 DEF ClientTyped
  <2>2. ASSUME NEW k \in DOMAIN g, g[k].item = i PROVE FALSE
    <3>1. Owned(c, r, p, g[k])
      BY DEF Fit
    <3>2. i < p
      BY <2>2, <3>1 DEF Owned
    <3> QED BY <1>4, <2>1, <3>2
  <2>3. o[i] = NoResult
    BY <1>1, <1>4 DEF Fit
  <2> QED BY <1>1, <2>2, <2>3
<1>5. \A i \in DOMAIN f : OK(f[i]) => f[i].msg = r[i]
  BY <1>1, Refusals DEF Fit
<1>6. Distinct(h) /\ Distinct(<<>>) /\ Apart(h, <<>>)
  BY <1>2 DEF Fit, Distinct, Apart
<1>7. Fit(c, "prepare", r, p, h, <<>>, f)
  BY <1>2, <1>3, <1>4, <1>5, <1>6 DEF Fit
<1> QED BY <1>7 DEF f

\* The group has its results: what was held back is next.
LEMMA FitCollected ==
  ASSUME NEW c, NEW s, NEW r, NEW p, NEW g, NEW h, NEW o, Fit(c, s, r, p, g, h, o)
  PROVE  Fit(c, "prepare", r, p, h, <<>>, o)
<1>1. DOMAIN <<>> = {}
  OBVIOUS
<1> QED BY <1>1 DEF Fit, Distinct, Apart

\* Results arrive for items of the group that is waited for.
LEMMA FitReplied ==
  ASSUME NEW c, NEW r, NEW p, NEW g, NEW h, NEW o, ClientTyped(r, p, g, h, o),
         Fit(c, "wait", r, p, g, h, o),
         NEW f, DOMAIN f = DOMAIN o,
         \A i \in DOMAIN o :
           \/ f[i] = o[i]
           \/ \E k \in DOMAIN g : g[k].item = i /\ (OK(f[i]) => f[i].msg = g[k].msg)
  PROVE  Fit(c, "wait", r, p, g, h, f)
<1>1. \A k \in DOMAIN g : Owned(c, r, p, g[k])
  BY DEF Fit
<1>2. ASSUME NEW k \in DOMAIN h PROVE Owned(c, r, p, h[k]) /\ f[h[k].item] = NoResult
  <2>1. Owned(c, r, p, h[k]) /\ o[h[k].item] = NoResult
    BY DEF Fit
  <2>2. h[k].item \in DOMAIN o
    BY <2>1 DEF Owned, ClientTyped
  <2>3. ~\E l \in DOMAIN g : g[l].item = h[k].item
    BY <2>1 DEF Fit, Apart, Same, Owned
  <2> QED BY <2>1, <2>2, <2>3
<1>3. ASSUME NEW i \in DOMAIN f, i >= p PROVE f[i] = NoResult
  <2>1. i \in Nat /\ p \in Nat
    BY DEF ClientTyped
  <2>2. ASSUME NEW k \in DOMAIN g, g[k].item = i PROVE FALSE
    <3>1. i < p
      BY <1>1, <2>2 DEF Owned
    <3> QED BY <1>3, <2>1, <3>1
  <2>3. o[i] = NoResult
    BY <1>3 DEF Fit
  <2> QED BY <2>2, <2>3
<1>4. ASSUME NEW i \in DOMAIN f, OK(f[i]) PROVE f[i].msg = r[i]
  BY <1>1, <1>4 DEF Fit, Owned
<1> QED BY <1>1, <1>2, <1>3, <1>4 DEF Fit

-----------------------------------------------------------------------------
(* The queue and the writer only move jobs.                                *)

\* Apartness is symmetric.
LEMMA ApartSym == ASSUME NEW s, NEW t, Apart(s, t) PROVE Apart(t, s)
  BY DEF Apart, Same

\* The empty sequence is apart from everything.
LEMMA EmptyApart ==
  Distinct(<<>>) /\ (\A s : Apart(s, <<>>)) /\ (\A s : Apart(<<>>, s)) /\ Jobs(<<>>) = {}
<1>1. DOMAIN <<>> = {}
  OBVIOUS
<1> QED BY <1>1 DEF Distinct, Apart, Jobs

\* Head and tail of a queue, by index.
LEMMA QueueParts ==
  ASSUME NEW q \in Seq(Seq(Job)), q # <<>>
  PROVE  /\ Head(q) = q[1] /\ 1 \in DOMAIN q /\ Tail(q) \in Seq(Seq(Job))
         /\ \A p \in DOMAIN Tail(q) : p + 1 \in DOMAIN q /\ p + 1 # 1 /\ Tail(q)[p] = q[p + 1] /\ p \in Nat
  OBVIOUS

\* Taking the head leaves every job in one place.
LEMMA SeparateTail ==
  ASSUME NEW q \in Seq(Seq(Job)), q # <<>>, NEW cu, NEW pe, NEW ba, Separate(q, cu, pe, ba)
  PROVE  /\ Separate(Tail(q), cu, pe, ba) /\ Distinct(Head(q))
         /\ Apart(Head(q), cu) /\ Apart(Head(q), pe) /\ Apart(Head(q), ba)
         /\ \A p \in DOMAIN Tail(q) : Apart(Tail(q)[p], Head(q))
<1>1. \A p, l \in DOMAIN Tail(q) : p # l => p + 1 # l + 1
  BY QueueParts
<1> QED BY <1>1, QueueParts DEF Separate

\* Head and tail hold what the queue held.
LEMMA SubmittedTail ==
  ASSUME NEW q \in Seq(Seq(Job)), q # <<>>
  PROVE  /\ UNION {Jobs(Tail(q)[p]) : p \in DOMAIN Tail(q)} \subseteq UNION {Jobs(q[p]) : p \in DOMAIN q}
         /\ Jobs(Head(q)) \subseteq UNION {Jobs(q[p]) : p \in DOMAIN q}
  BY QueueParts

\* A single job joins the batch.
LEMMA SeparateJoin ==
  ASSUME NEW q \in Seq(Seq(Job)), q # <<>>, NEW cu, NEW pe, NEW ba \in Seq(Job), Separate(q, cu, pe, ba),
         Len(Head(q)) = 1
  PROVE  /\ Separate(Tail(q), cu, pe, ba \o Head(q))
         /\ Jobs(ba \o Head(q)) \subseteq Jobs(ba) \cup Jobs(Head(q))
<1> DEFINE t == ba \o Head(q)
<1>1. Head(q) \in Seq(Job) /\ DOMAIN Head(q) = {1}
  BY QueueParts
<1>2. DOMAIN t = DOMAIN ba \cup {Len(ba) + 1} /\ t[Len(ba) + 1] = Head(q)[1] /\ \A k \in DOMAIN ba : t[k] = ba[k]
  <2>1. PICK h \in Seq(Job) : h = Head(q) /\ Len(h) = 1
    BY <1>1
  <2>2. ba \o h \in Seq(Job) /\ Len(ba \o h) = Len(ba) + Len(h)
    OBVIOUS
  <2>3. \A k \in 1..Len(ba) : (ba \o h)[k] = ba[k]
    BY <2>1
  <2>4. (ba \o h)[Len(ba) + 1] = h[1]
    BY <2>1
  <2>5. DOMAIN t = 1..(Len(ba) + 1) /\ DOMAIN ba = 1..Len(ba) /\ Len(ba) \in Nat
    <3>1. PICK u \in Seq(Job) : u = t /\ Len(u) = Len(ba) + 1
      BY <2>1, <2>2
    <3> QED BY <3>1
  <2> QED BY <2>1, <2>3, <2>4, <2>5
<1> HIDE DEF t
<1>3. Jobs(t) \subseteq Jobs(ba) \cup Jobs(Head(q))
  BY <1>1, <1>2 DEF Jobs
<1>4. /\ Separate(Tail(q), cu, pe, ba) /\ Distinct(Head(q))
      /\ Apart(Head(q), cu) /\ Apart(Head(q), pe) /\ Apart(Head(q), ba)
      /\ \A p \in DOMAIN Tail(q) : Apart(Tail(q)[p], Head(q))
  BY SeparateTail
<1>5. Distinct(t)
  <2>1. Distinct(ba)
    BY <1>4 DEF Separate
  <2>2. \A k \in DOMAIN ba : ~Same(ba[k], Head(q)[1]) /\ ~Same(Head(q)[1], ba[k])
    BY <1>1, <1>4 DEF Apart, Same
  <2> QED BY <1>2, <2>1, <2>2 DEF Distinct
<1>6. ASSUME NEW s, Apart(s, ba), Apart(s, Head(q)) PROVE Apart(s, t)
  BY <1>1, <1>2, <1>6 DEF Apart
<1>7. Apart(cu, t) /\ Apart(pe, t)
  <2>1. Apart(cu, ba) /\ Apart(pe, ba)
    BY <1>4 DEF Separate
  <2>2. Apart(cu, Head(q)) /\ Apart(pe, Head(q))
    BY <1>4, ApartSym
  <2> QED BY <1>6, <2>1, <2>2
<1>8. \A p \in DOMAIN Tail(q) : Apart(Tail(q)[p], t)
  BY <1>4, <1>6 DEF Separate
<1>9. Separate(Tail(q), cu, pe, t)
  BY <1>4, <1>5, <1>7, <1>8 DEF Separate
<1> QED BY <1>3, <1>9 DEF t

\* A group is queued.
LEMMA SeparateSubmit ==
  ASSUME NEW q \in Seq(Seq(Job)), NEW cu, NEW pe, NEW ba, Separate(q, cu, pe, ba),
         NEW g \in Seq(Job), Distinct(g), Apart(g, cu), Apart(g, pe), Apart(g, ba),
         \A p \in DOMAIN q : Apart(q[p], g)
  PROVE  /\ Separate(Append(q, g), cu, pe, ba)
         /\ UNION {Jobs(Append(q, g)[p]) : p \in DOMAIN Append(q, g)}
              \subseteq (UNION {Jobs(q[p]) : p \in DOMAIN q}) \cup Jobs(g)
<1> DEFINE t == Append(q, g)
<1>1. /\ DOMAIN t = DOMAIN q \cup {Len(q) + 1} /\ t[Len(q) + 1] = g
      /\ \A p \in DOMAIN q : t[p] = q[p]
  OBVIOUS
<1> HIDE DEF t
<1>2. \A p \in DOMAIN q : Apart(g, q[p])
  BY ApartSym
<1>3. Separate(t, cu, pe, ba)
  BY <1>1, <1>2 DEF Separate
<1>4. \A p \in DOMAIN t : Jobs(t[p]) = Jobs(g) \/ (p \in DOMAIN q /\ Jobs(t[p]) = Jobs(q[p]))
  BY <1>1
<1>5. UNION {Jobs(t[p]) : p \in DOMAIN t} \subseteq (UNION {Jobs(q[p]) : p \in DOMAIN q}) \cup Jobs(g)
  <2> SUFFICES ASSUME NEW p \in DOMAIN t, NEW j \in Jobs(t[p])
               PROVE  j \in (UNION {Jobs(q[l]) : l \in DOMAIN q}) \cup Jobs(g)
    OBVIOUS
  <2> QED BY <1>4
<1> QED BY <1>3, <1>5 DEF t

-----------------------------------------------------------------------------
(* Every step keeps what is prepared and what is under way.                *)

\* The types of one client, from those of all.
LEMMA Typed ==
  ASSUME TypeInv, NEW c \in Clients
  PROVE  /\ ClientTyped(req[c], pos[c], group[c], held[c], out[c])
         /\ pc[c] \in {"idle", "prepare", "access", "submit", "wait", "answer"}
         /\ pos[c] \in DOMAIN out[c] <=> pos[c] <= Len(req[c])
  BY DEF ClientTyped, TypeInv, TypeOK, CallTypes, Indexed

\* Client c, and no other, takes these values.
Becomes(c, s, r, p, g, h, o) ==
  /\ pc' = [pc EXCEPT ![c] = s] /\ req' = [req EXCEPT ![c] = r] /\ pos' = [pos EXCEPT ![c] = p]
  /\ group' = [group EXCEPT ![c] = g] /\ held' = [held EXCEPT ![c] = h] /\ out' = [out EXCEPT ![c] = o]

\* A step of client c that leaves it fit.
LEMMA FitsChange ==
  ASSUME TypeInv, \A d \in Clients : Fits(d), NEW c \in Clients,
         NEW s, NEW r, NEW p, NEW g, NEW h, NEW o, Fit(c, s, r, p, g, h, o), Becomes(c, s, r, p, g, h, o)
  PROVE  \A d \in Clients : Fits(d)'
<1>1. /\ pc'[c] = s /\ req'[c] = r /\ pos'[c] = p /\ group'[c] = g /\ held'[c] = h /\ out'[c] = o
      /\ \A d \in Clients : d # c =>
           /\ pc'[d] = pc[d] /\ req'[d] = req[d] /\ pos'[d] = pos[d]
           /\ group'[d] = group[d] /\ held'[d] = held[d] /\ out'[d] = out[d]
  BY DEF Becomes, TypeInv, TypeOK, CallTypes
<1>2. ASSUME NEW d \in Clients PROVE Fit(d, pc'[d], req'[d], pos'[d], group'[d], held'[d], out'[d])
  <2>1. CASE d = c
    BY <1>1, <2>1
  <2>2. CASE d # c
    BY <1>1, <2>2 DEF Fits
  <2> QED BY <2>1, <2>2
<1> QED BY <1>2 DEF Fits

\* What a client's variables are when they do not change.
LEMMA Unchanged ==
  ASSUME TypeInv, NEW c \in Clients
  PROVE  /\ pc = [pc EXCEPT ![c] = pc[c]] /\ req = [req EXCEPT ![c] = req[c]]
         /\ pos = [pos EXCEPT ![c] = pos[c]] /\ group = [group EXCEPT ![c] = group[c]]
         /\ held = [held EXCEPT ![c] = held[c]] /\ out = [out EXCEPT ![c] = out[c]]
  BY DEF TypeInv, TypeOK, CallTypes

\* Preparing an item keeps every client fit.
LEMMA FitsPrepare ==
  ASSUME TypeInv, \A d \in Clients : Fits(d), NEW c \in Clients,
         PrepareDedup(c) \/ PrepareRefused(c) \/ PrepareAccepted(c)
  PROVE  \A d \in Clients : Fits(d)'
<1>1. PICK r, p, g, h, o : r = req[c] /\ p = pos[c] /\ g = group[c] /\ h = held[c] /\ o = out[c]
  OBVIOUS
<1>2. ClientTyped(r, p, g, h, o) /\ Fit(c, pc[c], r, p, g, h, o)
  BY <1>1, Typed DEF Fits
<1>3. pc[c] \in {"prepare", "access"} /\ p <= Len(r)
  BY <1>1 DEF PrepareDedup, PrepareRefused, PrepareAccepted, TypeInv, Indexed
<1>4. h = <<>>
  BY <1>2, <1>3 DEF Fit
<1>5. ASSUME NEW x \in Result, OK(x) => x.msg = r[p], out' = [out EXCEPT ![c][pos[c]] = x],
             pos' = [pos EXCEPT ![c] = @ + 1], pc' = [pc EXCEPT ![c] = "prepare"],
             UNCHANGED <<req, group, held>>
      PROVE  \A d \in Clients : Fits(d)'
  <2>1. Fit(c, "prepare", r, p + 1, g, <<>>, [o EXCEPT ![p] = x])
    BY <1>2, <1>3, <1>4, <1>5, FitSettled
  <2>2. out' = [out EXCEPT ![c] = [o EXCEPT ![p] = x]] /\ pos' = [pos EXCEPT ![c] = p + 1]
    BY <1>1, <1>5
  <2>3. req' = [req EXCEPT ![c] = r] /\ group' = [group EXCEPT ![c] = g] /\ held' = [held EXCEPT ![c] = <<>>]
    <3>1. UNCHANGED <<req, group, held>> /\ held[c] = <<>>
      BY <1>1, <1>4, <1>5
    <3>2. req = [req EXCEPT ![c] = r] /\ group = [group EXCEPT ![c] = g] /\ held = [held EXCEPT ![c] = h]
      BY <1>1, Unchanged
    <3> QED BY <1>4, <3>1, <3>2
  <2>4. Becomes(c, "prepare", r, p + 1, g, <<>>, [o EXCEPT ![p] = x])
    BY <1>5, <2>2, <2>3 DEF Becomes
  <2> QED BY <2>1, <2>4, FitsChange
<1>6. CASE PrepareRefused(c)
  BY <1>5, <1>6, ConstantResults, Refusals DEF PrepareRefused
<1>7. CASE PrepareDedup(c)
  <2>1. CASE UNCHANGED <<pos, out>>
    <3>1. Fit(c, "access", r, p, g, h, o)
      BY <1>2, <1>3, <1>4 DEF Fit
    <3>2. pc' = [pc EXCEPT ![c] = "access"] \/ (pos' = [pos EXCEPT ![c] = @ + 1])
      BY <1>7 DEF PrepareDedup
    <3>3. pos' # [pos EXCEPT ![c] = @ + 1]
      BY <2>1 DEF TypeInv, TypeOK, CallTypes
    <3>4. UNCHANGED <<req, group, held>>
      BY <1>7 DEF PrepareDedup
    <3>5. Becomes(c, "access", r, p, g, h, o)
      BY <1>1, <2>1, <3>2, <3>3, <3>4, Unchanged DEF Becomes
    <3> QED BY <3>1, <3>5, FitsChange
  <2>2. CASE \E x \in Result : (OK(x) => x.msg = r[p]) /\ out' = [out EXCEPT ![c][pos[c]] = x]
                                /\ pos' = [pos EXCEPT ![c] = @ + 1] /\ UNCHANGED pc
    <3>1. pc' = [pc EXCEPT ![c] = "prepare"] /\ UNCHANGED <<req, group, held>>
      BY <1>7, <2>2, Unchanged DEF PrepareDedup
    <3> QED BY <1>5, <2>2, <3>1
  <2>3. \A x \in OpRows(db, r[p]) : SameHash(x, r[p]) => Saved(x) \in Result /\ Saved(x).msg = r[p]
    <3> SUFFICES ASSUME NEW x \in OpRows(db, r[p]), SameHash(x, r[p])
                 PROVE  Saved(x) \in Result /\ Saved(x).msg = r[p]
      OBVIOUS
    <3>1. r[p] \in Message
      BY <1>2, <1>3 DEF ClientTyped
    <3>2. r[p] = [chat |-> r[p].chat, dev |-> r[p].dev, op |-> r[p].op, body |-> r[p].body]
      BY <3>1 DEF Message
    <3>3. Saved(x).msg = [chat |-> r[p].chat, dev |-> r[p].dev, op |-> r[p].op, body |-> r[p].body]
      BY DEF Saved, OpRows, SameHash
    <3>4. Saved(x) \in Result
      BY SavedType DEF OpRows, TypeInv, TypeOK, StoreTypes
    <3> QED BY <3>2, <3>3, <3>4
  <2> QED BY <1>1, <1>7, <2>1, <2>2, <2>3, ConstantResults, Refusals DEF PrepareDedup
<1>8. CASE PrepareAccepted(c)
  <2> DEFINE job == [client |-> c, item |-> p, epoch |-> epoch[r[p].chat], msg |-> r[p]]
  <2>1. job \in Job
    <3>1. r[p] \in Message /\ p \in Nat \ {0}
      BY <1>2, <1>3 DEF ClientTyped
    <3>2. epoch[r[p].chat] \in Nat
      BY <3>1 DEF TypeInv, TypeOK, StoreTypes, Message
    <3> QED BY <3>1, <3>2 DEF Job
  <2>2. job.client = c /\ job.item = p /\ job.msg = r[p]
    OBVIOUS
  <2>3. /\ pos' = [pos EXCEPT ![c] = p + 1] /\ UNCHANGED <<req, out>>
        /\ \/ held' = [held EXCEPT ![c] = <<job>>] /\ pc' = [pc EXCEPT ![c] = "submit"] /\ UNCHANGED group
           \/ group' = [group EXCEPT ![c] = Append(g, job)] /\ pc' = [pc EXCEPT ![c] = "prepare"]
              /\ UNCHANGED held
    BY <1>1, <1>8 DEF PrepareAccepted
  <2> HIDE DEF job
  <2>4. Fit(c, "submit", r, p + 1, g, <<job>>, o) /\ Fit(c, "prepare", r, p + 1, Append(g, job), <<>>, o)
    BY <1>2, <1>3, <1>4, <2>1, <2>2, FitPrepared
  <2>5. req' = [req EXCEPT ![c] = r] /\ out' = [out EXCEPT ![c] = o]
    BY <1>1, <2>3, Unchanged
  <2>6. group = [group EXCEPT ![c] = g] /\ held = [held EXCEPT ![c] = <<>>]
    BY <1>1, <1>4, Unchanged
  <2>7. CASE held' = [held EXCEPT ![c] = <<job>>] /\ pc' = [pc EXCEPT ![c] = "submit"] /\ UNCHANGED group
    <3>1. Becomes(c, "submit", r, p + 1, g, <<job>>, o)
      BY <2>3, <2>5, <2>6, <2>7 DEF Becomes
    <3> QED BY <2>4, <3>1, FitsChange
  <2>8. CASE group' = [group EXCEPT ![c] = Append(g, job)] /\ pc' = [pc EXCEPT ![c] = "prepare"]
              /\ UNCHANGED held
    <3>1. Becomes(c, "prepare", r, p + 1, Append(g, job), <<>>, o)
      BY <2>3, <2>5, <2>6, <2>8 DEF Becomes
    <3> QED BY <2>4, <3>1, FitsChange
  <2> QED BY <2>3, <2>7, <2>8
<1> QED BY <1>6, <1>7, <1>8

\* Every step of a request goroutine keeps every client fit.
LEMMA FitsCaller ==
  ASSUME TypeInv, \A d \in Clients : Fits(d), NEW c \in Clients, Receive(c) \/ Cancel(c) \/ Caller(c)
  PROVE  \A d \in Clients : Fits(d)'
<1>1. PICK s, r, p, g, h, o : s = pc[c] /\ r = req[c] /\ p = pos[c] /\ g = group[c] /\ h = held[c] /\ o = out[c]
  OBVIOUS
<1>2. ClientTyped(r, p, g, h, o) /\ Fit(c, s, r, p, g, h, o)
  BY <1>1, Typed DEF Fits
<1>3. DOMAIN <<>> = {} /\ Distinct(<<>>) /\ Apart(<<>>, <<>>)
  BY EmptyApart
<1>4. CASE Receive(c)
  <2>1. PICK t \in Requests : req' = [req EXCEPT ![c] = t] /\ out' = [out EXCEPT ![c] = [i \in 1..Len(t) |-> NoResult]]
    BY <1>4 DEF Receive
  <2>2. g = <<>> /\ h = <<>>
    BY <1>1, <1>2, <1>4 DEF Receive, Fit
  <2>3. Fit(c, "prepare", t, 1, <<>>, <<>>, [i \in 1..Len(t) |-> NoResult])
    BY <1>3, Refusals DEF Fit
  <2>4. pc' = [pc EXCEPT ![c] = "prepare"] /\ pos' = [pos EXCEPT ![c] = 1] /\ UNCHANGED <<group, held>>
    BY <1>4 DEF Receive
  <2>5. group' = [group EXCEPT ![c] = <<>>] /\ held' = [held EXCEPT ![c] = <<>>]
    BY <1>1, <2>2, <2>4, Unchanged
  <2>6. Becomes(c, "prepare", t, 1, <<>>, <<>>, [i \in 1..Len(t) |-> NoResult])
    BY <2>1, <2>4, <2>5 DEF Becomes
  <2> QED BY <2>3, <2>6, FitsChange
<1>5. CASE Cancel(c)
  BY <1>5 DEF Cancel, Fits
<1>6. CASE FlushRepeatedOp(c)
  <2>1. Fit(c, "submit", r, p, g, h, o)
    BY <1>1, <1>2, <1>6 DEF FlushRepeatedOp, Fit
  <2>2. Becomes(c, "submit", r, p, g, h, o)
    BY <1>1, <1>6, Unchanged DEF FlushRepeatedOp, Becomes
  <2> QED BY <2>1, <2>2, FitsChange
<1>7. CASE PrepareDone(c)
  <2>1. Fit(c, IF g = <<>> THEN "answer" ELSE "submit", r, p, g, h, o)
    BY <1>1, <1>2, <1>7 DEF PrepareDone, Fit
  <2>2. Becomes(c, IF g = <<>> THEN "answer" ELSE "submit", r, p, g, h, o)
    BY <1>1, <1>7, Unchanged DEF PrepareDone, Becomes
  <2> QED BY <2>1, <2>2, FitsChange
<1>8. CASE SubmitRejected(c)
  <2> DEFINE f == [i \in DOMAIN o |-> IF \E k \in DOMAIN g : g[k].item = i THEN Err ELSE o[i]]
  <2>1. /\ out' = [out EXCEPT ![c] = f] /\ group' = [group EXCEPT ![c] = h]
        /\ held' = [held EXCEPT ![c] = <<>>] /\ pc' = [pc EXCEPT ![c] = "prepare"]
        /\ UNCHANGED <<req, pos>> /\ s = "submit"
    BY <1>1, <1>8 DEF SubmitRejected
  <2>2. Fit(c, "prepare", r, p, h, <<>>, f)
    BY <1>2, <2>1, FitRejected
  <2> HIDE DEF f
  <2>3. req' = [req EXCEPT ![c] = r] /\ pos' = [pos EXCEPT ![c] = p]
    BY <1>1, <2>1, Unchanged
  <2>4. Becomes(c, "prepare", r, p, h, <<>>, f)
    BY <2>1, <2>3 DEF Becomes
  <2> QED BY <2>2, <2>4, FitsChange
<1>9. CASE SubmitAdmitted(c)
  <2>1. Fit(c, "wait", r, p, g, h, o)
    BY <1>1, <1>2, <1>9 DEF SubmitAdmitted, Fit
  <2>2. Becomes(c, "wait", r, p, g, h, o)
    BY <1>1, <1>9, Unchanged DEF SubmitAdmitted, Becomes
  <2> QED BY <2>1, <2>2, FitsChange
<1>10. CASE Collect(c)
  <2>1. Fit(c, "prepare", r, p, h, <<>>, o)
    BY <1>2, FitCollected
  <2>2. Becomes(c, "prepare", r, p, h, <<>>, o)
    BY <1>1, <1>10, Unchanged DEF Collect, Becomes
  <2> QED BY <2>1, <2>2, FitsChange
<1>11. CASE Answer(c)
  <2>1. g = <<>> /\ h = <<>>
    BY <1>1, <1>2, <1>11 DEF Answer, Fit
  <2>2. Fit(c, "idle", <<>>, 1, <<>>, <<>>, <<>>)
    BY <1>3 DEF Fit
  <2>3. Becomes(c, "idle", <<>>, 1, <<>>, <<>>, <<>>)
    BY <1>1, <1>11, <2>1, Unchanged DEF Answer, Becomes
  <2> QED BY <2>2, <2>3, FitsChange
<1> QED BY <1>4, <1>5, <1>6, <1>7, <1>8, <1>9, <1>10, <1>11, FitsPrepare DEF Caller

\* Nothing of client c is submitted.
Clear(c) == \A j \in Submitted : j.client # c

\* A client that does not wait, or has all its results, has nothing submitted.
LEMMA NothingUnderWay ==
  ASSUME FlightInv, NEW c,
         pc[c] # "wait" \/ \A k \in DOMAIN group[c] : out[c][group[c][k].item] # NoResult
  PROVE  Clear(c)
  BY DEF FlightInv, Flight, Travels, Clear

\* What is submitted are jobs.
LEMMA SubmittedType == ASSUME TypeInv PROVE Submitted \subseteq Job
<1>1. \A s \in Seq(Job) : Jobs(s) \subseteq Job
  BY DEF Jobs
<1>2. \A p \in DOMAIN queue : queue[p] \in Seq(Job)
  BY DEF TypeInv, TypeOK, WorkTypes
<1> QED BY <1>1, <1>2 DEF Submitted, TypeInv, TypeOK, WorkTypes

\* Steps of a client that has nothing under way leave what is under way alone.
LEMMA FlightFrame ==
  ASSUME TypeInv, Flight, NEW c, Clear(c), UNCHANGED <<queue, cur, pend, batch, res, wpc>>,
         \A d \in Clients : d # c => pc'[d] = pc[d] /\ out'[d] = out[d] /\ group'[d] = group[d]
  PROVE  Flight'
<1>1. Submitted' = Submitted
  BY DEF Submitted
<1>2. ASSUME NEW j \in Submitted PROVE Travels(j)'
  <2>1. j.client \in Clients /\ j.client # c /\ Travels(j)
    BY SubmittedType DEF Job, Clear, Flight
  <2> QED BY <2>1 DEF Travels
<1>3. Matching'
  BY DEF Flight, Matching, OK
<1>4. Separate(queue', cur', pend', batch')
  BY DEF Flight
<1> QED BY <1>1, <1>2, <1>3, <1>4 DEF Flight

\* Steps that move what is under way.
LEMMA FlightMoved ==
  ASSUME Flight, UNCHANGED <<pc, out, group>>, Separate(queue', cur', pend', batch'),
         Submitted' \subseteq Submitted, Matching'
  PROVE  Flight'
<1>1. ASSUME NEW j \in Submitted' PROVE Travels(j)'
  BY DEF Flight, Travels
<1> QED BY <1>1 DEF Flight

\* Request goroutines disturb nothing that is under way.
LEMMA FlightCaller ==
  ASSUME TypeInv, FlightInv, NEW c \in Clients, Receive(c) \/ Cancel(c) \/ Caller(c)
  PROVE  Flight'
<1>1. Flight
  BY DEF FlightInv
<1>2. CASE Receive(c) \/ FlushRepeatedOp(c) \/ PrepareDedup(c) \/ PrepareRefused(c) \/ PrepareAccepted(c)
           \/ PrepareDone(c) \/ SubmitRejected(c) \/ Collect(c) \/ Answer(c)
  <2>1. pc[c] # "wait" \/ \A k \in DOMAIN group[c] : out[c][group[c][k].item] # NoResult
    BY <1>2 DEF Receive, FlushRepeatedOp, PrepareDedup, PrepareRefused, PrepareAccepted,
       PrepareDone, SubmitRejected, Collect, Answer
  <2>2. UNCHANGED <<queue, cur, pend, batch, res, wpc>>
    BY <1>2 DEF Receive, FlushRepeatedOp, PrepareDedup, PrepareRefused, PrepareAccepted,
       PrepareDone, SubmitRejected, Collect, Answer, workVars, queueVars
  <2>3. ASSUME NEW d \in Clients, d # c PROVE pc'[d] = pc[d] /\ out'[d] = out[d] /\ group'[d] = group[d]
    <3>1. CASE Receive(c) \/ FlushRepeatedOp(c) \/ PrepareDedup(c) \/ PrepareRefused(c)
      BY <2>3, <3>1 DEF Receive, FlushRepeatedOp, PrepareDedup, PrepareRefused, TypeInv, TypeOK, CallTypes
    <3>2. CASE PrepareAccepted(c) \/ PrepareDone(c)
      BY <2>3, <3>2 DEF PrepareAccepted, PrepareDone, TypeInv, TypeOK, CallTypes
    <3>3. CASE SubmitRejected(c) \/ Collect(c) \/ Answer(c)
      BY <2>3, <3>3 DEF SubmitRejected, Collect, Answer, TypeInv, TypeOK, CallTypes
    <3> QED BY <1>2, <3>1, <3>2, <3>3
  <2> QED BY <1>1, <2>1, <2>2, <2>3, NothingUnderWay, FlightFrame
<1>3. CASE Cancel(c)
  <2>1. UNCHANGED <<queue, cur, pend, batch, res, wpc, pc, out, group>>
    BY <1>3 DEF Cancel, workVars, queueVars
  <2>2. Submitted' = Submitted /\ Matching'
    BY <1>1, <2>1 DEF Submitted, Flight, Matching, OK
  <2> QED BY <1>1, <2>1, <2>2, FlightMoved DEF Flight
<1>4. CASE SubmitAdmitted(c)
  <2>1. PICK g : g = group[c]
    OBVIOUS
  <2>2. /\ pc[c] = "submit" /\ pc' = [pc EXCEPT ![c] = "wait"] /\ queue' = Append(queue, g)
        /\ UNCHANGED <<cur, pend, batch, res, wpc, out, group>>
    BY <1>4, <2>1 DEF SubmitAdmitted, workVars
  <2>3. Clear(c)
    BY <2>2, NothingUnderWay
  <2>4. Fit(c, "submit", req[c], pos[c], g, held[c], out[c]) /\ g \in Seq(Job)
    BY <2>1, <2>2 DEF FlightInv, Fits, TypeInv, TypeOK, CallTypes
  <2>5. Distinct(g) /\ \A k \in DOMAIN g : g[k].client = c /\ out[c][g[k].item] = NoResult
    BY <2>4 DEF Fit, Owned
  <2>6. ASSUME NEW s, \A k \in DOMAIN s : s[k].client # c PROVE Apart(s, g) /\ Apart(g, s)
    BY <2>5, <2>6 DEF Apart, Same
  <2>7. /\ \A p \in DOMAIN queue : \A k \in DOMAIN queue[p] : queue[p][k].client # c
        /\ \A k \in DOMAIN cur : cur[k].client # c
        /\ \A k \in DOMAIN pend : pend[k].client # c
        /\ \A k \in DOMAIN batch : batch[k].client # c
    BY <2>3 DEF Clear, Submitted, Jobs
  <2>8. queue \in Seq(Seq(Job)) /\ Separate(queue, cur, pend, batch)
    BY <1>1 DEF Flight, TypeInv, TypeOK, WorkTypes
  <2>9. Apart(g, cur) /\ Apart(g, pend) /\ Apart(g, batch) /\ \A p \in DOMAIN queue : Apart(queue[p], g)
    BY <2>6, <2>7
  <2>10. Separate(queue', cur', pend', batch')
    BY <2>2, <2>4, <2>5, <2>8, <2>9, SeparateSubmit
  <2>11. Submitted' \subseteq Submitted \cup Jobs(g)
    <3>1. UNION {Jobs(queue'[p]) : p \in DOMAIN queue'} \subseteq (UNION {Jobs(queue[p]) : p \in DOMAIN queue}) \cup Jobs(g)
      BY <2>2, <2>4, <2>5, <2>8, <2>9, SeparateSubmit
    <3> QED BY <2>2, <3>1 DEF Submitted
  <2>12. ASSUME NEW j \in Submitted' PROVE Travels(j)'
    <3>1. CASE j \in Submitted
      <4>1. Travels(j) /\ j.client \in Clients /\ j.client # c
        BY <1>1, <2>3, <3>1, SubmittedType DEF Flight, Clear, Job
      <4> QED BY <2>2, <4>1 DEF Travels
    <3>2. CASE j \in Jobs(g)
      <4>1. PICK k \in DOMAIN g : j = g[k]
        BY <3>2 DEF Jobs
      <4>2. j.client = c /\ out[c][j.item] = NoResult /\ pc'[c] = "wait" /\ group'[c] = g
        BY <2>1, <2>2, <2>5, <4>1 DEF TypeInv, TypeOK, CallTypes
      <4> QED BY <2>2, <4>1, <4>2 DEF Travels
    <3> QED BY <2>11, <3>1, <3>2
  <2>13. Matching'
    BY <1>1, <2>2 DEF Flight, Matching, OK
  <2> QED BY <2>10, <2>12, <2>13 DEF Flight
<1> QED BY <1>2, <1>3, <1>4 DEF Caller

\* The worker's steps that report nothing yet.
LEMMA FlightWorker ==
  ASSUME TypeInv, FlightInv, Worker, ~Reply
  PROVE  Flight' /\ UNCHANGED callVars
<1>1. Flight /\ Separate(queue, cur, pend, batch)
  BY DEF FlightInv, Flight
<1>2. /\ queue \in Seq(Seq(Job)) /\ cur \in Seq(Job) /\ pend \in Seq(Job) /\ batch \in Seq(Job)
      /\ res \in Seq(Result)
  BY DEF TypeInv, TypeOK, WorkTypes
<1>3. UNCHANGED callVars
  BY DEF Worker, Take, Return, DrainPend, DrainEnd, Process, DrainJoin, Begin, PersistRepeated, PersistNew,
     Rollback, SkipJob, SavepointFails, PersistFails, Commit
<1>4. UNCHANGED <<pc, out, group>>
  BY <1>3 DEF callVars
<1>5. CASE Take
  <2>1. /\ queue # <<>> /\ cur' = Head(queue) /\ queue' = Tail(queue) /\ wpc' = "process"
        /\ UNCHANGED <<pend, batch>>
    BY <1>5 DEF Take
  <2>2. Separate(queue', cur', pend', batch')
    BY <1>1, <1>2, <2>1, SeparateTail DEF Separate
  <2>3. Submitted' \subseteq Submitted
    BY <1>2, <2>1, SubmittedTail DEF Submitted
  <2>4. Matching'
    BY <2>1 DEF Matching
  <2> QED BY <1>1, <1>3, <1>4, <2>2, <2>3, <2>4, FlightMoved
<1>6. CASE Return \/ DrainEnd
  <2>1. UNCHANGED <<queue, cur, pend, batch>> /\ wpc' \notin {"run", "reply"}
    BY <1>6 DEF Return, DrainEnd, queueVars
  <2>2. Submitted' = Submitted /\ Matching'
    BY <2>1 DEF Submitted, Matching
  <2> QED BY <1>1, <1>3, <1>4, <2>1, <2>2, FlightMoved
<1>7. CASE Process
  <2>1. batch' = cur /\ cur' = <<>> /\ UNCHANGED <<queue, pend>> /\ wpc' \notin {"run", "reply"}
    BY <1>7 DEF Process
  <2>2. Separate(queue', cur', pend', batch')
    <3>1. Apart(pend, cur)
      BY <1>1, ApartSym DEF Separate
    <3> QED BY <1>1, <2>1, <3>1, EmptyApart DEF Separate
  <2>3. Submitted' \subseteq Submitted /\ Matching'
    BY <2>1, EmptyApart DEF Submitted, Matching
  <2> QED BY <1>1, <1>3, <1>4, <2>2, <2>3, FlightMoved
<1>8. CASE DrainJoin
  <2>1. /\ queue # <<>> /\ Len(Head(queue)) = 1 /\ queue' = Tail(queue) /\ batch' = batch \o Head(queue)
        /\ UNCHANGED <<cur, pend>> /\ wpc' \notin {"run", "reply"}
    BY <1>8 DEF DrainJoin, DrainOpen, Joins
  <2>2. Separate(queue', cur', pend', batch')
    BY <1>1, <1>2, <2>1, SeparateJoin
  <2>3. Submitted' \subseteq Submitted
    <3>1. Jobs(batch') \subseteq Jobs(batch) \cup Jobs(Head(queue))
      BY <1>1, <1>2, <2>1, SeparateJoin
    <3> QED BY <1>2, <2>1, <3>1, SubmittedTail DEF Submitted
  <2>4. Matching'
    BY <2>1 DEF Matching
  <2> QED BY <1>1, <1>3, <1>4, <2>2, <2>3, <2>4, FlightMoved
<1>9. CASE DrainPend
  <2>1. /\ queue # <<>> /\ pend' = Head(queue) /\ queue' = Tail(queue) /\ wpc' = "begin"
        /\ UNCHANGED <<cur, batch>>
    BY <1>9 DEF DrainPend, DrainOpen
  <2>2. Separate(queue', cur', pend', batch')
    <3>1. Apart(cur, Head(queue))
      BY <1>1, <1>2, <2>1, SeparateTail, ApartSym
    <3> QED BY <1>1, <1>2, <2>1, <3>1, SeparateTail DEF Separate
  <2>3. Submitted' \subseteq Submitted
    BY <1>2, <2>1, SubmittedTail DEF Submitted
  <2>4. Matching'
    BY <2>1 DEF Matching
  <2> QED BY <1>1, <1>3, <1>4, <2>2, <2>3, <2>4, FlightMoved
<1>10. ASSUME UNCHANGED <<queue, cur, pend, batch>>, Matching' PROVE Flight' /\ UNCHANGED callVars
  <2>1. Submitted' = Submitted
    BY <1>10 DEF Submitted
  <2> QED BY <1>1, <1>3, <1>4, <1>10, <2>1, FlightMoved
<1>11. ASSUME NEW f \in BOOLEAN, Begin(f) PROVE Flight' /\ UNCHANGED callVars
  <2>1. res' = <<>> /\ UNCHANGED <<queue, cur, pend, batch>>
    BY <1>11 DEF Begin, queueVars
  <2>2. Matching'
    BY <1>2, <2>1 DEF Matching
  <2> QED BY <1>10, <2>1, <2>2
<1>12. ASSUME wpc = "run", wpc' = "run", Len(res) < Len(batch), NEW x \in Result, res' = Append(res, x),
              OK(x) => x.msg = NextJob.msg, UNCHANGED <<queue, cur, pend, batch>>
       PROVE  Flight' /\ UNCHANGED callVars
  <2>1. /\ Len(res') = Len(res) + 1 /\ DOMAIN res' = DOMAIN res \cup {Len(res) + 1}
        /\ res'[Len(res) + 1] = x /\ \A k \in DOMAIN res : res'[k] = res[k]
    BY <1>2, <1>12
  <2>2. \A k \in DOMAIN res : OK(res[k]) => res[k].msg = batch[k].msg
    BY <1>1, <1>12 DEF Flight, Matching
  <2>3. ASSUME NEW k \in DOMAIN res', OK(res'[k]) PROVE res'[k].msg = batch'[k].msg
    BY <1>12, <2>1, <2>2, <2>3 DEF NextJob
  <2>4. Len(res') <= Len(batch')
    BY <1>2, <1>12, <2>1
  <2>5. Matching'
    BY <2>3, <2>4 DEF Matching, OK
  <2> QED BY <1>10, <1>12, <2>5
<1>13. ASSUME NEW f \in BOOLEAN, PersistRepeated(f) PROVE Flight' /\ UNCHANGED callVars
  <2>1. PICK o \in OpRows(tx, NextJob.msg) : res' = Append(res, Saved(o))
    BY <1>13 DEF PersistRepeated
  <2>2. /\ wpc = "run" /\ wpc' = "run" /\ Len(res) < Len(batch) /\ SameHash(o, NextJob.msg)
        /\ UNCHANGED <<queue, cur, pend, batch>>
    BY <1>13, <2>1 DEF PersistRepeated, Running, Conflicts, queueVars
  <2>3. Saved(o) \in Result
    BY <2>1, SavedType DEF OpRows, TypeInv, TypeOK, StoreTypes
  <2>4. PICK m \in Message : m = NextJob.msg
    <3>1. NextJob \in Job
      BY <1>2, <2>2 DEF NextJob
    <3> QED BY <3>1 DEF Job
  <2>5. m = [chat |-> m.chat, dev |-> m.dev, op |-> m.op, body |-> m.body]
    BY DEF Message
  <2>6. Saved(o).msg = [chat |-> m.chat, dev |-> m.dev, op |-> m.op, body |-> m.body]
    BY <2>1, <2>2, <2>4 DEF Saved, OpRows, SameHash
  <2> QED BY <1>12, <2>1, <2>2, <2>3, <2>4, <2>5, <2>6
<1>14. ASSUME NEW f \in BOOLEAN, PersistNew(f) PROVE Flight' /\ UNCHANGED callVars
  <2> DEFINE x == [st |-> "new", seq |-> tx.seq[NextJob.msg.chat] + 1, msg |-> NextJob.msg]
  <2>1. /\ wpc = "run" /\ wpc' = "run" /\ Len(res) < Len(batch) /\ res' = Append(res, x)
        /\ UNCHANGED <<queue, cur, pend, batch>>
    BY <1>14 DEF PersistNew, Running, queueVars
  <2>2. NextJob \in Job
    BY <1>2, <2>1 DEF NextJob
  <2>3. x \in Result /\ x.msg = NextJob.msg
    BY <2>2 DEF Result, Job, Message, Store, TypeInv, TypeOK, StoreTypes
  <2> HIDE DEF x
  <2> QED BY <1>12, <2>1, <2>3
<1>15. CASE SkipJob \/ SavepointFails \/ PersistFails
  <2>1. /\ wpc = "run" /\ wpc' = "run" /\ Len(res) < Len(batch) /\ res' = Append(res, Err)
        /\ UNCHANGED <<queue, cur, pend, batch>>
    BY <1>15 DEF SkipJob, SavepointFails, PersistFails, Running, queueVars
  <2> QED BY <1>12, <2>1, ConstantResults, Refusals
<1>16. ASSUME Commit \/ \E f \in BOOLEAN : Rollback(f) PROVE Flight' /\ UNCHANGED callVars
  <2>1. wpc = "run" /\ UNCHANGED <<queue, cur, pend, batch, res>>
    BY <1>16 DEF Commit, Rollback, queueVars
  <2>2. Matching'
    BY <1>1, <2>1 DEF Flight, Matching, OK
  <2> QED BY <1>10, <2>1, <2>2
<1> QED BY <1>5, <1>6, <1>7, <1>8, <1>9, <1>11, <1>13, <1>14, <1>15, <1>16 DEF Worker

\* The worker reports to every submitter of its batch.
LEMMA FlightReply ==
  ASSUME TypeInv, FlightInv, Reply
  PROVE  FlightInv'
<1> DEFINE In(c, i) == \E k \in DOMAIN batch : batch[k].client = c /\ batch[k].item = i
           f(c) == [i \in DOMAIN out[c] |->
                      IF In(c, i)
                        THEN Final(res[CHOOSE k \in DOMAIN batch : batch[k].client = c /\ batch[k].item = i])
                        ELSE out[c][i]]
<1>1. /\ out' = [c \in Clients |-> f(c)] /\ cur' = pend /\ pend' = <<>> /\ batch' = <<>>
      /\ wpc = "reply" /\ wpc' \notin {"run", "reply"} /\ UNCHANGED <<pc, req, pos, group, held, queue>>
  BY DEF Reply, queueVars
<1>2. Flight /\ Separate(queue, cur, pend, batch) /\ \A c \in Clients : Fits(c)
  BY DEF FlightInv, Flight
<1>3. ASSUME NEW k \in DOMAIN batch
      PROVE  Travels(batch[k]) /\ (OK(Final(res[k])) => Final(res[k]).msg = batch[k].msg)
  <2>1. batch[k] \in Submitted
    BY DEF Submitted, Jobs
  <2>2. DOMAIN res = DOMAIN batch
    BY <1>1 DEF TypeInv, TypeOK, WorkTypes, Indexed
  <2>3. OK(res[k]) => res[k].msg = batch[k].msg
    BY <1>1, <1>2, <2>2 DEF Flight, Matching
  <2> QED BY <1>2, <2>1, <2>3, Refusals DEF Flight, Final
<1>4. ASSUME NEW c \in Clients, NEW i \in DOMAIN out[c]
      PROVE  /\ ~In(c, i) => f(c)[i] = out[c][i]
             /\ In(c, i) => \E k \in DOMAIN batch :
                              batch[k].client = c /\ batch[k].item = i /\ f(c)[i] = Final(res[k])
  OBVIOUS
<1>5. \A c \in Clients : DOMAIN f(c) = DOMAIN out[c]
  OBVIOUS
<1> HIDE DEF f
<1>6. ASSUME NEW c \in Clients PROVE Fits(c)'
  <2>1. out'[c] = f(c)
    BY <1>1
  <2>2. ClientTyped(req[c], pos[c], group[c], held[c], out[c])
        /\ Fit(c, pc[c], req[c], pos[c], group[c], held[c], out[c])
    BY <1>2, Typed DEF Fits
  <2>3. CASE pc[c] = "wait"
    <3>1. ASSUME NEW i \in DOMAIN out[c], f(c)[i] # out[c][i]
          PROVE  \E l \in DOMAIN group[c] :
                    group[c][l].item = i /\ (OK(f(c)[i]) => f(c)[i].msg = group[c][l].msg)
      <4>1. PICK k \in DOMAIN batch : batch[k].client = c /\ batch[k].item = i /\ f(c)[i] = Final(res[k])
        BY <1>4, <3>1
      <4>2. PICK l \in DOMAIN group[c] : group[c][l] = batch[k]
        BY <1>3, <4>1 DEF Travels
      <4> QED BY <1>3, <4>1, <4>2
    <3>2. Fit(c, "wait", req[c], pos[c], group[c], held[c], f(c))
      BY <1>5, <2>2, <2>3, <3>1, FitReplied
    <3> QED BY <1>1, <2>1, <2>3, <3>2 DEF Fits
  <2>4. CASE pc[c] # "wait"
    <3>1. \A i \in DOMAIN out[c] : ~In(c, i)
      BY <1>3, <2>4 DEF Travels
    <3>2. out[c] \in Seq(Result)
      BY DEF TypeInv, TypeOK, CallTypes
    <3>3. f(c) = out[c]
      <4>1. f(c) = [i \in DOMAIN out[c] |-> f(c)[i]]
        BY DEF f
      <4>2. out[c] = [i \in DOMAIN out[c] |-> out[c][i]]
        BY <3>2
      <4>3. \A i \in DOMAIN out[c] : f(c)[i] = out[c][i]
        BY <1>4, <3>1
      <4> QED BY <4>1, <4>2, <4>3
    <3> QED BY <1>1, <1>2, <2>1, <3>3 DEF Fits
  <2> QED BY <2>3, <2>4
<1>7. Submitted' \subseteq Submitted
  BY <1>1, EmptyApart DEF Submitted
<1>8. ASSUME NEW j \in Submitted' PROVE Travels(j)'
  <2>1. Travels(j) /\ j \in Job /\ j.client \in Clients
    BY <1>2, <1>7, SubmittedType DEF Flight, Job
  <2>2. ~In(j.client, j.item)
    <3>1. CASE j \in Jobs(pend)
      <4>1. PICK k \in DOMAIN pend : j = pend[k]
        BY <3>1 DEF Jobs
      <4> QED BY <1>2, <4>1 DEF Separate, Apart, Same
    <3>2. CASE j \in UNION {Jobs(queue[p]) : p \in DOMAIN queue}
      <4>1. PICK p \in DOMAIN queue : j \in Jobs(queue[p])
        BY <3>2
      <4>2. PICK k \in DOMAIN queue[p] : j = queue[p][k]
        BY <4>1 DEF Jobs
      <4> QED BY <1>2, <4>2 DEF Separate, Apart, Same
    <3> QED BY <1>1, <3>1, <3>2, EmptyApart DEF Submitted
  <2>3. PICK k \in DOMAIN group[j.client] : group[j.client][k] = j
    BY <2>1 DEF Travels
  <2>4. j.item \in DOMAIN out[j.client]
    <3>1. j.item \in DOMAIN req[j.client]
      BY <1>2, <2>1, <2>3 DEF Fits, Fit, Owned
    <3> QED BY <2>1, <3>1 DEF TypeInv, TypeOK, CallTypes, Indexed
  <2>5. f(j.client)[j.item] = out[j.client][j.item]
    BY <1>4, <2>1, <2>2, <2>4
  <2> QED BY <1>1, <2>1, <2>5 DEF Travels
<1>9. Separate(queue', cur', pend', batch')
  BY <1>1, <1>2, EmptyApart DEF Separate
<1>10. Matching'
  BY <1>1 DEF Matching
<1> QED BY <1>6, <1>8, <1>9, <1>10 DEF FlightInv, Flight

\* No step loses or mixes up a prepared job.
LEMMA FlightStep == ASSUME TypeInv, FlightInv, [Next]_vars PROVE FlightInv'
<1>1. ASSUME UNCHANGED callVars PROVE \A c \in Clients : Fits(c)'
  BY <1>1 DEF FlightInv, callVars, Fits
<1>2. CASE CloseCore \/ CloseWriter \/ Administer \/ UNCHANGED vars
  <2>1. /\ UNCHANGED callVars
        /\ UNCHANGED <<queue, cur, pend, batch, res, wpc>>
    BY <1>2 DEF CloseCore, CloseWriter, Administer, PutMember, RevokeDevice, ConfirmMLSEpoch, vars,
       queueVars, workVars
  <2>2. UNCHANGED <<pc, out, group>>
    BY <2>1 DEF callVars
  <2>3. Submitted' = Submitted /\ Matching' /\ Flight
    BY <2>1 DEF Submitted, FlightInv, Flight, Matching, OK
  <2>4. Separate(queue', cur', pend', batch')
    BY <2>1, <2>3 DEF Flight
  <2>5. Flight'
    BY <2>2, <2>3, <2>4, FlightMoved
  <2> QED BY <1>1, <2>1, <2>5 DEF FlightInv
<1>3. CASE Restart
  <2>1. /\ pc' = [c \in Clients |-> "idle"] /\ req' = [c \in Clients |-> <<>>] /\ pos' = [c \in Clients |-> 1]
        /\ group' = [c \in Clients |-> <<>>] /\ held' = [c \in Clients |-> <<>>]
        /\ out' = [c \in Clients |-> <<>>] /\ queue' = <<>> /\ cur' = <<>> /\ pend' = <<>> /\ batch' = <<>>
        /\ wpc' = "select"
    BY <1>3 DEF Restart
  <2>2. ASSUME NEW c \in Clients PROVE Fits(c)'
    <3>1. Fit(c, "idle", <<>>, 1, <<>>, <<>>, <<>>)
      BY EmptyApart DEF Fit
    <3> QED BY <2>1, <3>1 DEF Fits
  <2>3. Submitted' = {} /\ Separate(queue', cur', pend', batch') /\ Matching'
    BY <2>1, EmptyApart DEF Submitted, Separate, Matching
  <2> QED BY <2>2, <2>3 DEF FlightInv, Flight
<1>4. ASSUME NEW c \in Clients, Receive(c) \/ Cancel(c) \/ Caller(c) PROVE FlightInv'
  BY <1>4, FitsCaller, FlightCaller DEF FlightInv
<1>5. CASE Worker
  BY <1>1, <1>5, FlightWorker, FlightReply DEF FlightInv
<1> QED BY <1>2, <1>3, <1>4, <1>5 DEF Next

\* Nothing is under way initially.
LEMMA FlightInit == ASSUME Init PROVE FlightInv
<1>1. /\ pc = [c \in Clients |-> "idle"] /\ req = [c \in Clients |-> <<>>] /\ pos = [c \in Clients |-> 1]
      /\ group = [c \in Clients |-> <<>>] /\ held = [c \in Clients |-> <<>>]
      /\ out = [c \in Clients |-> <<>>] /\ queue = <<>> /\ cur = <<>> /\ pend = <<>> /\ batch = <<>>
      /\ wpc = "select"
  BY DEF Init
<1>2. ASSUME NEW c \in Clients PROVE Fits(c)
  <2>1. Fit(c, "idle", <<>>, 1, <<>>, <<>>, <<>>)
    BY EmptyApart DEF Fit
  <2> QED BY <1>1, <2>1 DEF Fits
<1>3. Submitted = {} /\ Separate(queue, cur, pend, batch) /\ Matching
  BY <1>1, EmptyApart DEF Submitted, Separate, Matching
<1> QED BY <1>2, <1>3 DEF FlightInv, Flight

-----------------------------------------------------------------------------
(* What a submitter is told is what happened.                              *)

\* The worker has committed item i of client c and has not told it yet.
Untold(c, i) ==
  /\ wpc = "reply" /\ ~batchErr
  /\ \E k \in DOMAIN batch : batch[k].client = c /\ batch[k].item = i /\ res[k].st = "new"

Wrote(c) ==
  /\ \A i \in DOMAIN out[c] : out[c][i].st = "new" => i \in wrote[c]
  /\ \A i \in wrote[c] : (i \in DOMAIN out[c] /\ out[c][i].st = "new") \/ Untold(c, i)

OutcomeInv ==
  /\ \A c \in Clients : Wrote(c)
  /\ wpc = "reply" /\ ~batchErr =>
       \A k \in DOMAIN batch : res[k].st = "new" => batch[k].item \in wrote[batch[k].client]

\* Nothing is untold of a client that has nothing submitted.
LEMMA ClearTold == ASSUME NEW c, Clear(c), NEW i PROVE ~Untold(c, i)
  BY DEF Clear, Submitted, Jobs, Untold

\* A client settles items that had no result, with results that are not new.
LEMMA OutcomeFrame ==
  ASSUME OutcomeInv, TypeInv, UNCHANGED <<workVars, wrote>>, NEW c \in Clients, Clear(c),
         \A d \in Clients : d # c => out'[d] = out[d],
         \A i \in DOMAIN out[c] : i \in DOMAIN out'[c],
         \A i \in DOMAIN out'[c] :
            (i \in DOMAIN out[c] /\ out'[c][i] = out[c][i])
            \/ ((i \in DOMAIN out[c] => out[c][i].st # "new") /\ out'[c][i].st # "new")
  PROVE  OutcomeInv'
<1>1. \A d \in Clients : \A i : Untold(d, i)' <=> Untold(d, i)
  BY DEF Untold, workVars
<1>2. ASSUME NEW d \in Clients PROVE Wrote(d)'
  <2>1. CASE d = c
    <3>1. Wrote(c) /\ \A i : ~Untold(c, i)
      BY ClearTold DEF OutcomeInv
    <3>2. ASSUME NEW i \in wrote[c] PROVE i \in DOMAIN out'[c] /\ out'[c][i].st = "new"
      BY <3>1, <3>2 DEF Wrote
    <3>3. ASSUME NEW i \in DOMAIN out'[c], out'[c][i].st = "new" PROVE i \in wrote[c]
      BY <3>1, <3>3 DEF Wrote
    <3> QED BY <2>1, <3>2, <3>3 DEF Wrote
  <2>2. CASE d # c
    BY <1>1, <2>2 DEF OutcomeInv, Wrote
  <2> QED BY <2>1, <2>2
<1> QED BY <1>2 DEF OutcomeInv, workVars

\* A request settles only items that its jobs have not committed.
LEMMA OutcomeCaller ==
  ASSUME TypeInv, FlightInv, OutcomeInv, NEW c \in Clients, Receive(c) \/ Cancel(c) \/ Caller(c)
  PROVE  OutcomeInv'
<1>1. Fit(c, pc[c], req[c], pos[c], group[c], held[c], out[c])
  BY DEF FlightInv, Fits
<1>2. NoResult.st # "new" /\ Err.st # "new" /\ \A o : Saved(o).st # "new"
  BY DEF NoResult, Err, Saved
<1>3. CASE Receive(c)
  <2>1. PICK t \in Requests : out' = [out EXCEPT ![c] = [i \in 1..Len(t) |-> NoResult]]
    BY <1>3 DEF Receive
  <2>2. /\ out[c] = <<>> /\ pc[c] # "wait" /\ UNCHANGED <<workVars, wrote>>
    BY <1>1, <1>3 DEF Receive, Fit, ghostVars
  <2>3. out'[c] = [i \in 1..Len(t) |-> NoResult] /\ \A d \in Clients : d # c => out'[d] = out[d]
    BY <2>1 DEF TypeInv, TypeOK, CallTypes
  <2>4. \A i \in DOMAIN out'[c] : out'[c][i] = NoResult
    BY <2>3
  <2>5. DOMAIN out[c] = {}
    BY <2>2
  <2> QED BY <1>2, <2>2, <2>3, <2>4, <2>5, NothingUnderWay, OutcomeFrame
<1>4. ASSUME pc[c] # "wait", UNCHANGED <<workVars, wrote>>, NEW x, x.st # "new", out[c][pos[c]].st # "new",
             out' = [out EXCEPT ![c][pos[c]] = x]
      PROVE  OutcomeInv'
  <2>1. /\ out'[c] = [out[c] EXCEPT ![pos[c]] = x] /\ \A d \in Clients : d # c => out'[d] = out[d]
        /\ out[c] \in Seq(Result)
    BY <1>4 DEF TypeInv, TypeOK, CallTypes
  <2>2. /\ DOMAIN out'[c] = DOMAIN out[c]
        /\ \A i \in DOMAIN out[c] : out'[c][i] = IF i = pos[c] THEN x ELSE out[c][i]
    BY <2>1
  <2>3. Clear(c)
    BY <1>4, NothingUnderWay
  <2> QED BY <1>4, <2>1, <2>2, <2>3, OutcomeFrame
<1>5. CASE PrepareDedup(c) \/ PrepareRefused(c)
  <2>1. /\ pc[c] # "wait" /\ UNCHANGED <<workVars, wrote>> /\ pos[c] <= Len(req[c])
    BY <1>5 DEF PrepareDedup, PrepareRefused, TypeInv, Indexed, ghostVars
  <2>2. pos[c] \in DOMAIN out[c] /\ pos[c] >= pos[c]
    BY <2>1, Typed DEF ClientTyped
  <2>3. out[c][pos[c]].st # "new"
    BY <1>1, <1>2, <2>2 DEF Fit
  <2>4. UNCHANGED out \/ \E x : x.st # "new" /\ out' = [out EXCEPT ![c][pos[c]] = x]
    BY <1>2, <1>5 DEF PrepareDedup, PrepareRefused
  <2>5. CASE UNCHANGED out
    BY <2>1, <2>5, NothingUnderWay, OutcomeFrame
  <2> QED BY <1>4, <2>1, <2>3, <2>4, <2>5
<1>6. CASE SubmitRejected(c)
  <2>1. pc[c] = "submit" /\ UNCHANGED <<workVars, wrote>>
    BY <1>6 DEF SubmitRejected, ghostVars
  <2> DEFINE f == [i \in DOMAIN out[c] |-> IF \E k \in DOMAIN group[c] : group[c][k].item = i THEN Err ELSE out[c][i]]
  <2>2. out'[c] = f /\ \A d \in Clients : d # c => out'[d] = out[d]
    BY <1>6 DEF SubmitRejected, TypeInv, TypeOK, CallTypes
  <2>3. ASSUME NEW i \in DOMAIN out[c], f[i] # out[c][i] PROVE f[i] = Err /\ out[c][i] = NoResult
    BY <1>1, <2>1, <2>3 DEF Fit
  <2>4. DOMAIN f = DOMAIN out[c]
    OBVIOUS
  <2> HIDE DEF f
  <2>5. Clear(c)
    BY <2>1, NothingUnderWay
  <2> QED BY <1>2, <2>1, <2>2, <2>3, <2>4, <2>5, OutcomeFrame
<1>7. CASE Answer(c)
  <2>1. /\ pc[c] = "answer" /\ UNCHANGED workVars
        /\ out' = [out EXCEPT ![c] = <<>>] /\ wrote' = [wrote EXCEPT ![c] = {}]
    BY <1>7 DEF Answer
  <2>2. \A d \in Clients : \A i : Untold(d, i)' <=> Untold(d, i)
    BY <2>1 DEF Untold, workVars
  <2>3. /\ out'[c] = <<>> /\ wrote'[c] = {}
        /\ \A d \in Clients : d # c => out'[d] = out[d] /\ wrote'[d] = wrote[d]
    BY <2>1 DEF TypeInv, TypeOK, CallTypes, GhostTypes
  <2>4. ASSUME NEW d \in Clients PROVE Wrote(d)'
    <3>1. CASE d = c
      BY <2>3, <3>1 DEF Wrote
    <3>2. CASE d # c
      BY <2>2, <2>3, <3>2 DEF OutcomeInv, Wrote
    <3> QED BY <3>1, <3>2
  <2>5. ASSUME NEW k \in DOMAIN batch PROVE batch[k].client \in Clients /\ batch[k].client # c
    <3>1. batch[k] \in Job
      BY DEF TypeInv, TypeOK, WorkTypes
    <3>2. Clear(c)
      BY <2>1, NothingUnderWay
    <3> QED BY <3>1, <3>2 DEF Job, Clear, Submitted, Jobs
  <2>6. wpc' = "reply" /\ ~batchErr' =>
          \A k \in DOMAIN batch' : res'[k].st = "new" => batch'[k].item \in wrote'[batch'[k].client]
    BY <2>1, <2>3, <2>5 DEF OutcomeInv, workVars
  <2> QED BY <2>4, <2>6 DEF OutcomeInv
<1>8. CASE UNCHANGED <<out, workVars, wrote>>
  BY <1>8 DEF OutcomeInv, Wrote, Untold, workVars
<1> QED BY <1>3, <1>5, <1>6, <1>7, <1>8 DEF Caller, Cancel, FlushRepeatedOp, PrepareAccepted, PrepareDone,
       SubmitAdmitted, Collect, ghostVars

\* A commit writes exactly the items whose results are new.
LEMMA OutcomeCommit ==
  ASSUME TypeInv, FlightInv, OutcomeInv, LogInv, Commit
  PROVE  OutcomeInv'
<1> DEFINE its(c) == {r.job.item : r \in {q \in tx.rows \ db.rows : q.job # NoMessage /\ q.job.client = c}}
<1>1. /\ wpc = "run" /\ ~batchErr /\ wpc' = "reply" /\ UNCHANGED <<out, batch, res, batchErr>>
      /\ wrote' = [c \in Clients |-> wrote[c] \cup its(c)]
      /\ Len(res) = Len(batch)
  BY DEF Commit, callVars
<1>2. Adds /\ DOMAIN res = DOMAIN batch
  BY <1>1 DEF LogInv, TypeInv, TypeOK, WorkTypes
<1>3. ASSUME NEW k \in DOMAIN batch, res[k].st = "new" PROVE batch[k].item \in its(batch[k].client)
  <2>1. PICK r \in Added : r.job = batch[k]
    BY <1>2, <1>3 DEF Adds
  <2>2. r.job \in Job /\ r.job # NoMessage
    BY <1>2, <2>1, ConstantsAssumption DEF Adds
  <2> QED BY <2>1, <2>2 DEF Added
<1>4. ASSUME NEW c \in Clients, NEW i \in its(c)
      PROVE  \E k \in DOMAIN batch : batch[k].client = c /\ batch[k].item = i /\ res[k].st = "new"
  <2>1. PICK r \in Added : r.job.client = c /\ r.job.item = i
    BY DEF Added
  <2>2. PICK k \in DOMAIN res : res[k].st = "new" /\ batch[k] = r.job
    BY <1>2, <2>1 DEF Adds
  <2> QED BY <1>2, <2>1, <2>2
<1> HIDE DEF its
<1>5. ASSUME NEW c \in Clients PROVE Wrote(c)'
  <2>1. wrote'[c] = wrote[c] \cup its(c)
    BY <1>1
  <2>2. Wrote(c) /\ \A i : ~Untold(c, i)
    BY <1>1 DEF OutcomeInv, Untold
  <2>3. \A i \in its(c) : Untold(c, i)'
    BY <1>1, <1>4 DEF Untold
  <2>4. \A i \in wrote'[c] : (i \in DOMAIN out'[c] /\ out'[c][i].st = "new") \/ Untold(c, i)'
    BY <1>1, <2>1, <2>2, <2>3 DEF Wrote
  <2>5. \A i \in DOMAIN out'[c] : out'[c][i].st = "new" => i \in wrote'[c]
    BY <1>1, <2>1, <2>2 DEF Wrote
  <2> QED BY <2>4, <2>5 DEF Wrote
<1>6. ASSUME NEW k \in DOMAIN batch, res[k].st = "new" PROVE batch[k].item \in wrote'[batch[k].client]
  <2>1. batch[k].client \in Clients
    <3>1. batch[k] \in Job
      BY DEF TypeInv, TypeOK, WorkTypes
    <3> QED BY <3>1 DEF Job
  <2> QED BY <1>1, <1>3, <1>6, <2>1
<1> QED BY <1>1, <1>5, <1>6 DEF OutcomeInv

\* The reply tells every submitter what was committed.
LEMMA OutcomeReply ==
  ASSUME TypeInv, FlightInv, OutcomeInv, Reply
  PROVE  OutcomeInv'
<1> DEFINE In(c, i) == \E k \in DOMAIN batch : batch[k].client = c /\ batch[k].item = i
           f(c) == [i \in DOMAIN out[c] |->
                      IF In(c, i)
                        THEN Final(res[CHOOSE k \in DOMAIN batch : batch[k].client = c /\ batch[k].item = i])
                        ELSE out[c][i]]
<1>1. out' = [c \in Clients |-> f(c)] /\ wpc = "reply" /\ wpc' # "reply" /\ UNCHANGED wrote
  BY DEF Reply, ghostVars
<1>2. Distinct(batch) /\ \A k \in DOMAIN batch : Travels(batch[k]) /\ batch[k] \in Job
  BY DEF FlightInv, Flight, Separate, Submitted, Jobs, TypeInv, TypeOK, WorkTypes
<1>3. ASSUME NEW c \in Clients, NEW i \in DOMAIN out[c]
      PROVE  /\ ~In(c, i) => f(c)[i] = out[c][i]
             /\ In(c, i) => \E k \in DOMAIN batch :
                              batch[k].client = c /\ batch[k].item = i /\ f(c)[i] = Final(res[k])
  OBVIOUS
<1>4. \A c \in Clients : DOMAIN f(c) = DOMAIN out[c]
  OBVIOUS
<1> HIDE DEF f
<1>5. NoResult.st # "new" /\ \A r : Final(r).st = "new" => r.st = "new" /\ ~batchErr
  BY DEF NoResult, Final, OK, Err
<1>6. ASSUME NEW c \in Clients, NEW k \in DOMAIN batch, batch[k].client = c
      PROVE  batch[k].item \in DOMAIN out[c] /\ f(c)[batch[k].item] = Final(res[k])
             /\ out[c][batch[k].item] = NoResult
  <2>1. PICK l \in DOMAIN group[c] : group[c][l] = batch[k]
    BY <1>2, <1>6 DEF Travels
  <2>2. batch[k].item \in DOMAIN req[c]
    BY <2>1 DEF FlightInv, Fits, Fit, Owned
  <2>3. batch[k].item \in DOMAIN out[c]
    BY <2>2 DEF TypeInv, TypeOK, CallTypes, Indexed
  <2>4. PICK n \in DOMAIN batch :
          batch[n].client = c /\ batch[n].item = batch[k].item /\ f(c)[batch[k].item] = Final(res[n])
    BY <1>3, <1>6, <2>3
  <2>5. n = k
    BY <1>2, <1>6, <2>4 DEF Distinct, Same
  <2> QED BY <1>2, <1>6, <2>3, <2>4, <2>5 DEF Travels
<1>7. ASSUME NEW c \in Clients PROVE Wrote(c)'
  <2>1. out'[c] = f(c) /\ Wrote(c)
    BY <1>1 DEF OutcomeInv
  <2>2. ASSUME NEW i \in DOMAIN f(c), f(c)[i].st = "new" PROVE i \in wrote[c]
    <3>1. CASE In(c, i)
      <4>1. PICK k \in DOMAIN batch : batch[k].client = c /\ batch[k].item = i /\ f(c)[i] = Final(res[k])
        BY <1>3, <1>4, <2>2, <3>1
      <4>2. res[k].st = "new" /\ ~batchErr
        BY <1>5, <2>2, <4>1
      <4> QED BY <1>1, <4>1, <4>2 DEF OutcomeInv
    <3>2. CASE ~In(c, i)
      BY <1>3, <1>4, <2>1, <2>2, <3>2 DEF Wrote
    <3> QED BY <3>1, <3>2
  <2>3. ASSUME NEW i \in wrote[c] PROVE i \in DOMAIN f(c) /\ f(c)[i].st = "new"
    <3>1. CASE Untold(c, i)
      <4>1. PICK k \in DOMAIN batch : batch[k].client = c /\ batch[k].item = i /\ res[k].st = "new" /\ ~batchErr
        BY <3>1 DEF Untold
      <4>2. i \in DOMAIN out[c] /\ f(c)[i] = Final(res[k])
        BY <1>6, <4>1
      <4> QED BY <1>4, <4>1, <4>2 DEF Final
    <3>2. CASE ~Untold(c, i)
      <4>1. i \in DOMAIN out[c] /\ out[c][i].st = "new"
        BY <2>1, <3>2 DEF Wrote
      <4>2. ~In(c, i)
        BY <1>5, <1>6, <4>1
      <4> QED BY <1>3, <1>4, <4>1, <4>2
    <3> QED BY <3>1, <3>2
  <2> QED BY <1>1, <2>1, <2>2, <2>3 DEF Wrote
<1> QED BY <1>1, <1>7 DEF OutcomeInv

\* No step breaks the agreement of results and commits.
LEMMA OutcomeStep == ASSUME TypeInv, FlightInv, LogInv, OutcomeInv, [Next]_vars PROVE OutcomeInv'
<1>1. CASE UNCHANGED <<out, wpc, batchErr, batch, res, wrote>>
  BY <1>1 DEF OutcomeInv, Wrote, Untold
<1>2. ASSUME wpc # "reply", wpc' # "reply", UNCHANGED <<out, wrote>> PROVE OutcomeInv'
  BY <1>2 DEF OutcomeInv, Wrote, Untold
<1>3. CASE CloseCore \/ CloseWriter \/ Administer \/ UNCHANGED vars
  BY <1>1, <1>3 DEF CloseCore, CloseWriter, Administer, PutMember, RevokeDevice, ConfirmMLSEpoch, vars,
     callVars, workVars, ghostVars
<1>4. CASE Restart
  <2>1. wpc' = "select" /\ out' = [c \in Clients |-> <<>>] /\ wrote' = [c \in Clients |-> {}]
    BY <1>4 DEF Restart
  <2>2. \A c \in Clients : Wrote(c)'
    BY <2>1 DEF Wrote
  <2> QED BY <2>1, <2>2 DEF OutcomeInv
<1>5. CASE Take \/ Return \/ DrainPend \/ DrainEnd \/ Process \/ DrainJoin
  BY <1>2, <1>5 DEF Take, Return, DrainPend, DrainEnd, Process, DrainJoin, callVars, ghostVars
<1>6. CASE \E f \in BOOLEAN : Begin(f) \/ PersistRepeated(f) \/ PersistNew(f)
  BY <1>2, <1>6 DEF Begin, PersistRepeated, PersistNew, Running, callVars, ghostVars
<1>7. CASE SkipJob \/ SavepointFails \/ PersistFails
  BY <1>2, <1>7 DEF SkipJob, SavepointFails, PersistFails, Running, callVars, ghostVars
<1>8. ASSUME NEW f \in BOOLEAN, Rollback(f) PROVE OutcomeInv'
  <2>1. /\ wpc = "run" /\ wpc' = "reply" /\ UNCHANGED <<out, wrote, batch, res>> /\ Len(res) = Len(batch)
        /\ (~batchErr' => Changed = {})
    BY <1>8 DEF Rollback, callVars, ghostVars
  <2>2. ~batchErr' => \A k \in DOMAIN batch : res[k].st # "new"
    <3>1. DOMAIN res = DOMAIN batch
      BY <2>1 DEF TypeInv, TypeOK, WorkTypes
    <3> QED BY <2>1, <3>1 DEF Changed
  <2>3. \A c \in Clients : Wrote(c)'
    BY <2>1 DEF OutcomeInv, Wrote, Untold
  <2> QED BY <2>1, <2>2, <2>3 DEF OutcomeInv
<1> QED BY <1>3, <1>4, <1>5, <1>6, <1>7, <1>8, OutcomeCaller, OutcomeCommit, OutcomeReply DEF Next, Worker

\* What the writer tells a submitter is what happened to its job: an error left
\* nothing behind, a fresh success is committed (writer_queue.go collects one result
\* per job and turns the successes of a failed batch into errors).
THEOREM DefinitiveOutcomeHolds == Spec => []DefinitiveOutcome
<1>1. Init => LogInv /\ FlightInv /\ OutcomeInv
  <2>1. Init => LogInv
    BY DEF Init, LogInv, Journal, InitStore, Log!Numbered, Log!Once
  <2>2. Init => OutcomeInv
    BY DEF Init, OutcomeInv, Wrote
  <2> QED BY <2>1, <2>2, FlightInit
<1>2. TypeInv /\ LogInv /\ FlightInv /\ OutcomeInv /\ [Next]_vars => (LogInv /\ FlightInv /\ OutcomeInv)'
  BY LogStep, FlightStep, OutcomeStep
<1>3. FlightInv /\ OutcomeInv => DefinitiveOutcome
  <2> SUFFICES ASSUME FlightInv, OutcomeInv, NEW c \in Clients, NEW i \in DOMAIN out[c]
               PROVE  /\ out[c][i].st = "err" => i \notin wrote[c]
                      /\ out[c][i].st = "new" => i \in wrote[c]
    BY DEF DefinitiveOutcome
  <2>1. Wrote(c)
    BY DEF OutcomeInv
  <2>2. ASSUME out[c][i].st = "err" PROVE ~Untold(c, i)
    <3> SUFFICES ASSUME NEW k \in DOMAIN batch, batch[k].client = c, batch[k].item = i PROVE FALSE
      BY DEF Untold
    <3>1. Travels(batch[k])
      BY DEF FlightInv, Flight, Submitted, Jobs
    <3> QED BY <2>2, <3>1 DEF Travels, NoResult
  <2> QED BY <2>1, <2>2 DEF Wrote
<1> QED BY <1>1, <1>2, <1>3, TypeCorrect, PTL DEF Spec

-----------------------------------------------------------------------------
(* The write path implements the message log.                              *)

\* A store that continues the committed one appends to the log.
LEMMA Continues ==
  ASSUME TypeInv, LogInv, NEW s \in Store, Journal(s), db.rows \subseteq s.rows,
         \A r \in s.rows \ db.rows : r.seq > db.seq[r.chat],
         db' = s, UNCHANGED acked
  PROVE  [Log!Next]_<<db.rows, acked>>
<1>1. Log!Numbered(s.rows) /\ Log!Dense(s.rows) /\ Log!Once(s.rows)
  BY JournalDense
<1>2. ASSUME NEW r \in s.rows \ db.rows, NEW q \in db.rows, r.chat = q.chat PROVE r.seq > q.seq
  <2>1. q.seq \in 1..db.seq[q.chat] /\ r.seq > db.seq[r.chat]
    BY DEF LogInv, Journal
  <2>2. db.seq[q.chat] \in Nat /\ r.seq \in Nat
    BY DEF TypeInv, TypeOK, StoreTypes, Store, Row
  <2> QED BY <1>2, <2>1, <2>2
<1>3. CASE s.rows = db.rows
  BY <1>3
<1>4. CASE s.rows # db.rows
  <2>1. Log!AppendRows
    BY <1>1, <1>2, <1>4 DEF Log!AppendRows, Log!Numbered, Log!Dense, Log!Once
  <2> QED BY <2>1 DEF Log!Next
<1> QED BY <1>3, <1>4

\* Receipts name the message that was asked for, in the committed log.
LEMMA Acknowledged ==
  ASSUME TypeInv, DurInv, FlightInv, NEW c \in Clients, Answer(c)
  PROVE  [Log!Next]_<<db.rows, acked>>
<1>1. PICK S \in SUBSET {i \in DOMAIN req[c] : OK(out[c][i])} :
        acked' = acked \cup {[asked |-> req[c][i], msg |-> out[c][i].msg, seq |-> out[c][i].seq] : i \in S}
  <2>1. PICK S : /\ S \subseteq {i \in DOMAIN req[c] :
                                   \/ out[c][i].st = "new"
                                   \/ out[c][i].st = "repeated" /\ MayRead(req[c][i].chat, req[c][i].dev)}
                 /\ acked' = acked \cup {[asked |-> req[c][i], msg |-> out[c][i].msg, seq |-> out[c][i].seq]
                                          : i \in S}
    BY DEF Answer
  <2>2. S \subseteq {i \in DOMAIN req[c] : OK(out[c][i])}
    BY <2>1 DEF OK
  <2> QED BY <2>1, <2>2
<1>2. UNCHANGED db
  BY DEF Answer
<1>3. DOMAIN out[c] = DOMAIN req[c]
  BY DEF TypeInv, TypeOK, CallTypes, Indexed
<1>4. ASSUME NEW i \in S
      PROVE  /\ out[c][i].msg = req[c][i]
             /\ \E r \in db.rows : r.chat = req[c][i].chat /\ r.seq = out[c][i].seq /\ r.msg = req[c][i]
  <2>1. i \in DOMAIN out[c] /\ OK(out[c][i])
    BY <1>1, <1>3
  <2>2. Named(db.rows, out[c][i])
    BY <2>1 DEF DurInv, Honest
  <2>3. out[c][i].msg = req[c][i]
    BY <2>1 DEF FlightInv, Fits, Fit
  <2> QED BY <2>2, <2>3 DEF Named
<1>5. ASSUME NEW a \in acked' \ acked
      PROVE  /\ a.msg = a.asked
             /\ \E r \in db.rows : r.chat = a.asked.chat /\ r.seq = a.seq /\ r.msg = a.asked
  <2>1. PICK i \in S : a = [asked |-> req[c][i], msg |-> out[c][i].msg, seq |-> out[c][i].seq]
    BY <1>1
  <2>2. a.asked = req[c][i] /\ a.msg = out[c][i].msg /\ a.seq = out[c][i].seq
    BY <2>1
  <2> QED BY <1>4, <2>2
<1>6. CASE acked' = acked
  BY <1>2, <1>6
<1>7. CASE acked' # acked
  <2>1. Log!Acknowledge
    BY <1>1, <1>2, <1>5, <1>7 DEF Log!Acknowledge
  <2> QED BY <2>1 DEF Log!Next
<1> QED BY <1>6, <1>7

\* The write path implements the append-only log with receipts: every commit of a
\* batch and every administrative append is one AppendRows step, every response one
\* Acknowledge step, and everything else leaves log and receipts alone.
THEOREM ImplementsLogHolds == Spec => ImplementsLog
<1>1. Init => LogInv /\ FlightInv /\ DurInv /\ Log!Init
  <2>1. Init => LogInv /\ Log!Init
    BY DEF Init, LogInv, Journal, InitStore, Log!Numbered, Log!Once, Log!Init
  <2>2. Init => DurInv
    BY DEF Init, DurInv, Honest, Backed, InitStore
  <2> QED BY <2>1, <2>2, FlightInit
<1>2. TypeInv /\ LogInv /\ FlightInv /\ DurInv /\ [Next]_vars => (LogInv /\ FlightInv /\ DurInv)'
  BY LogStep, FlightStep, DurStep
<1>3. TypeInv /\ LogInv /\ FlightInv /\ DurInv /\ [Next]_vars => [Log!Next]_<<db.rows, acked>>
  <2> SUFFICES ASSUME TypeInv, LogInv, FlightInv, DurInv, [Next]_vars
               PROVE  [Log!Next]_<<db.rows, acked>>
    OBVIOUS
  <2>1. CASE Commit
    <3>1. db' = tx /\ UNCHANGED acked /\ Adds /\ tx \in Store
      BY <2>1 DEF Commit, LogInv, TypeInv, TypeOK, StoreTypes
    <3> QED BY <3>1, Continues DEF Adds, Added
  <2>2. ASSUME NEW ch \in Chats, db' = AppendRow(db, ch, NoMessage, NoMessage), UNCHANGED acked
        PROVE  [Log!Next]_<<db.rows, acked>>
    <3> DEFINE r == [chat |-> ch, seq |-> db.seq[ch] + 1, msg |-> NoMessage, job |-> NoMessage]
               t == AppendRow(db, ch, NoMessage, NoMessage)
    <3>1. db \in Store /\ Journal(db)
      BY DEF LogInv, TypeInv, TypeOK, StoreTypes
    <3>2. t \in Store /\ t.rows = db.rows \cup {r} /\ t.ops = db.ops /\ t.seq = [db.seq EXCEPT ![ch] = @ + 1]
      BY <3>1, AppendRowType
    <3>3. Journal(t)
      BY <3>1, JournalAppend
    <3>4. r.chat = ch /\ r.seq = db.seq[ch] + 1 /\ db.seq[ch] \in Nat
      BY <3>1 DEF Store
    <3> HIDE DEF r
    <3>5. \A q \in t.rows \ db.rows : q.seq > db.seq[q.chat]
      BY <3>2, <3>4
    <3>6. db' = t
      BY <2>2
    <3> HIDE DEF t
    <3> QED BY <2>2, <3>2, <3>3, <3>5, <3>6, Continues
  <2>3. CASE UNCHANGED <<db, acked>>
    BY <2>3
  <2>4. CASE Administer
    BY <2>2, <2>3, <2>4 DEF Administer, PutMember, RevokeDevice, ConfirmMLSEpoch, ghostVars
  <2>5. ASSUME NEW c \in Clients, Receive(c) \/ Cancel(c) \/ Caller(c), ~Answer(c) PROVE UNCHANGED <<db, acked>>
    BY <2>5 DEF Receive, Cancel, Caller, FlushRepeatedOp, PrepareDedup, PrepareRefused, PrepareAccepted,
       PrepareDone, SubmitRejected, SubmitAdmitted, Collect, ghostVars
  <2>6. ASSUME Worker, ~Commit PROVE UNCHANGED <<db, acked>>
    BY <2>6 DEF Worker, Take, Return, DrainPend, DrainEnd, Process, DrainJoin, Begin, PersistRepeated,
       PersistNew, Rollback, SkipJob, SavepointFails, PersistFails, Reply, ghostVars
  <2>7. CASE CloseCore \/ CloseWriter \/ Restart \/ UNCHANGED vars
    BY <2>3, <2>7 DEF CloseCore, CloseWriter, Restart, vars, ghostVars
  <2> QED BY <2>1, <2>3, <2>4, <2>5, <2>6, <2>7, Acknowledged DEF Next
<1> QED BY <1>1, <1>2, <1>3, TypeCorrect, PTL DEF Spec, ImplementsLog, Log!Spec

=============================================================================
