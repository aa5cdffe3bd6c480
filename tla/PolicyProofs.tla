---------------------------- MODULE PolicyProofs ----------------------------
(***************************************************************************)
(* Proofs about Tasks and Policy, for every value of their constants: the  *)
(* jobs and what their workers deliver, then what the gateway hands to the *)
(* network, what a revocation stops, and what a continuation remembers.    *)
(*                                                                         *)
(* Policy shares the jobs and most of the steps of Tasks.  What keeps the  *)
(* invariant of the jobs is therefore proved once for each step, and used  *)
(* for Next of Tasks and for PNext of Policy; workers may be in the places *)
(* of either conversation.                                                 *)
(***************************************************************************)
EXTENDS Policy, FiniteSetTheorems, TLAPS

-----------------------------------------------------------------------------
(* Types of the jobs.                                                      *)

Places == Silent \cup {"check", "call", "tool", "loop", "tools", "calling", "using",
                     "leaving"}

Worker == [at : Places, job : Tasks \cup {0}, ver : Nat, epoch : Nat, turns : SUBSET Tasks,
           step : Nat, gen : Nat]

Statuses == {"none"} \cup Live \cup Finished

Answer == [seal : Nat \X Nat, turns : SUBSET Tasks]

Numbers == version \in [Sessions -> Nat] /\ epoch \in Nat /\ gen \in Nat

JobsTyped ==
  /\ kind \in Kinds /\ Numbers
  /\ status \in [Tasks -> Statuses]
  /\ context \in [Sessions -> SUBSET Tasks] /\ deleted \subseteq Tasks
  /\ wk \in [Workers -> Worker]
  /\ answers \in [Tasks -> Seq(Answer)]

\* The ids of tasks, and the states that are live or finished.
LEMMA TaskFacts ==
  /\ 0 \notin Tasks /\ \A t \in Tasks : SessionOf[t] \in Sessions
  /\ Idle \in Worker /\ Idle.job = 0 /\ Idle.turns = {}
  /\ \A st : st \in Live => st \notin Finished /\ st # "none"
  BY TasksAssumption DEF Tasks, Sessions, Idle, Worker, Places, Silent, Live, Finished

\* The worker moves within its conversation.
LEMMA GoTyped ==
  ASSUME wk \in [Workers -> Worker], NEW w \in Workers, NEW p \in Places, Go(w, p)
  PROVE  /\ wk' \in [Workers -> Worker]
         /\ \A v \in Workers : v # w => wk'[v] = wk[v]
         /\ wk'[w].at = p /\ wk'[w].job = wk[w].job /\ wk'[w].turns = wk[w].turns
<1>1. [wk[w] EXCEPT !.at = p] \in Worker
  BY DEF Worker
<1>2. wk' = [wk EXCEPT ![w] = [wk[w] EXCEPT !.at = p]]
  BY DEF Go
<1>3. wk[w] \in Worker
  OBVIOUS
<1>4. /\ [wk[w] EXCEPT !.at = p].at = p /\ [wk[w] EXCEPT !.at = p].job = wk[w].job
      /\ [wk[w] EXCEPT !.at = p].turns = wk[w].turns
  BY <1>3 DEF Worker
<1> QED BY <1>1, <1>2, <1>4

\* A worker that rests is idle; the others go on.
LEMMA RestTyped ==
  ASSUME wk \in [Workers -> Worker], NEW w \in Workers, Rest(w)
  PROVE  /\ wk' \in [Workers -> Worker] /\ wk'[w] = Idle
         /\ \A v \in Workers : v # w => wk'[v] = wk[v]
  BY TaskFacts DEF Rest

\* Only a live task gets a final status.
LEMMA SetStatusTyped ==
  ASSUME status \in [Tasks -> Statuses], NEW t, NEW new \in Finished, SetStatus(t, new)
  PROVE  /\ status' \in [Tasks -> Statuses]
         /\ \A u \in Tasks : status'[u] # status[u] => status[u] \in Live /\ status'[u] \in Finished
  BY DEF SetStatus, Settable, Statuses, Live

\* A worker that gives up a task finishes it or leaves it as it is.
LEMMA GiveUpTyped ==
  ASSUME status \in [Tasks -> Statuses], wk \in [Workers -> Worker],
         NEW w \in Workers, (\E new \in Finished : GiveUp(w, new)) \/ StoreFails(w)
  PROVE  /\ status' \in [Tasks -> Statuses] /\ wk' \in [Workers -> Worker]
         /\ \A u \in Tasks : status'[u] # status[u] => status[u] \in Live /\ status'[u] \in Finished
         /\ wk'[w] = Idle /\ \A v \in Workers : v # w => wk'[v] = wk[v]
<1>1. Rest(w)
  BY DEF GiveUp, StoreFails, LetGo
<1>2. UNCHANGED status \/ \E new \in Finished : SetStatus(wk[w].job, new)
  BY DEF GiveUp, StoreFails, Finished
<1> QED BY <1>1, <1>2, RestTyped, SetStatusTyped

\* Most steps are calm: a task only becomes finished, a worker keeps its task and
\* turns or lets go of them, and no context, deletion or answer changes.
StatusCalm == \A u \in Tasks : status'[u] # status[u] => status[u] \in Live /\ status'[u] \in Finished
WorkersCalm == \A v \in Workers :
  \/ wk'[v] = Idle \/ wk'[v] = wk[v]
  \/ /\ wk[v].at # "idle" /\ wk'[v].at # "idle"
     /\ wk'[v].job = wk[v].job /\ wk'[v].turns = wk[v].turns
     /\ wk[v].at = "leaving" => wk'[v].at = "leaving"
Calm == StatusCalm /\ WorkersCalm /\ UNCHANGED <<context, deleted, answers>>

\* What a calm step has to show of the other variables.
Kept == UNCHANGED <<kind, context, deleted, answers>> /\ (Numbers => Numbers')

\* A worker that moves on leaves claims and contexts alone.
LEMMA GoCalm ==
  ASSUME JobsTyped, Kept, NEW w \in Workers, NEW p \in Places, Go(w, p), UNCHANGED status,
         wk[w].at \notin {"idle", "leaving"}, p # "idle"
  PROVE  JobsTyped' /\ Calm
  BY GoTyped DEF JobsTyped, Kept, Calm, StatusCalm, WorkersCalm

\* So does one that gives up.
LEMMA GiveUpCalm ==
  ASSUME JobsTyped, Kept, NEW w \in Workers, (\E new \in Finished : GiveUp(w, new)) \/ StoreFails(w)
  PROVE  JobsTyped' /\ Calm
<1>1. /\ status' \in [Tasks -> Statuses] /\ wk' \in [Workers -> Worker]
      /\ \A u \in Tasks : status'[u] # status[u] => status[u] \in Live /\ status'[u] \in Finished
      /\ wk'[w] = Idle /\ \A v \in Workers : v # w => wk'[v] = wk[v]
  BY GiveUpTyped DEF JobsTyped
<1> QED BY <1>1 DEF JobsTyped, Kept, Calm, StatusCalm, WorkersCalm

\* A step that changes no worker.
LEMMA AsideCalm ==
  ASSUME JobsTyped, Kept, UNCHANGED wk, status' \in [Tasks -> Statuses], StatusCalm
  PROVE  JobsTyped' /\ Calm
  BY DEF JobsTyped, Kept, Calm, WorkersCalm

\* The places of a worker and the states of a task, spelled out.
LEMMA PlaceNames ==
  /\ Places = {"idle", "claimed", "ready", "answer", "commit", "check", "call", "tool", "loop",
               "tools", "calling", "using", "leaving"}
  /\ Finished = {"succeeded", "failed", "uncertain", "cancelled"}
  /\ Live = {"queued", "running", "awaiting"}
  BY DEF Places, Silent, Finished, Live

\* So does every step of a conversation.
LEMMA ConversationCalm ==
  ASSUME JobsTyped, NEW w \in Workers, Start(w) \/ Seal(w) \/ Converse(w)
  PROVE  JobsTyped' /\ Calm
<1> USE DEF Kept, Numbers, aclVars, outVars, jobVars, At
<1>1. CASE Start(w)
  BY PlaceNames, <1>1, GoCalm, GiveUpCalm DEF Start
<1>2. CASE Check(w)
  BY PlaceNames, <1>2, GoCalm, GiveUpCalm DEF Check, JobsTyped
<1>3. CASE Stream(w)
  BY <1>3, AsideCalm DEF Stream, Chunk, JobsTyped, StatusCalm
<1>4. CASE Reply(w)
  <2>1. CASE wk' = [wk EXCEPT ![w].at = "answer"] /\ active' = active \ {wk[w].job}
    BY PlaceNames, <1>4, <2>1, GoCalm DEF Reply, Go, JobsTyped
  <2> QED BY PlaceNames, <1>4, <2>1, GoCalm DEF Reply, JobsTyped
<1>5. CASE Error(w)
  BY PlaceNames, <1>5, GiveUpCalm DEF Error
<1>6. CASE Tool(w)
  <2>1. wk[w] \in Worker /\ wk[w].step + 1 \in Nat
    BY DEF JobsTyped, Worker
  <2> DEFINE moved == [wk[w] EXCEPT !.at = "check", !.step = @ + 1]
  <2>2. moved \in Worker /\ moved.at # "idle" /\ moved.job = wk[w].job /\ moved.turns = wk[w].turns
    BY PlaceNames, <2>1 DEF Worker
  <2>3. wk' = [wk EXCEPT ![w] = moved] /\ wk[w].at # "idle"
    BY <1>6 DEF Tool
  <2> HIDE DEF moved
  <2> QED BY <1>6, <2>2, <2>3 DEF Tool, JobsTyped, Calm, StatusCalm, WorkersCalm
<1>7. CASE Seal(w)
  <2>1. CASE wk' = [wk EXCEPT ![w].at = "commit", ![w].gen = gen] /\ UNCHANGED status
    <3>1. wk[w] \in Worker /\ gen \in Nat
      BY DEF JobsTyped
    <3> DEFINE moved == [wk[w] EXCEPT !.at = "commit", !.gen = gen]
    <3>2. moved \in Worker /\ moved.at # "idle" /\ moved.job = wk[w].job /\ moved.turns = wk[w].turns
      BY PlaceNames, <3>1 DEF Worker
    <3>3. wk' = [wk EXCEPT ![w] = moved] /\ wk[w].at # "idle"
      BY <1>7, <2>1 DEF Seal
    <3> HIDE DEF moved
    <3> QED BY <1>7, <2>1, <3>2, <3>3 DEF Seal, JobsTyped, Calm, StatusCalm, WorkersCalm
  <2> QED BY PlaceNames, <1>7, <2>1, GiveUpCalm DEF Seal
<1> QED BY <1>1, <1>2, <1>3, <1>4, <1>5, <1>6, <1>7 DEF Converse

-----------------------------------------------------------------------------
(* The invariant of the jobs.                                              *)

InSession(s) == {u \in Tasks : SessionOf[u] = s}
Holds(w, t) == wk[w].at \notin {"idle", "leaving"} /\ wk[w].job = t

\* One task of a session runs or waits for an approval, and no two workers hold the
\* same task; what a worker holds was claimed.  A worker that is leaving its
\* conversation no longer holds the task, which may have been approved and queued.
Exclusive ==
  /\ \A t, u \in Tasks :
       SessionOf[t] = SessionOf[u] /\ {status[t], status[u]} \subseteq {"running", "awaiting"} => t = u
  /\ \A v, w \in Workers, t \in Tasks : Holds(v, t) /\ Holds(w, t) => v = w
  /\ \A w \in Workers : IF wk[w].at = "idle" THEN wk[w].job = 0 ELSE wk[w].job \in Tasks
  /\ \A w \in Workers, t \in Tasks : Holds(w, t) => status[t] \in {"running"} \cup Finished

\* Contexts and turns are made of messages of their session, none of them deleted
\* as long as something may still be made from them.
Clean ==
  /\ \A s \in Sessions : context[s] \subseteq InSession(s) /\ context[s] \cap deleted = {}
  /\ \A w \in Workers, t \in Tasks : Holds(w, t) => wk[w].turns \subseteq InSession(SessionOf[t])
  /\ \A w \in Workers, t \in Tasks : Holds(w, t) /\ status[t] = "running" => wk[w].turns \cap deleted = {}
  /\ \A t \in deleted : status[t] \in Finished

\* A task is answered once, and it succeeded then.
Once == \A t \in Tasks : answers[t] # << >> => status[t] = "succeeded"

Safe == Exclusive /\ Clean /\ Once

\* Calm steps keep the jobs safe.
LEMMA CalmSafe ==
  ASSUME JobsTyped, Safe, JobsTyped', Calm
  PROVE  Safe'
<1>1. \A u \in Tasks : status'[u] = status[u] \/ (status[u] \in Live /\ status'[u] \in Finished)
  BY DEF Calm, StatusCalm
<1>2. ASSUME NEW v \in Workers, wk'[v].at # "idle"
      PROVE  /\ wk[v].at # "idle" /\ wk'[v].job = wk[v].job /\ wk'[v].turns = wk[v].turns
             /\ wk[v].at = "leaving" => wk'[v].at = "leaving"
  BY <1>2 DEF Calm, WorkersCalm, Idle
<1>3. \A v \in Workers, t \in Tasks : Holds(v, t)' => Holds(v, t) /\ wk'[v].turns = wk[v].turns
  BY <1>2 DEF Holds
<1>4. Exclusive'
  <2>1. \A v \in Workers : IF wk'[v].at = "idle" THEN wk'[v].job = 0 ELSE wk'[v].job \in Tasks
    BY <1>2, TaskFacts DEF Calm, WorkersCalm, Safe, Exclusive, Idle
  <2> QED BY <1>1, <1>3, <2>1, PlaceNames DEF Safe, Exclusive
<1>5. Clean'
  <2>1. context' = context /\ deleted' = deleted /\ deleted \subseteq Tasks
    BY DEF Calm, JobsTyped
  <2>2. \A s \in Sessions : context'[s] \subseteq InSession(s) /\ context'[s] \cap deleted' = {}
    BY <2>1 DEF Safe, Clean
  <2>3. \A w \in Workers, t \in Tasks : Holds(w, t)' => wk'[w].turns \subseteq InSession(SessionOf[t])
    BY <1>3 DEF Safe, Clean
  <2>4. \A w \in Workers, t \in Tasks :
          Holds(w, t)' /\ status'[t] = "running" => wk'[w].turns \cap deleted' = {}
    BY <1>1, <1>3, <2>1, PlaceNames DEF Safe, Clean
  <2>5. \A t \in deleted' : status'[t] \in Finished
    BY <1>1, <2>1 DEF Safe, Clean
  <2> QED BY <2>2, <2>3, <2>4, <2>5 DEF Clean, InSession
<1>6. Once'
  BY <1>1, PlaceNames DEF Safe, Once, Calm
<1> QED BY <1>4, <1>5, <1>6 DEF Safe

-----------------------------------------------------------------------------
(* The other calm steps.                                                   *)

\* Cancellations, members, the barrier, the epoch, and what members read.
AsideSteps ==
  \/ \E t \in Tasks : CancelJob(t) \/ CancelNamedTask(t) \/ DropChunk(t) \/ ReadProgress(t)
  \/ \E s \in Sessions : CreateParticipant(s) \/ CreateNamedAgent(s) \/ AttachNamedAgent(s)
  \/ \E s \in Sessions : Exclude(s) \/ Readmit(s)
  \/ SubmitCommit \/ ConfirmCommit

\* Steps beside the workers are calm.
LEMMA AsideStepsCalm ==
  ASSUME JobsTyped, AsideSteps
  PROVE  JobsTyped' /\ Calm
<1> USE DEF jobVars, aclVars, outVars
<1>1. ASSUME NEW t \in Tasks, Cancelled(t) PROVE JobsTyped' /\ Calm
  <2>1. status' = [status EXCEPT ![t] = "cancelled"] /\ status[t] \in Live
    BY <1>1 DEF Cancelled
  <2>2. status' \in [Tasks -> Statuses] /\ StatusCalm
    BY <2>1, PlaceNames DEF JobsTyped, StatusCalm, Statuses
  <2> QED BY <1>1, <2>2, AsideCalm DEF Cancelled, Kept, Numbers
<1>2. ASSUME NEW t \in Tasks, DropChunk(t) \/ ReadProgress(t) PROVE JobsTyped' /\ Calm
  BY <1>2, AsideCalm DEF DropChunk, ReadProgress, Kept, Numbers, StatusCalm, JobsTyped
<1>3. ASSUME NEW s \in Sessions, CreateParticipant(s) \/ CreateNamedAgent(s) \/ AttachNamedAgent(s)
      PROVE  JobsTyped' /\ Calm
  BY <1>3, AsideCalm DEF CreateParticipant, CreateNamedAgent, AttachNamedAgent, Kept, Numbers,
     StatusCalm, JobsTyped
<1>4. ASSUME NEW s \in Sessions, Exclude(s) \/ Readmit(s) PROVE JobsTyped' /\ Calm
  BY <1>4, AsideCalm DEF Exclude, Readmit, Kept, Numbers, StatusCalm, JobsTyped
<1>5. CASE SubmitCommit
  BY <1>5, AsideCalm DEF SubmitCommit, Kept, Numbers, StatusCalm, JobsTyped
<1>6. CASE ConfirmCommit
  BY <1>6, AsideCalm DEF ConfirmCommit, Kept, Numbers, StatusCalm, JobsTyped
<1> QED BY <1>1, <1>2, <1>3, <1>4, <1>5, <1>6 DEF AsideSteps, CancelJob, CancelNamedTask

\* The completions that publish nothing.
NotAnswered(w) ==
  /\ Complete(w) \/ CompleteNamed(w)
  /\ ~Answered(w)

\* Completions without an answer are calm.
LEMMA NotAnsweredCalm ==
  ASSUME JobsTyped, Safe, NEW w \in Workers, NotAnswered(w)
  PROVE  JobsTyped' /\ Calm
<1>1. /\ Rest(w) /\ wk[w].at = "commit"
      /\ UNCHANGED <<kind, context, version, agents, aclVars, outVars>>
  BY DEF NotAnswered, Complete, CompleteNamed, At
<1>2. wk[w].job \in Tasks
  BY <1>1 DEF Safe, Exclusive
<1>3. \/ UNCHANGED status \/ SetStatus(wk[w].job, "uncertain")
      \/ status[wk[w].job] = "running" /\ status' = [status EXCEPT ![wk[w].job] = "failed"]
  BY DEF NotAnswered, Complete, CompleteNamed
<1>4. status' \in [Tasks -> Statuses] /\ StatusCalm
  <2>1. CASE SetStatus(wk[w].job, "uncertain")
    BY <2>1, SetStatusTyped, PlaceNames DEF JobsTyped, StatusCalm
  <2> QED BY <1>2, <1>3, <2>1, PlaceNames DEF JobsTyped, StatusCalm, Statuses
<1>5. wk' \in [Workers -> Worker] /\ wk'[w] = Idle /\ \A v \in Workers : v # w => wk'[v] = wk[v]
  BY <1>1, RestTyped DEF JobsTyped
<1> QED BY <1>1, <1>4, <1>5 DEF JobsTyped, Calm, WorkersCalm, Numbers, aclVars, outVars

\* A restart, which drops what ran, is calm.
LEMMA RestartCalm ==
  ASSUME JobsTyped, Restart
  PROVE  JobsTyped' /\ Calm
<1>1. wk' \in [Workers -> Worker] /\ \A v \in Workers : wk'[v] = Idle
  BY TaskFacts DEF Restart
<1>2. status' \in [Tasks -> Statuses] /\ StatusCalm
  BY PlaceNames DEF Restart, Recovered, JobsTyped, StatusCalm, Statuses
<1> QED BY <1>1, <1>2 DEF Restart, JobsTyped, Calm, WorkersCalm, Numbers, aclVars, outVars

-----------------------------------------------------------------------------
(* The steps that are not calm.                                            *)

\* A message queues its task: nobody holds it yet.
LEMMA QueueSafe ==
  ASSUME JobsTyped, Safe, NEW t \in Tasks, Queue(t)
  PROVE  JobsTyped' /\ Safe' /\ UNCHANGED answers
<1>1. /\ status[t] = "none" /\ status' = [status EXCEPT ![t] = "queued"]
      /\ UNCHANGED <<kind, context, version, aclVars, outVars, wk>>
  BY DEF Queue
<1>2. JobsTyped'
  BY <1>1 DEF JobsTyped, Numbers, Statuses, Live, aclVars, outVars
<1>3. \A u \in Tasks : status'[u] = IF u = t THEN "queued" ELSE status[u]
  BY <1>1 DEF JobsTyped
<1>4. Exclusive'
  BY <1>1, <1>3, PlaceNames DEF Safe, Exclusive, Holds
<1>5. Clean'
  BY <1>1, <1>3, PlaceNames DEF Safe, Clean, Holds, InSession, aclVars
<1>6. Once'
  BY <1>1, <1>3 DEF Safe, Once, outVars
<1> QED BY <1>1, <1>2, <1>4, <1>5, <1>6 DEF Safe, outVars

\* A worker takes a queued task of a session in which nothing runs.
Claimed(w, t, row) ==
  /\ status[t] = "queued" /\ Free(t) /\ wk[w].at = "idle"
  /\ status' = [status EXCEPT ![t] = "running"]
  /\ wk' = [wk EXCEPT ![w] = row]
  /\ row \in Worker /\ row.at \notin {"idle", "leaving"} /\ row.job = t
  /\ row.turns \subseteq InSession(SessionOf[t]) /\ row.turns \cap deleted = {}
  /\ UNCHANGED <<kind, context, version, aclVars, outVars>>

\* A claim of a task whose session is free keeps the jobs safe.
LEMMA ClaimedSafe ==
  ASSUME JobsTyped, Safe, NEW w \in Workers, NEW t \in Tasks, NEW row, Claimed(w, t, row)
  PROVE  JobsTyped' /\ Safe' /\ UNCHANGED answers
<1>1. JobsTyped'
  BY DEF Claimed, JobsTyped, Numbers, Statuses, Live, aclVars, outVars
<1>2. \A u \in Tasks : status'[u] = IF u = t THEN "running" ELSE status[u]
  BY DEF Claimed, JobsTyped
<1>3. \A v \in Workers : wk'[v] = IF v = w THEN row ELSE wk[v]
  BY DEF Claimed, JobsTyped
<1>4. \A u \in Tasks : SessionOf[u] = SessionOf[t] => status[u] \notin {"running", "awaiting"}
  BY PlaceNames DEF Claimed, Free, Waiting
<1>5. \A v \in Workers : ~Holds(v, t)
  BY PlaceNames DEF Safe, Exclusive, Claimed
<1>6. \A v \in Workers, u \in Tasks : Holds(v, u)' <=> IF v = w THEN u = t ELSE Holds(v, u)
  BY <1>3 DEF Holds, Claimed
<1>7. Exclusive'
  <2>1. \A a, b \in Tasks : SessionOf[a] = SessionOf[b]
          /\ {status'[a], status'[b]} \subseteq {"running", "awaiting"} => a = b
    BY <1>2, <1>4 DEF Safe, Exclusive
  <2>2. \A v, x \in Workers, u \in Tasks : Holds(v, u)' /\ Holds(x, u)' => v = x
    BY <1>2, <1>5, <1>6 DEF Safe, Exclusive
  <2>3. \A v \in Workers : IF wk'[v].at = "idle" THEN wk'[v].job = 0 ELSE wk'[v].job \in Tasks
    BY <1>3 DEF Safe, Exclusive, Claimed
  <2>4. \A v \in Workers, u \in Tasks : Holds(v, u)' => status'[u] \in {"running"} \cup Finished
    BY <1>2, <1>5, <1>6 DEF Safe, Exclusive
  <2> QED BY <2>1, <2>2, <2>3, <2>4 DEF Exclusive
<1>8. Clean'
  <2>1. context' = context /\ deleted' = deleted /\ deleted \subseteq Tasks
    BY DEF Claimed, aclVars, JobsTyped
  <2>2. \A s \in Sessions : context'[s] \subseteq InSession(s) /\ context'[s] \cap deleted' = {}
    BY <2>1 DEF Safe, Clean
  <2>3. \A v \in Workers, u \in Tasks : Holds(v, u)' => wk'[v].turns \subseteq InSession(SessionOf[u])
    BY <1>3, <1>6 DEF Safe, Clean, Claimed
  <2>4. \A v \in Workers, u \in Tasks :
          Holds(v, u)' /\ status'[u] = "running" => wk'[v].turns \cap deleted' = {}
    BY <1>2, <1>3, <1>5, <1>6, <2>1 DEF Safe, Clean, Claimed
  <2>5. \A u \in deleted' : status'[u] \in Finished
    BY <1>2, <2>1, PlaceNames DEF Safe, Clean, Claimed
  <2> QED BY <2>2, <2>3, <2>4, <2>5 DEF Clean, InSession
<1>9. Once'
  BY <1>2 DEF Safe, Once, Claimed, outVars
<1> QED BY <1>1, <1>7, <1>8, <1>9 DEF Safe, Claimed, outVars

\* aiNextWith, for turns that may be used: they claim the job or fail it.
LEMMA ClaimJobSafe ==
  ASSUME JobsTyped, Safe, NEW w \in Workers, NEW t \in Tasks, NEW turns,
         ClaimJob(w, t, turns), status[t] = "queued", Free(t),
         turns \subseteq InSession(SessionOf[t]), turns \cap deleted = {}
  PROVE  JobsTyped' /\ Safe' /\ UNCHANGED answers
<1>1. CASE SetStatus(t, "failed") /\ UNCHANGED wk
  <2>1. status' \in [Tasks -> Statuses] /\ StatusCalm
    BY <1>1, SetStatusTyped, PlaceNames DEF JobsTyped, StatusCalm
  <2>2. JobsTyped' /\ Calm
    BY <1>1, <2>1, AsideCalm DEF ClaimJob, Kept, Numbers, aclVars, outVars
  <2> QED BY <2>2, CalmSafe DEF Calm
<1>2. CASE ~(SetStatus(t, "failed") /\ UNCHANGED wk)
  <2> DEFINE row == [Idle EXCEPT !.at = "ready", !.job = t, !.epoch = epoch, !.turns = turns]
  <2>1. turns \subseteq Tasks /\ epoch \in Nat
    BY DEF InSession, JobsTyped, Numbers
  <2>2. row \in Worker /\ row.at = "ready" /\ row.job = t /\ row.turns = turns
    BY <2>1, PlaceNames DEF Idle, Worker
  <2>3. status' = [status EXCEPT ![t] = "running"] /\ wk' = [wk EXCEPT ![w] = row]
    BY <1>2 DEF ClaimJob
  <2>4. Claimed(w, t, row)
    BY <2>2, <2>3 DEF ClaimJob, Claimed, At
  <2> QED BY <2>4, ClaimedSafe
<1> QED BY <1>1, <1>2

\* The turns of a new conversation.
LEMMA NewTurns ==
  ASSUME JobsTyped, Safe, NEW t \in Tasks, status[t] \notin Finished
  PROVE  /\ context[SessionOf[t]] \cup {t} \subseteq InSession(SessionOf[t])
         /\ (context[SessionOf[t]] \cup {t}) \cap deleted = {}
         /\ context[SessionOf[t]] \cup {t} \subseteq Tasks
<1>1. SessionOf[t] \in Sessions
  BY TaskFacts
<1>2. t \notin deleted
  BY DEF Safe, Clean
<1>3. context[SessionOf[t]] \subseteq InSession(SessionOf[t]) /\ context[SessionOf[t]] \cap deleted = {}
  BY <1>1 DEF Safe, Clean
<1> QED BY <1>2, <1>3 DEF InSession

\* Claiming a participant's task does.
LEMMA ClaimDirectSafe ==
  ASSUME JobsTyped, Safe, NEW w \in Workers, ClaimDirect(w)
  PROVE  JobsTyped' /\ Safe' /\ UNCHANGED answers
<1>1. PICK t \in NextJobs : ClaimJob(w, t, context[SessionOf[t]] \cup {t})
  BY DEF ClaimDirect
<1>2. t \in Tasks /\ status[t] = "queued" /\ Free(t)
  BY DEF NextJobs, First
<1> QED BY <1>1, <1>2, NewTurns, ClaimJobSafe, PlaceNames

\* Claiming a named agent's task does.
LEMMA ClaimNamedSafe ==
  ASSUME JobsTyped, Safe, NEW w \in Workers, ClaimNamed(w)
  PROVE  JobsTyped' /\ Safe' /\ UNCHANGED answers
<1>1. PICK t \in Tasks :
        /\ status[t] = "queued" /\ Free(t)
        /\ status' = [status EXCEPT ![t] = "running"]
        /\ wk' = [wk EXCEPT ![w] = [Idle EXCEPT !.at = "claimed", !.job = t]]
  BY DEF ClaimNamed, First
<1> DEFINE row == [Idle EXCEPT !.at = "claimed", !.job = t]
<1>2. row \in Worker /\ row.at = "claimed" /\ row.job = t /\ row.turns = {}
  BY PlaceNames DEF Idle, Worker
<1>3. wk' = [wk EXCEPT ![w] = row]
  BY <1>1
<1> HIDE DEF row
<1>4. Claimed(w, t, row)
  BY <1>1, <1>2, <1>3 DEF ClaimNamed, Claimed, At
<1> QED BY <1>4, ClaimedSafe

\* The turns are read after the claim, in a transaction of their own.
LEMMA PrepareSafe ==
  ASSUME JobsTyped, Safe, NEW w \in Workers, Prepare(w)
  PROVE  JobsTyped' /\ Safe' /\ UNCHANGED answers
<1> DEFINE t == wk[w].job
           row == [wk[w] EXCEPT !.at = "ready", !.ver = version[SessionOf[t]], !.epoch = epoch,
                                !.turns = context[SessionOf[t]] \cup {t}]
<1>1. CASE GiveUp(w, "failed") \/ StoreFails(w)
  <2>1. JobsTyped' /\ Calm
    BY <1>1, GiveUpCalm, PlaceNames DEF Prepare, Kept, Numbers, aclVars, outVars
  <2> QED BY <2>1, CalmSafe DEF Calm
<1>2. CASE /\ status[t] = "running" /\ wk' = [wk EXCEPT ![w] = row] /\ UNCHANGED status
  <2>1. wk[w].at = "claimed" /\ UNCHANGED <<kind, context, version, aclVars, outVars>>
    BY DEF Prepare, At
  <2>2. t \in Tasks /\ SessionOf[t] \in Sessions
    BY <2>1, TaskFacts DEF Safe, Exclusive
  <2>3. /\ context[SessionOf[t]] \cup {t} \subseteq InSession(SessionOf[t])
        /\ (context[SessionOf[t]] \cup {t}) \cap deleted = {}
        /\ context[SessionOf[t]] \cup {t} \subseteq Tasks
    BY <1>2, <2>2, NewTurns, PlaceNames
  <2>4. wk[w] \in Worker /\ version[SessionOf[t]] \in Nat /\ epoch \in Nat
    BY <2>2 DEF JobsTyped, Numbers
  <2>5. row \in Worker /\ row.at = "ready" /\ row.job = t /\ row.turns = context[SessionOf[t]] \cup {t}
    BY <2>3, <2>4, PlaceNames DEF Worker
  <2> HIDE DEF row
  <2>6. JobsTyped'
    BY <1>2, <2>1, <2>5 DEF JobsTyped, Numbers, aclVars, outVars
  <2>7. \A v \in Workers : wk'[v] = IF v = w THEN row ELSE wk[v]
    BY <1>2 DEF JobsTyped
  <2>8. \A v \in Workers, u \in Tasks : Holds(v, u)' <=> Holds(v, u)
    BY <2>1, <2>5, <2>7 DEF Holds
  <2>9. Exclusive'
    BY <1>2, <2>2, <2>5, <2>7, <2>8 DEF Safe, Exclusive
  <2>10. context' = context /\ deleted' = deleted /\ status' = status
    BY <1>2, <2>1 DEF aclVars
  <2>11. \A v \in Workers, u \in Tasks : Holds(v, u) =>
           /\ wk'[v].turns \subseteq InSession(SessionOf[u])
           /\ status[u] = "running" => wk'[v].turns \cap deleted = {}
    <3>1. \A u \in Tasks : Holds(w, u) => u = t
      BY DEF Holds
    <3> QED BY <2>3, <2>5, <2>7, <3>1 DEF Safe, Clean
  <2>12. Clean'
    BY <2>8, <2>10, <2>11 DEF Safe, Clean, InSession
  <2>13. Once'
    BY <2>1, <2>10 DEF Safe, Once, outVars
  <2> QED BY <2>1, <2>6, <2>9, <2>12, <2>13 DEF Safe, outVars
<1> QED BY <1>1, <1>2 DEF Prepare

\* What NoLateAnswer says of a step.
AnswersInTime == \A t \in Tasks : answers'[t] # answers[t] =>
  /\ status[t] = "running" /\ Len(answers[t]) = 0
  /\ answers'[t][1].turns \cap deleted = {}

\* The answer, the context and the status commit together.
LEMMA AnsweredSafe ==
  ASSUME JobsTyped, Safe, NEW w \in Workers, Answered(w), gen' \in Nat
  PROVE  JobsTyped' /\ Safe' /\ AnswersInTime
<1> DEFINE t == wk[w].job
           answer == [seal |-> <<wk[w].epoch, wk[w].gen>>, turns |-> wk[w].turns]
<1>1. /\ wk[w].at = "commit" /\ status[t] = "running"
      /\ answers' = [answers EXCEPT ![t] = Append(answers[t], answer)]
      /\ context' = [context EXCEPT ![SessionOf[t]] = wk[w].turns]
      /\ status' = [status EXCEPT ![t] = "succeeded"] /\ Rest(w)
      /\ UNCHANGED <<kind, version, aclVars>>
  BY DEF Answered, At
<1>2. t \in Tasks /\ SessionOf[t] \in Sessions /\ Holds(w, t)
  BY <1>1, TaskFacts DEF Safe, Exclusive, Holds
<1>3. wk[w] \in Worker
  BY DEF JobsTyped
<1>4. answer \in Answer /\ answer.turns = wk[w].turns
  BY <1>3 DEF Worker, Answer
<1> HIDE DEF answer
<1>5. answers[t] = << >>
  BY <1>1, <1>2 DEF Safe, Once
<1>6. wk[w].turns \subseteq InSession(SessionOf[t]) /\ wk[w].turns \cap deleted = {}
  BY <1>1, <1>2 DEF Safe, Clean
<1>7. wk' \in [Workers -> Worker] /\ wk'[w] = Idle /\ \A v \in Workers : v # w => wk'[v] = wk[v]
  BY <1>1, RestTyped DEF JobsTyped
<1>8. JobsTyped'
  <2>1. Append(answers[t], answer) \in Seq(Answer)
    BY <1>2, <1>4 DEF JobsTyped
  <2>2. answers' \in [Tasks -> Seq(Answer)]
    BY <1>1, <2>1 DEF JobsTyped
  <2>3. context' \in [Sessions -> SUBSET Tasks]
    BY <1>1, <1>6 DEF JobsTyped, InSession
  <2>4. status' \in [Tasks -> Statuses]
    BY <1>1, PlaceNames DEF JobsTyped, Statuses
  <2> QED BY <1>1, <1>7, <2>2, <2>3, <2>4 DEF JobsTyped, Numbers, aclVars
<1>9. \A u \in Tasks : status'[u] = IF u = t THEN "succeeded" ELSE status[u]
  BY <1>1 DEF JobsTyped
<1>10. \A v \in Workers, u \in Tasks : Holds(v, u)' => v # w /\ Holds(v, u) /\ wk'[v] = wk[v]
  BY <1>7 DEF Holds, Idle
<1>11. Exclusive'
  <2>1. \A v \in Workers : IF wk'[v].at = "idle" THEN wk'[v].job = 0 ELSE wk'[v].job \in Tasks
    BY <1>7 DEF Safe, Exclusive, Idle
  <2> QED BY <1>9, <1>10, <2>1, PlaceNames DEF Safe, Exclusive
<1>12. Clean'
  <2>1. deleted' = deleted /\ deleted \subseteq Tasks
    BY <1>1 DEF JobsTyped, aclVars
  <2>2. \A s \in Sessions : context'[s] = IF s = SessionOf[t] THEN wk[w].turns ELSE context[s]
    BY <1>1 DEF JobsTyped
  <2>3. \A s \in Sessions : context'[s] \subseteq InSession(s) /\ context'[s] \cap deleted' = {}
    BY <1>6, <2>1, <2>2 DEF Safe, Clean
  <2>4. \A v \in Workers, u \in Tasks : Holds(v, u)' => wk'[v].turns \subseteq InSession(SessionOf[u])
    BY <1>10 DEF Safe, Clean
  <2>5. \A v \in Workers, u \in Tasks :
          Holds(v, u)' /\ status'[u] = "running" => wk'[v].turns \cap deleted' = {}
    BY <1>9, <1>10, <2>1 DEF Safe, Clean
  <2>6. \A u \in deleted' : status'[u] \in Finished
    BY <1>9, <2>1, PlaceNames DEF Safe, Clean
  <2> QED BY <2>3, <2>4, <2>5, <2>6 DEF Clean, InSession
<1>13. \A u \in Tasks : u # t => answers'[u] = answers[u]
  BY <1>1 DEF JobsTyped
<1>14. Once'
  BY <1>9, <1>13 DEF Safe, Once
<1>15. AnswersInTime
  <2>1. answers'[t] = << answer >>
    BY <1>1, <1>2, <1>5 DEF JobsTyped
  <2> QED BY <1>1, <1>4, <1>5, <1>6, <1>13, <2>1 DEF AnswersInTime
<1> QED BY <1>8, <1>11, <1>12, <1>14, <1>15 DEF Safe

\* An answer is stored for a running task, from messages that exist.
LEMMA CompletionSafe ==
  ASSUME JobsTyped, Safe, NEW w \in Workers, Complete(w) \/ CompleteNamed(w)
  PROVE  JobsTyped' /\ Safe' /\ AnswersInTime
<1>1. CASE Answered(w)
  <2>1. wk[w].gen + 1 \in Nat /\ gen \in Nat
    BY DEF JobsTyped, Worker, Numbers
  <2>2. gen' \in Nat
    BY <1>1, <2>1 DEF Complete, CompleteNamed, outVars
  <2> QED BY <1>1, <2>2, AnsweredSafe
<1>2. CASE ~Answered(w)
  <2>1. JobsTyped' /\ Calm
    BY <1>2, NotAnsweredCalm DEF NotAnswered
  <2> QED BY <2>1, CalmSafe DEF Calm, AnswersInTime
<1> QED BY <1>1, <1>2

\* A deletion empties the contexts of the chat and finishes its tasks.
LEMMA DeleteSafe ==
  ASSUME JobsTyped, Safe, NEW d \in Tasks, Delete(d)
  PROVE  JobsTyped' /\ Safe' /\ UNCHANGED answers
<1>1. PICK new \in Finished : Deleted(d, new)
  BY PlaceNames DEF Delete, DeleteDirect, DeleteNamed
<1>2. /\ status[d] # "none" /\ deleted' = deleted \cup {d}
      /\ UNCHANGED <<kind, epoch, gen, answers, wk>>
  BY <1>1 DEF Deleted
<1>3. version' \in [Sessions -> Nat]
  BY DEF Delete, DeleteDirect, DeleteNamed, JobsTyped, Numbers
<1>4. \A s \in Sessions : context'[s] = IF s \in ChatOf(d) THEN {} ELSE context[s]
  BY <1>1 DEF Deleted, Forget
<1>5. \A t \in Tasks : status'[t] =
        IF SessionOf[t] \in ChatOf(d) /\ status[t] \in Live THEN new ELSE status[t]
  BY <1>1 DEF Deleted, StopAll
<1>6. SessionOf[d] \in ChatOf(d) /\ ChatOf(d) \subseteq Sessions
  BY TaskFacts DEF ChatOf
<1>7. JobsTyped'
  <2>1. context' \in [Sessions -> SUBSET Tasks]
    BY <1>1, <1>4 DEF Deleted, Forget, JobsTyped
  <2>2. status' \in [Tasks -> Statuses]
    BY <1>1, PlaceNames DEF Deleted, StopAll, JobsTyped, Statuses
  <2> QED BY <1>2, <1>3, <2>1, <2>2 DEF JobsTyped, Numbers
<1>8. \A v \in Workers, u \in Tasks : Holds(v, u)' <=> Holds(v, u)
  BY <1>2 DEF Holds
<1>9. \A u \in Tasks : status'[u] = status[u] \/ status'[u] \in Finished
  BY <1>5
<1>10. Exclusive'
  BY <1>2, <1>8, <1>9, PlaceNames DEF Safe, Exclusive
<1>11. Clean'
  <2>1. \A s \in Sessions : context'[s] \subseteq InSession(s)
    BY <1>4 DEF Safe, Clean
  <2>2. \A s \in Sessions : context'[s] \cap deleted' = {}
    <3>1. \A s \in Sessions : s \notin ChatOf(d) => d \notin context[s]
      BY <1>6 DEF Safe, Clean, InSession
    <3> QED BY <1>2, <1>4, <3>1 DEF Safe, Clean
  <2>3. \A v \in Workers, u \in Tasks : Holds(v, u)' => wk'[v].turns \subseteq InSession(SessionOf[u])
    BY <1>2, <1>8 DEF Safe, Clean
  <2>4. ASSUME NEW v \in Workers, NEW u \in Tasks, Holds(v, u)', status'[u] = "running"
        PROVE  wk'[v].turns \cap deleted' = {}
    <3>1. status[u] = "running" /\ Holds(v, u) /\ wk'[v] = wk[v]
      BY <1>2, <1>8, <1>9, <2>4, PlaceNames
    <3>2. wk[v].turns \cap deleted = {} /\ wk[v].turns \subseteq InSession(SessionOf[u])
      BY <3>1 DEF Safe, Clean
    <3>3. SessionOf[u] \notin ChatOf(d)
      BY <1>1, <1>5, <2>4, <3>1, PlaceNames
    <3>4. d \notin wk[v].turns
      BY <1>6, <3>2, <3>3 DEF InSession
    <3> QED BY <1>2, <3>1, <3>2, <3>4
  <2>5. \A u \in deleted' : status'[u] \in Finished
    <3>1. status[d] \in Live \cup Finished
      BY <1>2 DEF JobsTyped, Statuses
    <3>2. status'[d] \in Finished
      BY <1>5, <1>6, <3>1
    <3>3. \A u \in deleted : status[u] \in Finished /\ u \in Tasks
      BY DEF Safe, Clean, JobsTyped
    <3> QED BY <1>2, <1>9, <3>2, <3>3
  <2> QED BY <2>1, <2>2, <2>3, <2>4, <2>5 DEF Clean, InSession
<1>12. Once'
  BY <1>2, <1>5, PlaceNames DEF Safe, Once
<1> QED BY <1>2, <1>7, <1>10, <1>11, <1>12 DEF Safe

-----------------------------------------------------------------------------
(* Jobs without the policy module.                                         *)

\* Changes of members, and of the messages of others, keep the jobs safe.
LEMMA OthersSafe ==
  ASSUME JobsTyped, Safe, Others
  PROVE  JobsTyped' /\ Safe' /\ AnswersInTime
<1>1. CASE AsideSteps
  BY <1>1, AsideStepsCalm, CalmSafe DEF Calm, AnswersInTime
<1>2. CASE \E t \in Tasks : Queue(t)
  BY <1>2, QueueSafe DEF AnswersInTime
<1> QED BY <1>1, <1>2 DEF Others, AsideSteps, QueueDirect, QueueNamed

\* So does all that a worker does.
LEMMA LifeSafe ==
  ASSUME JobsTyped, Safe, NEW w \in Workers, LifeOf(w) \/ Converse(w)
  PROVE  JobsTyped' /\ Safe' /\ AnswersInTime
<1>1. CASE ClaimNamed(w)
  BY <1>1, ClaimNamedSafe DEF AnswersInTime
<1>2. CASE Prepare(w)
  BY <1>2, PrepareSafe DEF AnswersInTime
<1>3. CASE Start(w) \/ Seal(w) \/ Converse(w)
  BY <1>3, ConversationCalm, CalmSafe DEF Calm, AnswersInTime
<1>4. CASE Complete(w) \/ CompleteNamed(w)
  BY <1>4, CompletionSafe
<1> QED BY <1>1, <1>2, <1>3, <1>4 DEF LifeOf

\* The jobs are safe initially.
LEMMA InitSafe ==
  ASSUME Init
  PROVE  JobsTyped /\ Safe
<1>1. JobsTyped
  BY TaskFacts DEF Init, JobsTyped, Numbers, Statuses
<1>2. \A w \in Workers, t \in Tasks : ~Holds(w, t)
  BY DEF Init, Holds, Idle
<1>3. Exclusive
  BY <1>2 DEF Init, Exclusive, Idle
<1>4. Clean /\ Once
  BY <1>2 DEF Init, Clean, Once
<1> QED BY <1>1, <1>3, <1>4 DEF Safe

\* They are when nothing happens.
LEMMA StutterSafe ==
  ASSUME JobsTyped, Safe, UNCHANGED vars
  PROVE  JobsTyped' /\ Safe' /\ AnswersInTime
<1>1. JobsTyped' /\ Calm
  BY DEF vars, jobVars, aclVars, outVars, JobsTyped, Numbers, Calm, StatusCalm, WorkersCalm
<1> QED BY <1>1, CalmSafe DEF Calm, AnswersInTime

\* Every step keeps them safe, and answers in time.
LEMMA NextSafe ==
  ASSUME JobsTyped, Safe, [Next]_vars
  PROVE  JobsTyped' /\ Safe' /\ AnswersInTime
<1>1. CASE \E w \in Workers : ClaimDirect(w)
  BY <1>1, ClaimDirectSafe DEF AnswersInTime
<1>2. CASE \E w \in Workers : LifeOf(w) \/ Converse(w)
  BY <1>2, LifeSafe
<1>3. CASE Others
  BY <1>3, OthersSafe
<1>4. CASE \E t \in Tasks : Delete(t)
  BY <1>4, DeleteSafe DEF AnswersInTime
<1>5. CASE Restart
  BY <1>5, RestartCalm, CalmSafe DEF Calm, AnswersInTime
<1>6. CASE UNCHANGED vars
  BY <1>6, StutterSafe
<1> QED BY <1>1, <1>2, <1>3, <1>4, <1>5, <1>6 DEF Next

\* The invariant of the jobs: every job, worker, context and answer keeps it.
THEOREM SafeHolds == Spec => [](JobsTyped /\ Safe)
<1>1. Init => JobsTyped /\ Safe
  BY InitSafe
<1>2. JobsTyped /\ Safe /\ [Next]_vars => (JobsTyped /\ Safe)'
  BY NextSafe
<1> QED BY <1>1, <1>2, PTL DEF Spec

-----------------------------------------------------------------------------
(* The map of conversations.                                               *)

\* The map has the tasks of the workers that converse, and no task is in the hands
\* of two workers, one that leaves its conversation included.
Mapped ==
  /\ active \subseteq Tasks
  /\ \A t \in Tasks : t \in active <=> \E w \in Workers : Conversing(w) /\ wk[w].job = t
  /\ \A v, w \in Workers :
       wk[v].at # "idle" /\ wk[w].at # "idle" /\ wk[v].job = wk[w].job => v = w

\* A worker keeps its task: it enters the conversation, goes on, or returns from it.
Keeps(w) ==
  /\ wk[w].at # "idle" /\ wk'[w].at # "idle" /\ wk'[w].job = wk[w].job
  /\ \/ wk[w].at \in Silent /\ wk'[w].at \in Silent /\ UNCHANGED active
     \/ wk[w].at \notin Silent /\ wk'[w].at \notin Silent /\ UNCHANGED active
     \/ wk'[w].at \notin Silent /\ active' = active \cup {wk[w].job}
     \/ wk[w].at \notin Silent /\ wk'[w].at \in Silent /\ active' = active \ {wk[w].job}

LetsGo(w) ==
  /\ wk[w].at # "idle" /\ wk'[w] = Idle
  /\ active' = IF wk[w].at \in Silent THEN active ELSE active \ {wk[w].job}

Takes(w) ==
  /\ wk[w].at = "idle" /\ wk'[w].at \in Silent \ {"idle"} /\ UNCHANGED active
  /\ wk'[w].job \in Tasks \ active /\ status[wk'[w].job] = "queued"

Tidy ==
  \/ UNCHANGED <<wk, active>>
  \/ active' = {} /\ \A v \in Workers : wk'[v] = Idle
  \/ \E w \in Workers :
       /\ \A v \in Workers : v # w => wk'[v] = wk[v]
       /\ Keeps(w) \/ LetsGo(w) \/ Takes(w)

\* Tidy steps keep the map right.
LEMMA TidyMapped ==
  ASSUME JobsTyped, Safe, Mapped, Tidy
  PROVE  Mapped'
<1>0. /\ \A w \in Workers : wk[w].at # "idle" => wk[w].job \in Tasks
      /\ Idle.at = "idle" /\ "idle" \in Silent
  BY DEF Safe, Exclusive, Idle, Silent
<1>1. CASE UNCHANGED <<wk, active>>
  BY <1>1 DEF Mapped, Conversing
<1>2. CASE active' = {} /\ \A v \in Workers : wk'[v] = Idle
  BY <1>0, <1>2 DEF Mapped, Conversing
<1>3. ASSUME NEW w \in Workers, \A v \in Workers : v # w => wk'[v] = wk[v], Keeps(w)
      PROVE  Mapped'
  <2>1. \A v \in Workers : (wk'[v].at # "idle" <=> wk[v].at # "idle") /\ wk'[v].job = wk[v].job
    BY <1>3 DEF Keeps
  <2>2. \A u, v \in Workers :
          wk'[u].at # "idle" /\ wk'[v].at # "idle" /\ wk'[u].job = wk'[v].job => u = v
    BY <2>1 DEF Mapped
  <2>3. \A v \in Workers : v # w => (wk'[v].at \in Silent <=> wk[v].at \in Silent)
    BY <1>3
  <2>4. active' \subseteq Tasks
    BY <1>0, <1>3 DEF Keeps, Mapped
  <2>5. ASSUME NEW t \in Tasks
        PROVE  t \in active' <=> \E v \in Workers : wk'[v].at \notin Silent /\ wk'[v].job = t
    <3>1. CASE t = wk[w].job
      <4>1. \A v \in Workers : wk[v].at # "idle" /\ wk[v].job = t => v = w
        BY <1>3, <3>1 DEF Keeps, Mapped
      <4>2. t \in active <=> wk[w].at \notin Silent
        BY <1>0, <3>1, <4>1 DEF Mapped, Conversing
      <4>3. (\E v \in Workers : wk'[v].at \notin Silent /\ wk'[v].job = t) <=> wk'[w].at \notin Silent
        BY <1>0, <2>1, <2>3, <3>1, <4>1
      <4> QED BY <1>3, <3>1, <4>2, <4>3 DEF Keeps
    <3>2. CASE t # wk[w].job
      <4>1. t \in active' <=> t \in active
        BY <1>3, <3>2 DEF Keeps
      <4> QED BY <2>1, <2>3, <3>2, <4>1 DEF Mapped, Conversing
    <3> QED BY <3>1, <3>2
  <2> QED BY <2>2, <2>4, <2>5 DEF Mapped, Conversing
<1>4. ASSUME NEW w \in Workers, \A v \in Workers : v # w => wk'[v] = wk[v], LetsGo(w)
      PROVE  Mapped'
  <2>1. \A v \in Workers : wk'[v].at # "idle" => v # w /\ wk'[v] = wk[v]
    BY <1>0, <1>4 DEF LetsGo
  <2>2. \A u, v \in Workers :
          wk'[u].at # "idle" /\ wk'[v].at # "idle" /\ wk'[u].job = wk'[v].job => u = v
    BY <2>1 DEF Mapped
  <2>3. active' \subseteq Tasks
    BY <1>4 DEF LetsGo, Mapped
  <2>4. ASSUME NEW t \in Tasks
        PROVE  t \in active' <=> \E v \in Workers : wk'[v].at \notin Silent /\ wk'[v].job = t
    <3>1. (\E v \in Workers : wk'[v].at \notin Silent /\ wk'[v].job = t)
            <=> \E v \in Workers : v # w /\ wk[v].at \notin Silent /\ wk[v].job = t
      BY <1>0, <1>4, <2>1
    <3>2. CASE t = wk[w].job
      <4>1. ~\E v \in Workers : v # w /\ wk[v].at \notin Silent /\ wk[v].job = t
        BY <1>0, <1>4, <3>2 DEF LetsGo, Mapped
      <4>2. t \in active <=> wk[w].at \notin Silent
        BY <1>4, <3>2, <4>1 DEF Mapped, Conversing
      <4> QED BY <1>4, <3>1, <3>2, <4>1, <4>2 DEF LetsGo
    <3>3. CASE t # wk[w].job
      <4>1. t \in active' <=> t \in active
        BY <1>4, <3>3 DEF LetsGo
      <4> QED BY <3>1, <3>3, <4>1 DEF Mapped, Conversing
    <3> QED BY <3>2, <3>3
  <2> QED BY <2>2, <2>3, <2>4 DEF Mapped, Conversing
<1>5. ASSUME NEW w \in Workers, \A v \in Workers : v # w => wk'[v] = wk[v], Takes(w)
      PROVE  Mapped'
  <2>1. PICK t \in Tasks : t = wk'[w].job /\ t \notin active /\ status[t] = "queued"
    BY <1>5 DEF Takes
  <2>2. ASSUME NEW v \in Workers, wk[v].at # "idle", wk[v].job = t PROVE FALSE
    <3>1. wk[v].at # "leaving"
      BY <2>1, <2>2 DEF Mapped, Conversing, Silent
    <3> QED BY <2>1, <2>2, <3>1, PlaceNames DEF Safe, Exclusive, Holds
  <2>3. \A u, v \in Workers :
          wk'[u].at # "idle" /\ wk'[v].at # "idle" /\ wk'[u].job = wk'[v].job => u = v
    BY <1>5, <2>1, <2>2 DEF Mapped
  <2>4. \A v \in Workers : wk'[v].at \notin Silent <=> v # w /\ wk[v].at \notin Silent
    BY <1>0, <1>5 DEF Takes
  <2>5. \A v \in Workers : wk'[v].at \notin Silent <=> wk[v].at \notin Silent
    BY <1>0, <1>5, <2>4 DEF Takes
  <2>6. \A v \in Workers : wk[v].at \notin Silent => wk'[v].job = wk[v].job
    BY <1>5, <2>4, <2>5
  <2>7. active' = active
    BY <1>5 DEF Takes
  <2> QED BY <2>3, <2>5, <2>6, <2>7 DEF Mapped, Conversing
<1> QED BY <1>1, <1>2, <1>3, <1>4, <1>5 DEF Tidy

\* A worker that gives up leaves the map with its task.
LEMMA GiveUpTidy ==
  ASSUME JobsTyped, NEW w \in Workers, wk[w].at # "idle", LetGo(w)
  PROVE  Tidy
<1>1. wk'[w] = Idle /\ \A v \in Workers : v # w => wk'[v] = wk[v]
  BY RestTyped DEF LetGo, JobsTyped
<1>2. LetsGo(w)
  BY <1>1 DEF LetGo, LetsGo
<1> QED BY <1>1, <1>2 DEF Tidy

\* A worker that moves within the conversation stays in it.
LEMMA GoTidy ==
  ASSUME JobsTyped, NEW w \in Workers, NEW p \in Places \ Silent, Go(w, p),
         \/ wk[w].at \notin Silent /\ UNCHANGED active
         \/ wk[w].at # "idle" /\ active' = active \cup {wk[w].job}
  PROVE  Tidy
<1>1. /\ wk'[w].at = p /\ wk'[w].job = wk[w].job
      /\ \A v \in Workers : v # w => wk'[v] = wk[v]
  BY GoTyped DEF JobsTyped
<1>2. Keeps(w)
  BY <1>1 DEF Keeps, Silent
<1> QED BY <1>1, <1>2 DEF Tidy

\* So does every other change of its row that keeps the task.
LEMMA RowTidy ==
  ASSUME JobsTyped, NEW w \in Workers, NEW row, wk' = [wk EXCEPT ![w] = row],
         row.job = wk[w].job, row.at # "idle", wk[w].at # "idle",
         \/ wk[w].at \in Silent /\ row.at \in Silent /\ UNCHANGED active
         \/ wk[w].at \notin Silent /\ row.at \notin Silent /\ UNCHANGED active
         \/ wk[w].at \notin Silent /\ row.at \in Silent /\ active' = active \ {wk[w].job}
  PROVE  Tidy
<1>1. wk'[w] = row /\ \A v \in Workers : v # w => wk'[v] = wk[v]
  BY DEF JobsTyped
<1>2. Keeps(w)
  BY <1>1 DEF Keeps
<1> QED BY <1>1, <1>2 DEF Tidy

\* A worker takes a queued task that is not in the map.
LEMMA ClaimTidy ==
  ASSUME JobsTyped, NEW w \in Workers, NEW t \in Tasks, NEW row, wk' = [wk EXCEPT ![w] = row],
         wk[w].at = "idle", row.at \in {"claimed", "ready"}, row.job = t, status[t] = "queued",
         t \notin active, UNCHANGED active
  PROVE  Tidy
<1>1. wk'[w] = row /\ \A v \in Workers : v # w => wk'[v] = wk[v]
  BY DEF JobsTyped
<1>2. Takes(w)
  BY <1>1 DEF Takes, Silent
<1> QED BY <1>1, <1>2 DEF Tidy

\* A job claimed with its input, or failed.
LEMMA ClaimJobTidy ==
  ASSUME JobsTyped, NEW w \in Workers, NEW t \in NextJobs, NEW turns, ClaimJob(w, t, turns)
  PROVE  Tidy
<1>1. t \in Tasks /\ status[t] = "queued" /\ t \notin active /\ UNCHANGED active
  BY DEF NextJobs, First, ClaimJob
<1> DEFINE row == [Idle EXCEPT !.at = "ready", !.job = t, !.epoch = epoch, !.turns = turns]
<1>2. row.at = "ready" /\ row.job = t
  BY DEF Idle
<1>3. UNCHANGED wk \/ (wk[w].at = "idle" /\ wk' = [wk EXCEPT ![w] = row])
  BY DEF ClaimJob, At
<1> HIDE DEF row
<1> QED BY <1>1, <1>2, <1>3, ClaimTidy DEF Tidy

\* What a worker does outside the conversation, and the entry into it.
LEMMA LifeTidy ==
  ASSUME JobsTyped, NEW w \in Workers, LifeOf(w)
  PROVE  Tidy
<1>0. wk[w] \in Worker
  BY DEF JobsTyped
<1>1. CASE ClaimNamed(w)
  <2>1. PICK t \in Tasks :
          /\ status[t] = "queued" /\ t \notin active
          /\ wk' = [wk EXCEPT ![w] = [Idle EXCEPT !.at = "claimed", !.job = t]]
    BY <1>1 DEF ClaimNamed, First
  <2> DEFINE row == [Idle EXCEPT !.at = "claimed", !.job = t]
  <2>2. row.at = "claimed" /\ row.job = t /\ wk' = [wk EXCEPT ![w] = row]
    BY <2>1 DEF Idle
  <2> HIDE DEF row
  <2> QED BY <1>1, <2>1, <2>2, ClaimTidy DEF ClaimNamed, At
<1>2. CASE Prepare(w)
  <2> DEFINE t   == wk[w].job
             row == [wk[w] EXCEPT !.at = "ready", !.ver = version[SessionOf[t]], !.epoch = epoch,
                                  !.turns = context[SessionOf[t]] \cup {t}]
  <2>1. CASE wk' = [wk EXCEPT ![w] = row] /\ UNCHANGED active
    <3>1. row.at = "ready" /\ row.job = wk[w].job
      BY <1>0 DEF Worker
    <3> HIDE DEF row
    <3> QED BY <1>2, <2>1, <3>1, RowTidy DEF Prepare, At, Silent
  <2>2. CASE LetGo(w)
    BY <1>2, <2>2, GiveUpTidy DEF Prepare, At
  <2> QED BY <1>2, <2>1, <2>2 DEF Prepare, GiveUp, StoreFails
<1>3. CASE Start(w)
  <2>1. CASE Go(w, "check") /\ active' = active \cup {wk[w].job}
    BY <1>3, <2>1, GoTidy, PlaceNames DEF Start, At, Silent
  <2>2. CASE LetGo(w)
    BY <1>3, <2>2, GiveUpTidy DEF Start, At
  <2> QED BY <1>3, <2>1, <2>2 DEF Start, GiveUp
<1>4. CASE Seal(w)
  <2>1. CASE wk' = [wk EXCEPT ![w].at = "commit", ![w].gen = gen] /\ UNCHANGED active
    <3> DEFINE row == [wk[w] EXCEPT !.at = "commit", !.gen = gen]
    <3>1. row.at = "commit" /\ row.job = wk[w].job /\ wk' = [wk EXCEPT ![w] = row]
      BY <1>0, <2>1 DEF Worker
    <3> HIDE DEF row
    <3> QED BY <1>4, <2>1, <3>1, RowTidy DEF Seal, At, Silent
  <2>2. CASE LetGo(w)
    BY <1>4, <2>2, GiveUpTidy DEF Seal, At
  <2> QED BY <1>4, <2>1, <2>2 DEF Seal, GiveUp
<1>5. CASE Complete(w) \/ CompleteNamed(w)
  <2>1. wk[w].at = "commit" /\ Rest(w) /\ UNCHANGED active
    BY <1>5 DEF Complete, CompleteNamed, Answered, At
  <2>2. LetGo(w)
    BY <2>1 DEF LetGo, Silent
  <2> QED BY <2>1, <2>2, GiveUpTidy
<1> QED BY <1>1, <1>2, <1>3, <1>4, <1>5 DEF LifeOf

\* The conversation without the policy.
LEMMA ConverseTidy ==
  ASSUME JobsTyped, NEW w \in Workers, Converse(w)
  PROVE  Tidy
<1>0. wk[w] \in Worker /\ {"check", "call", "tool"} \subseteq Places \ Silent
  BY PlaceNames DEF JobsTyped, Silent
<1>1. CASE Check(w)
  <2>1. CASE Go(w, "call") /\ UNCHANGED active
    BY <1>0, <1>1, <2>1, GoTidy DEF Check, At
  <2>2. CASE LetGo(w)
    BY <1>1, <2>2, GiveUpTidy DEF Check, At
  <2> QED BY <1>1, <2>1, <2>2 DEF Check, GiveUp
<1>2. CASE Stream(w)
  BY <1>2 DEF Stream, Tidy
<1>3. CASE Reply(w)
  <2>1. CASE wk' = [wk EXCEPT ![w].at = "answer"] /\ active' = active \ {wk[w].job}
    <3> DEFINE row == [wk[w] EXCEPT !.at = "answer"]
    <3>1. row.at = "answer" /\ row.job = wk[w].job /\ wk' = [wk EXCEPT ![w] = row]
      BY <1>0, <2>1 DEF Worker
    <3> HIDE DEF row
    <3> QED BY <1>0, <1>3, <2>1, <3>1, RowTidy DEF Reply, At, Silent
  <2>2. CASE Go(w, "tool") /\ UNCHANGED active
    BY <1>0, <1>3, <2>2, GoTidy DEF Reply, At
  <2> QED BY <1>3, <2>1, <2>2 DEF Reply
<1>4. CASE Tool(w)
  <2> DEFINE row == [wk[w] EXCEPT !.at = "check", !.step = @ + 1]
  <2>1. row.at = "check" /\ row.job = wk[w].job /\ wk' = [wk EXCEPT ![w] = row]
    BY <1>0, <1>4 DEF Worker, Tool
  <2> HIDE DEF row
  <2> QED BY <1>0, <1>4, <2>1, RowTidy DEF Tool, At
<1>5. CASE Error(w)
  BY <1>5, GiveUpTidy DEF Error, GiveUp
<1> QED BY <1>1, <1>2, <1>3, <1>4, <1>5 DEF Converse

\* What others do leaves workers and map alone; a restart empties both.
LEMMA AsideTidy ==
  ASSUME Others \/ Restart \/ (\E t \in Tasks : Delete(t)) \/ UNCHANGED vars
  PROVE  Tidy
<1>1. CASE Others
  BY <1>1 DEF Others, QueueDirect, QueueNamed, Queue, CancelJob, CancelNamedTask, Cancelled,
     DropChunk, ReadProgress, CreateParticipant, CreateNamedAgent, AttachNamedAgent, Exclude,
     Readmit, SubmitCommit, ConfirmCommit, Tidy
<1>2. CASE Restart
  BY <1>2 DEF Restart, Tidy
<1>3. CASE (\E t \in Tasks : Delete(t)) \/ UNCHANGED vars
  BY <1>3 DEF Delete, DeleteDirect, DeleteNamed, Deleted, vars, Tidy
<1> QED BY <1>1, <1>2, <1>3

\* Every step of Tasks is tidy.
LEMMA NextMapped ==
  ASSUME JobsTyped, Safe, Mapped, [Next]_vars
  PROVE  Mapped'
<1>1. ASSUME NEW w \in Workers, ClaimDirect(w) PROVE Tidy
  BY <1>1, ClaimJobTidy DEF ClaimDirect
<1>2. Tidy
  BY <1>1, LifeTidy, ConverseTidy, AsideTidy DEF Next
<1> QED BY <1>2, TidyMapped

\* The map is right initially.
LEMMA InitMapped ==
  ASSUME Init
  PROVE  Mapped
  BY DEF Init, Mapped, Conversing, Idle, Silent

-----------------------------------------------------------------------------
(* What the invariant of the jobs says of the sessions.                     *)

\* One owner of a session, and no task in two hands.
LEMMA OneOwner ==
  ASSUME JobsTyped, Safe, Mapped
  PROVE  OneAtATime
<1>0. \A w \in Workers : wk[w].job # 0 => wk[w].at # "idle" /\ wk[w].job \in Tasks
  BY DEF Safe, Exclusive
<1>1. \A t, u \in Tasks :
        SessionOf[t] = SessionOf[u] /\ {status[t], status[u]} \subseteq {"running", "awaiting"} => t = u
  BY DEF Safe, Exclusive
<1>2. active = {wk[w].job : w \in {v \in Workers : Conversing(v)}}
  <2>1. \A w \in Workers : Conversing(w) => wk[w].job \in Tasks
    BY DEF Safe, Exclusive, Conversing, Silent
  <2> QED BY <2>1 DEF Mapped
<1>3. ASSUME NEW v \in Workers, NEW w \in Workers, v # w, wk[v].job # 0, wk[w].job # 0
      PROVE  /\ wk[v].job # wk[w].job
             /\ SessionOf[wk[v].job] = SessionOf[wk[w].job] =>
                  ~(status[wk[v].job] = "running" /\ status[wk[w].job] = "running")
  <2>1. wk[v].job # wk[w].job
    BY <1>0, <1>3 DEF Mapped
  <2> QED BY <1>0, <1>1, <1>3, <2>1
<1> QED BY <1>1, <1>2, <1>3 DEF OneAtATime

\* OneAtATime: a session has one owner, the map has exactly the conversations that
\* have not returned, and none of their tasks is in other hands.
THEOREM OneAtATimeHolds == Spec => []OneAtATime
<1>1. Init => JobsTyped /\ Safe /\ Mapped
  BY InitSafe, InitMapped
<1>2. JobsTyped /\ Safe /\ Mapped /\ [Next]_vars => (JobsTyped /\ Safe /\ Mapped)'
  BY NextSafe, NextMapped
<1>3. JobsTyped /\ Safe /\ Mapped => OneAtATime
  BY OneOwner
<1> QED BY <1>1, <1>2, <1>3, PTL DEF Spec

\* Forgotten: no context holds a deleted message, also after a late completion.
THEOREM ForgottenHolds == Spec => []Forgotten
<1>1. JobsTyped /\ Safe => Forgotten
  BY DEF Safe, Clean, Forgotten
<1> QED BY <1>1, SafeHolds, PTL

\* NoLateAnswer: an answer is published once, of a running task, from no message
\* that was deleted.
THEOREM NoLateAnswerHolds == Spec => NoLateAnswer
<1>1. Init => JobsTyped /\ Safe
  BY InitSafe
<1>2. JobsTyped /\ Safe /\ [Next]_vars => (JobsTyped /\ Safe)'
  BY NextSafe
<1>3. JobsTyped /\ Safe /\ [Next]_vars => [AnswersInTime]_vars
  BY NextSafe
<1>4. [AnswersInTime]_vars => [\A t \in Tasks : answers'[t] # answers[t] =>
       /\ status[t] = "running" /\ Len(answers[t]) = 0
       /\ answers'[t][1].turns \cap deleted = {}]_vars
  BY DEF AnswersInTime
<1> QED BY <1>1, <1>2, <1>3, <1>4, PTL DEF Spec, NoLateAnswer

-----------------------------------------------------------------------------
(* Progress.                                                               *)

\* Chunks are numbered without gaps, and a member that was served has seen all of
\* them up to where it is.
Progress ==
  /\ chunks \in [Tasks -> Seq(Nat \X Nat)] /\ dropped \in [Tasks -> Nat]
  /\ cursor \in [Tasks -> Nat] /\ seen \in [Tasks -> SUBSET Nat]
  /\ ProgressWhole

\* The steps that neither store, drop nor show a chunk.
LEMMA ChunksKept ==
  ASSUME [Next]_vars,
         ~\E t \in Tasks : DropChunk(t) \/ ReadProgress(t) \/ Delete(t),
         ~\E w \in Workers : Stream(w)
  PROVE  UNCHANGED <<chunks, dropped, cursor, seen>>
<1> USE DEF outVars
<1>1. ASSUME NEW w \in Workers, ClaimDirect(w) PROVE UNCHANGED <<chunks, dropped, cursor, seen>>
  BY <1>1 DEF ClaimDirect, ClaimJob
<1>2. ASSUME NEW w \in Workers, LifeOf(w) PROVE UNCHANGED <<chunks, dropped, cursor, seen>>
  BY <1>2 DEF LifeOf, ClaimNamed, Prepare, Start, Seal, Complete, CompleteNamed, Answered
<1>3. ASSUME NEW w \in Workers, Converse(w) PROVE UNCHANGED <<chunks, dropped, cursor, seen>>
  BY <1>3 DEF Converse, Check, Reply, Tool, Error
<1>4. CASE Others
  BY <1>4 DEF Others, QueueDirect, QueueNamed, Queue, CancelJob, CancelNamedTask, Cancelled,
     CreateParticipant, CreateNamedAgent, AttachNamedAgent, Exclude, Readmit, SubmitCommit,
     ConfirmCommit
<1>5. CASE Restart \/ UNCHANGED vars
  BY <1>5 DEF Restart, vars
<1> QED BY <1>1, <1>2, <1>3, <1>4, <1>5 DEF Next

\* What was read and the page that follows it leave no gap.
LEMMA ReadWhole ==
  ASSUME NEW c \in Nat, NEW n \in Nat, c <= n
  PROVE  (1..c) \cup ((c + 1)..n) = 1..n
  OBVIOUS

\* Appending keeps the type of a sequence.
LEMMA AppendTyped ==
  ASSUME NEW S, NEW q \in Seq(S), NEW x \in S
  PROVE  Append(q, x) \in Seq(S)
  OBVIOUS

\* Every step keeps readers and dropped chunks in order.
LEMMA NextProgress ==
  ASSUME JobsTyped, Progress, [Next]_vars
  PROVE  Progress'
<1>1. ASSUME NEW t \in Tasks, ReadProgress(t) PROVE Progress'
  <2> DEFINE n == PageEnd(t)
  <2>1. /\ cursor[t] \in Nat /\ dropped[t] \in Nat /\ Len(chunks[t]) \in Nat
        /\ cursor[t] >= dropped[t] /\ PageFrom(t) < Len(chunks[t])
    BY <1>1 DEF ReadProgress, Readable, Progress
  <2>2. PageFrom(t) = cursor[t]
    BY <2>1 DEF PageFrom
  <2>3. n \in Nat /\ cursor[t] <= n
    BY <2>1, <2>2, TasksAssumption DEF PageEnd
  <2> HIDE DEF n
  <2>4. seen[t] = 1..cursor[t]
    BY DEF Progress, ProgressWhole
  <2>5. (1..cursor[t]) \cup ((cursor[t] + 1)..n) = 1..n
    BY <2>1, <2>3, ReadWhole
  <2>6. /\ seen' = [seen EXCEPT ![t] = seen[t] \cup ((cursor[t] + 1)..n)]
        /\ cursor' = [cursor EXCEPT ![t] = n]
        /\ UNCHANGED <<chunks, dropped>>
    BY <1>1, <2>2 DEF ReadProgress, n
  <2>7. seen' = [seen EXCEPT ![t] = 1..n]
    BY <2>4, <2>5, <2>6
  <2>8. 1..n \in SUBSET Nat
    BY <2>3
  <2>9. \A u \in Tasks : seen'[u] = 1..cursor'[u]
    BY <2>3, <2>6, <2>7 DEF Progress, ProgressWhole
  <2> QED BY <2>3, <2>6, <2>7, <2>8, <2>9 DEF Progress, ProgressWhole
<1>2. ASSUME NEW t \in Tasks, DropChunk(t) \/ Delete(t) PROVE Progress'
  <2>1. dropped' \in [Tasks -> Nat]
    <3>1. \A u \in Tasks : dropped[u] \in Nat /\ dropped[u] + 1 \in Nat /\ Len(chunks[u]) \in Nat
      BY DEF Progress
    <3>2. CASE DropChunk(t)
      BY <3>1, <3>2 DEF DropChunk, Progress
    <3>3. CASE Delete(t)
      <4>1. DropProgress(ChatOf(t))
        BY <3>3 DEF Delete, DeleteDirect, DeleteNamed, Deleted
      <4> QED BY <3>1, <4>1 DEF DropProgress
    <3> QED BY <1>2, <3>2, <3>3
  <2>2. UNCHANGED <<chunks, cursor, seen>>
    BY <1>2 DEF DropChunk, Delete, DeleteDirect, DeleteNamed, Deleted
  <2> QED BY <2>1, <2>2 DEF Progress, ProgressWhole
<1>3. ASSUME NEW w \in Workers, Stream(w) PROVE Progress'
  <2>1. /\ UNCHANGED <<dropped, cursor, seen>> /\ <<epoch, gen>> \in Nat \X Nat
        /\ chunks' = [chunks EXCEPT ![wk[w].job] = Append(@, <<epoch, gen>>)]
    BY <1>3 DEF Stream, Chunk, JobsTyped, Numbers
  <2>2. \A u \in Tasks : Append(chunks[u], <<epoch, gen>>) \in Seq(Nat \X Nat)
    BY <2>1, AppendTyped DEF Progress
  <2>3. chunks' \in [Tasks -> Seq(Nat \X Nat)]
    BY <2>1, <2>2 DEF Progress
  <2> QED BY <2>1, <2>3 DEF Progress, ProgressWhole
<1>4. CASE UNCHANGED <<chunks, dropped, cursor, seen>>
  BY <1>4 DEF Progress, ProgressWhole
<1> QED BY <1>1, <1>2, <1>3, <1>4, ChunksKept

\* ProgressWhole: a member that reads the progress page by page misses no chunk,
\* whatever the pages hold and whatever is dropped between them.
THEOREM ProgressWholeHolds == Spec => []ProgressWhole
<1>1. Init => JobsTyped /\ Safe /\ Progress
  <2>1. ASSUME Init PROVE Progress
    BY <2>1 DEF Init, Progress, ProgressWhole
  <2> QED BY <2>1, InitSafe
<1>2. JobsTyped /\ Safe /\ Progress /\ [Next]_vars => (JobsTyped /\ Safe /\ Progress)'
  BY NextSafe, NextProgress
<1>3. Progress => ProgressWhole
  BY DEF Progress
<1> QED BY <1>1, <1>2, <1>3, PTL DEF Spec

-----------------------------------------------------------------------------
(* The sending generations of an E2EE chat.                                *)

\* What was sealed used a generation before the stored one, and the worker that is
\* about to publish an answer holds the stored one.
Spent(seal) == seal \in Nat \X Nat /\ (seal[1] < epoch \/ (seal[1] = epoch /\ seal[2] < gen))
Ratchet ==
  /\ \A a \in AllSeals : Spent(a[3])
  /\ \A w \in Workers, t \in Tasks :
       Holds(w, t) /\ status[t] = "running" /\ wk[w].at = "commit" => wk[w].gen = gen
Sealed == kind = "e2ee" => Ratchet /\ FreshGenerations

\* Steps that seal nothing and leave the stored state alone.
Sealless ==
  /\ UNCHANGED <<kind, chunks, answers>>
  /\ \A v \in Workers : wk'[v].at = "commit" => wk'[v] = wk[v]
  /\ \A t \in Tasks : status'[t] = "running" => status[t] \in {"running", "queued"}

\* What is sealed depends on the progress and the answers.
LEMMA SameSeals ==
  ASSUME UNCHANGED <<chunks, answers>>
  PROVE  AllSeals' = AllSeals
  BY DEF AllSeals

\* Steps that seal nothing keep generations fresh.
LEMMA SeallessSealed ==
  ASSUME Safe, Sealed, Sealless, UNCHANGED <<epoch, gen>>
  PROVE  Sealed'
<1> SUFFICES ASSUME kind = "e2ee" PROVE (Ratchet /\ FreshGenerations)'
  BY DEF Sealed, Sealless
<1>1. AllSeals' = AllSeals
  BY SameSeals DEF Sealless
<1>2. FreshGenerations'
  BY <1>1 DEF Sealed, FreshGenerations
<1>3. \A a \in AllSeals' : Spent(a[3])'
  BY <1>1 DEF Sealed, Ratchet, Spent
<1>4. ASSUME NEW w \in Workers, NEW t \in Tasks,
             Holds(w, t)', status'[t] = "running", wk'[w].at = "commit"
      PROVE  Holds(w, t) /\ status[t] = "running" /\ wk[w].at = "commit" /\ wk'[w] = wk[w]
  BY <1>4, PlaceNames DEF Sealless, Holds, Safe, Exclusive
<1> QED BY <1>1, <1>2, <1>3, <1>4 DEF Ratchet, Sealed

\* A new seal with the stored generation is unlike every earlier one.
LEMMA NewSeal ==
  ASSUME Sealed, kind = "e2ee", epoch \in Nat, gen \in Nat,
         NEW t, NEW i, AllSeals' \subseteq AllSeals \cup {<<t, i, <<epoch, gen>>>>},
         epoch' = epoch, gen' = gen + 1
  PROVE  FreshGenerations' /\ \A a \in AllSeals' : Spent(a[3])'
<1>1. \A a \in AllSeals : Spent(a[3])
  BY DEF Sealed, Ratchet
<1>2. \A a \in AllSeals : a[3] # <<epoch, gen>>
  BY <1>1 DEF Spent
<1>3. \A a, b \in AllSeals : a[3] = b[3] => a = b
  BY DEF Sealed, FreshGenerations
<1>4. FreshGenerations'
  BY <1>2, <1>3 DEF FreshGenerations
<1>5. \A a \in AllSeals : Spent(a[3])'
  BY <1>1 DEF Spent
<1> QED BY <1>4, <1>5 DEF Spent

\* AllSeals as a function of what is stored.
ChunkSeals(c) == UNION {{<<t, i, c[t][i]>> : i \in 1..Len(c[t])} : t \in Tasks}
AnswerSeals(s) == {<<t, 0, s[t][1].seal>> : t \in {u \in Tasks : s[u] # << >>}}

\* The seals of progress chunks.
LEMMA ChunkSealed ==
  ASSUME NEW c, NEW a
  PROVE  a \in ChunkSeals(c) <=> \E t \in Tasks : \E i \in 1..Len(c[t]) : a = <<t, i, c[t][i]>>
<1> DEFINE Row(t) == {<<t, i, c[t][i]>> : i \in 1..Len(c[t])}
<1>1. \A t : a \in Row(t) <=> \E i \in 1..Len(c[t]) : a = <<t, i, c[t][i]>>
  OBVIOUS
<1> HIDE DEF Row
<1>2. a \in UNION {Row(t) : t \in Tasks} <=> \E t \in Tasks : a \in Row(t)
  OBVIOUS
<1>3. ChunkSeals(c) = UNION {Row(t) : t \in Tasks}
  BY DEF ChunkSeals, Row
<1> QED BY <1>1, <1>2, <1>3

\* The seals of answers.
LEMMA AnswerSealed ==
  ASSUME NEW s, NEW a
  PROVE  a \in AnswerSeals(s) <=> \E t \in Tasks : s[t] # << >> /\ a = <<t, 0, s[t][1].seal>>
  BY DEF AnswerSeals

\* All seals, before and after a step.
LEMMA AllSealsOf ==
  /\ AllSeals = ChunkSeals(chunks) \cup AnswerSeals(answers)
  /\ AllSeals' = ChunkSeals(chunks') \cup AnswerSeals(answers')
  BY DEF AllSeals, ChunkSeals, AnswerSeals

\* An e2ee chat has one session of its agent.
LEMMA OneSession ==
  ASSUME kind \in Kinds, kind = "e2ee"
  PROVE  \A t, u \in Tasks : SessionOf[t] = SessionOf[u]
<1>1. MaxTask \in Int /\ 1 \in Int /\ Cardinality(Sessions) = 1
  BY TasksAssumption
<1>2. IsFiniteSet(Tasks)
  BY <1>1, FS_Interval DEF Tasks
<1>3. IsFiniteSet(Sessions)
  <2> DEFINE f == [t \in Tasks |-> SessionOf[t]]
  <2>1. f \in Surjection(Tasks, Sessions)
    BY DEF Surjection, Sessions
  <2> QED BY <1>2, <2>1, FS_Surjection
<1>4. PICK s : Sessions = {s}
  BY <1>1, <1>3, FS_Singleton
<1> QED BY <1>4, TaskFacts

\* A chunk is sealed with the stored generation, which then moves on; no answer is
\* sealed while the conversation lasts.
LEMMA StreamSealed ==
  ASSUME JobsTyped, Safe, Progress, Sealed, NEW w \in Workers, Stream(w)
  PROVE  Sealed'
<1> DEFINE t == wk[w].job
           n == Len(chunks[t]) + 1
<1>1. /\ wk[w].at = "call" /\ status[t] = "running"
      /\ chunks' = [chunks EXCEPT ![t] = Append(chunks[t], <<epoch, gen>>)]
      /\ UNCHANGED <<kind, status, epoch, answers, wk>>
      /\ gen' = IF kind = "e2ee" THEN gen + 1 ELSE gen
  BY DEF Stream, Chunk, EffectsAllowed, At, jobVars, aclVars
<1> SUFFICES ASSUME kind = "e2ee" PROVE (Ratchet /\ FreshGenerations)'
  BY <1>1 DEF Sealed
<1>2. t \in Tasks /\ Holds(w, t) /\ epoch \in Nat /\ gen \in Nat
  BY <1>1 DEF Safe, Exclusive, Holds, JobsTyped, Numbers
<1>3. chunks[t] \in Seq(Nat \X Nat) /\ <<epoch, gen>> \in Nat \X Nat
  BY <1>2 DEF Progress
<1>4. \A u \in Tasks : u # t => chunks'[u] = chunks[u]
  BY <1>1 DEF Progress
<1>5. chunks'[t] = Append(chunks[t], <<epoch, gen>>)
  BY <1>1, <1>2 DEF Progress
<1>6. \A i \in 1..Len(chunks'[t]) : IF i = n THEN chunks'[t][i] = <<epoch, gen>>
                                    ELSE i \in 1..Len(chunks[t]) /\ chunks'[t][i] = chunks[t][i]
  BY <1>3, <1>5
<1>7. AllSeals' \subseteq AllSeals \cup {<<t, n, <<epoch, gen>>>>}
  <2>1. ASSUME NEW a \in ChunkSeals(chunks')
        PROVE  a \in ChunkSeals(chunks) \/ a = <<t, n, <<epoch, gen>>>>
    <3>1. PICK u \in Tasks : \E i \in 1..Len(chunks'[u]) : a = <<u, i, chunks'[u][i]>>
      BY <2>1, ChunkSealed
    <3>2. PICK i \in 1..Len(chunks'[u]) : a = <<u, i, chunks'[u][i]>>
      BY <3>1
    <3>3. CASE u # t
      BY <1>4, <3>2, <3>3, ChunkSealed
    <3>4. CASE u = t /\ i # n
      BY <1>6, <3>2, <3>4, ChunkSealed
    <3>5. CASE u = t /\ i = n
      BY <1>6, <3>2, <3>5
    <3> QED BY <3>3, <3>4, <3>5
  <2> QED BY <1>1, <2>1, AllSealsOf
<1>8. FreshGenerations' /\ \A a \in AllSeals' : Spent(a[3])'
  BY <1>1, <1>2, <1>7, NewSeal
<1>9. ASSUME NEW v \in Workers, NEW u \in Tasks,
             Holds(v, u)', status'[u] = "running", wk'[v].at = "commit"
      PROVE  FALSE
  <2>1. Holds(v, u) /\ status[u] = "running" /\ wk[v].at = "commit"
    BY <1>1, <1>9 DEF Holds
  <2>2. SessionOf[u] = SessionOf[t]
    BY <1>2, OneSession DEF JobsTyped
  <2>3. u = t
    BY <1>1, <1>2, <2>1, <2>2 DEF Safe, Exclusive
  <2>4. v = w
    BY <1>1, <1>2, <2>1, <2>3 DEF Safe, Exclusive
  <2> QED BY <1>1, <2>1, <2>4
<1> QED BY <1>8, <1>9 DEF Ratchet

\* An answer is published with the generation it was sealed with, which is still
\* the stored one, and of the epoch the conversation was started in.
LEMMA AnsweredSealed ==
  ASSUME JobsTyped, Safe, Sealed, NEW w \in Workers, Answered(w),
         kind = "e2ee" => gen' = wk[w].gen + 1
  PROVE  Sealed'
<1> DEFINE t == wk[w].job
<1>1. /\ wk[w].at = "commit" /\ status[t] = "running" /\ UnchangedSince(w)
      /\ answers' = [answers EXCEPT ![t] =
           Append(answers[t], [seal |-> <<wk[w].epoch, wk[w].gen>>, turns |-> wk[w].turns])]
      /\ status' = [status EXCEPT ![t] = "succeeded"] /\ Rest(w)
      /\ UNCHANGED <<kind, epoch, chunks>>
  BY DEF Answered, MayPublish, At, aclVars
<1> SUFFICES ASSUME kind = "e2ee" PROVE (Ratchet /\ FreshGenerations)'
  BY <1>1 DEF Sealed
<1>2. t \in Tasks /\ Holds(w, t) /\ epoch \in Nat /\ gen \in Nat
  BY <1>1 DEF Safe, Exclusive, Holds, JobsTyped, Numbers
<1>3. wk[w].gen = gen /\ wk[w].epoch = epoch /\ gen' = gen + 1
  BY <1>1, <1>2 DEF Sealed, Ratchet, UnchangedSince, Named
<1>4. answers[t] = << >>
  BY <1>1, <1>2 DEF Safe, Once
<1> DEFINE answer == [seal |-> <<wk[w].epoch, wk[w].gen>>, turns |-> wk[w].turns]
<1>5. answers'[t] = << answer >> /\ answer.seal = <<epoch, gen>>
  <2>1. answers'[t] = Append(answers[t], answer)
    BY <1>1, <1>2 DEF JobsTyped
  <2>2. answer.seal = <<epoch, gen>>
    BY <1>3
  <2> HIDE DEF answer
  <2>3. Append(<< >>, answer) = << answer >>
    OBVIOUS
  <2> QED BY <1>4, <2>1, <2>2, <2>3
<1> HIDE DEF answer
<1>6. \A u \in Tasks : u # t => answers'[u] = answers[u]
  BY <1>1 DEF JobsTyped
<1>7. AllSeals' \subseteq AllSeals \cup {<<t, 0, <<epoch, gen>>>>}
  <2>1. answers'[t][1].seal = <<epoch, gen>>
    BY <1>5
  <2>2. ASSUME NEW a \in AnswerSeals(answers')
        PROVE  a \in AnswerSeals(answers) \/ a = <<t, 0, <<epoch, gen>>>>
    <3>1. PICK u \in Tasks : answers'[u] # << >> /\ a = <<u, 0, answers'[u][1].seal>>
      BY <2>2, AnswerSealed
    <3> QED BY <1>6, <2>1, <3>1, AnswerSealed
  <2> QED BY <1>1, <2>2, AllSealsOf
<1>8. FreshGenerations' /\ \A a \in AllSeals' : Spent(a[3])'
  BY <1>1, <1>2, <1>3, <1>7, NewSeal
<1>9. ASSUME NEW v \in Workers, NEW u \in Tasks,
             Holds(v, u)', status'[u] = "running", wk'[v].at = "commit"
      PROVE  FALSE
  <2>1. wk'[w] = Idle /\ \A x \in Workers : x # w => wk'[x] = wk[x]
    BY <1>1, RestTyped DEF JobsTyped
  <2>2. v # w /\ Holds(v, u)
    BY <1>9, <2>1 DEF Holds, Idle
  <2>3. u # t /\ status[u] = "running"
    BY <1>1, <1>2, <1>9 DEF JobsTyped
  <2>4. SessionOf[u] = SessionOf[t]
    BY <1>2, OneSession DEF JobsTyped
  <2> QED BY <1>1, <1>2, <2>3, <2>4 DEF Safe, Exclusive
<1> QED BY <1>8, <1>9 DEF Ratchet

\* The answer is sealed with the state as it is stored now.
LEMMA SealSealed ==
  ASSUME JobsTyped, Safe, Sealed, NEW w \in Workers, Seal(w)
  PROVE  Sealed'
<1>1. UNCHANGED <<kind, epoch, gen, chunks, answers>>
  BY DEF Seal, aclVars, outVars
<1>2. CASE GiveUp(w, "failed")
  <2>1. /\ \A u \in Tasks : status'[u] # status[u] => status'[u] \in Finished
        /\ wk'[w] = Idle /\ \A v \in Workers : v # w => wk'[v] = wk[v]
    BY <1>2, GiveUpTyped, PlaceNames DEF JobsTyped
  <2>2. Sealless
    BY <1>1, <2>1, PlaceNames DEF Sealless, Idle
  <2> QED BY <1>1, <2>2, SeallessSealed
<1>3. CASE wk' = [wk EXCEPT ![w].at = "commit", ![w].gen = gen] /\ UNCHANGED status
  <2>1. /\ wk'[w].gen = gen /\ wk'[w].job = wk[w].job /\ wk[w].at # "idle"
        /\ \A v \in Workers : v # w => wk'[v] = wk[v]
    BY <1>3 DEF JobsTyped, Worker, Seal, At
  <2>2. AllSeals' = AllSeals
    BY <1>1, SameSeals
  <2>3. \A u \in Tasks : status'[u] = status[u]
    BY <1>3
  <2>4. ASSUME kind = "e2ee" PROVE Ratchet' /\ FreshGenerations'
    <3>1. \A v \in Workers, u \in Tasks :
            Holds(v, u)' /\ status'[u] = "running" /\ wk'[v].at = "commit" => wk'[v].gen = gen'
      BY <1>1, <2>1, <2>3, <2>4 DEF Holds, Sealed, Ratchet
    <3> QED BY <1>1, <2>2, <2>4, <3>1 DEF Sealed, Ratchet, Spent, FreshGenerations
  <2> QED BY <1>1, <2>4 DEF Sealed
<1> QED BY <1>2, <1>3 DEF Seal

\* The state moves to the next epoch when nothing runs.
LEMMA ConfirmSealed ==
  ASSUME JobsTyped, Sealed, ConfirmCommit
  PROVE  Sealed'
<1>1. /\ epoch \in Nat /\ epoch' = epoch + 1 /\ gen' = 0
      /\ UNCHANGED <<kind, status, chunks, answers, wk>>
      /\ \A t \in Tasks : status[t] # "running"
  BY DEF ConfirmCommit, jobVars, JobsTyped, Numbers
<1>2. AllSeals' = AllSeals
  BY <1>1, SameSeals
<1>3. \A a \in AllSeals : Spent(a[3]) => Spent(a[3])'
  BY <1>1 DEF Spent
<1> QED BY <1>1, <1>2, <1>3 DEF Sealed, Ratchet, FreshGenerations

\* Moving on seals nothing.
LEMMA GoSealless ==
  ASSUME JobsTyped, NEW w \in Workers, NEW p \in Places \ {"commit"}, Go(w, p),
         UNCHANGED <<kind, chunks, answers, status>>
  PROVE  Sealless
  BY GoTyped DEF JobsTyped, Sealless

\* Giving up seals nothing.
LEMMA GiveUpSealless ==
  ASSUME JobsTyped, NEW w \in Workers, (\E new \in Finished : GiveUp(w, new)) \/ StoreFails(w),
         UNCHANGED <<kind, chunks, answers>>
  PROVE  Sealless
<1>1. /\ \A u \in Tasks : status'[u] # status[u] => status[u] \in Live /\ status'[u] \in Finished
      /\ wk'[w] = Idle /\ \A v \in Workers : v # w => wk'[v] = wk[v]
  BY GiveUpTyped DEF JobsTyped
<1> QED BY <1>1, PlaceNames DEF Sealless, Idle

\* Talking seals nothing.
LEMMA TalkSealless ==
  ASSUME JobsTyped, NEW w \in Workers, Start(w) \/ Check(w) \/ Reply(w) \/ Tool(w) \/ Error(w)
  PROVE  Sealless /\ UNCHANGED <<epoch, gen>>
<1> USE PlaceNames DEF aclVars, outVars, jobVars
<1>1. CASE Start(w)
  BY <1>1, GoSealless, GiveUpSealless DEF Start
<1>2. CASE Check(w)
  BY <1>2, GoSealless, GiveUpSealless DEF Check
<1>3. CASE Reply(w)
  BY <1>3, GoSealless DEF Reply, Go
<1>4. CASE Error(w)
  BY <1>4, GiveUpSealless DEF Error
<1>5. CASE Tool(w)
  <2>1. wk'[w].at = "check" /\ \A v \in Workers : v # w => wk'[v] = wk[v]
    BY <1>5 DEF Tool, JobsTyped, Worker
  <2> QED BY <1>5, <2>1 DEF Tool, Sealless
<1> QED BY <1>1, <1>2, <1>3, <1>4, <1>5

\* Claiming seals nothing.
LEMMA ClaimSealless ==
  ASSUME JobsTyped, NEW w \in Workers, ClaimDirect(w) \/ ClaimNamed(w) \/ Prepare(w)
  PROVE  Sealless /\ UNCHANGED <<epoch, gen>>
<1> USE PlaceNames DEF aclVars, outVars, jobVars
<1>1. ASSUME NEW t \in Tasks, NEW row, row.at # "commit", status[t] = "queued",
             status' = [status EXCEPT ![t] = "running"], wk' = [wk EXCEPT ![w] = row],
             UNCHANGED <<kind, chunks, answers>>
      PROVE  Sealless
  <2>1. \A u \in Tasks : status'[u] = IF u = t THEN "running" ELSE status[u]
    BY <1>1 DEF JobsTyped
  <2>2. \A v \in Workers : wk'[v] = IF v = w THEN row ELSE wk[v]
    BY <1>1 DEF JobsTyped
  <2> QED BY <1>1, <2>1, <2>2 DEF Sealless
<1>2. CASE ClaimDirect(w)
  <2>1. PICK t \in NextJobs : ClaimJob(w, t, context[SessionOf[t]] \cup {t})
    BY <1>2 DEF ClaimDirect
  <2>2. t \in Tasks /\ status[t] = "queued"
    BY DEF NextJobs, First
  <2>3. CASE SetStatus(t, "failed") /\ UNCHANGED wk
    <3>1. \A u \in Tasks : status'[u] # status[u] => status'[u] \in Finished
      BY <2>3, SetStatusTyped DEF JobsTyped
    <3> QED BY <2>1, <2>3, <3>1 DEF ClaimJob, Sealless
  <2>4. CASE ~(SetStatus(t, "failed") /\ UNCHANGED wk)
    <3> DEFINE row == [Idle EXCEPT !.at = "ready", !.job = t, !.epoch = epoch,
                                   !.turns = context[SessionOf[t]] \cup {t}]
    <3>1. row.at = "ready"
      BY DEF Idle
    <3>2. status' = [status EXCEPT ![t] = "running"] /\ wk' = [wk EXCEPT ![w] = row]
      BY <2>1, <2>4 DEF ClaimJob
    <3> HIDE DEF row
    <3> QED BY <1>1, <2>1, <2>2, <3>1, <3>2 DEF ClaimJob
  <2> QED BY <2>1, <2>3, <2>4 DEF ClaimJob
<1>3. CASE ClaimNamed(w)
  <2>1. PICK t \in Tasks :
          /\ status[t] = "queued" /\ status' = [status EXCEPT ![t] = "running"]
          /\ wk' = [wk EXCEPT ![w] = [Idle EXCEPT !.at = "claimed", !.job = t]]
    BY <1>3 DEF ClaimNamed, First
  <2> DEFINE row == [Idle EXCEPT !.at = "claimed", !.job = t]
  <2>2. row.at = "claimed"
    BY DEF Idle
  <2> HIDE DEF row
  <2>3. wk' = [wk EXCEPT ![w] = row]
    BY <2>1 DEF row
  <2> QED BY <1>1, <1>3, <2>1, <2>2, <2>3 DEF ClaimNamed
<1>4. CASE Prepare(w)
  <2>1. CASE GiveUp(w, "failed") \/ StoreFails(w)
    BY <1>4, <2>1, GiveUpSealless DEF Prepare
  <2>2. CASE ~(GiveUp(w, "failed") \/ StoreFails(w))
    <3> DEFINE row(t) == [wk[w] EXCEPT !.at = "ready", !.ver = version[SessionOf[t]],
                                       !.epoch = epoch, !.turns = context[SessionOf[t]] \cup {t}]
    <3>1. wk[w] \in Worker
      BY DEF JobsTyped
    <3>2. row(wk[w].job).at = "ready"
      BY <3>1 DEF Worker
    <3>3. wk' = [wk EXCEPT ![w] = row(wk[w].job)] /\ UNCHANGED status
      BY <1>4, <2>2 DEF Prepare
    <3> HIDE DEF row
    <3>4. wk'[w].at = "ready" /\ \A v \in Workers : v # w => wk'[v] = wk[v]
      BY <3>2, <3>3 DEF JobsTyped
    <3> QED BY <1>4, <3>3, <3>4 DEF Prepare, Sealless
  <2> QED BY <2>1, <2>2, <1>4 DEF Prepare
<1> QED BY <1>2, <1>3, <1>4

\* Nothing beside the workers seals.
LEMMA AsideSealless ==
  ASSUME JobsTyped, Others \/ Restart \/ (\E t \in Tasks : Delete(t)) \/ UNCHANGED vars,
         ~ConfirmCommit
  PROVE  Sealless /\ UNCHANGED <<epoch, gen>>
<1> USE DEF aclVars, outVars, jobVars
<1>1. ASSUME NEW t \in Tasks, Cancelled(t) \/ DropChunk(t) \/ ReadProgress(t) \/ Queue(t)
      PROVE  Sealless /\ UNCHANGED <<epoch, gen>>
  BY <1>1 DEF Cancelled, DropChunk, ReadProgress, Queue, Sealless, JobsTyped
<1>2. ASSUME NEW s \in Sessions,
             \/ CreateParticipant(s) \/ CreateNamedAgent(s) \/ AttachNamedAgent(s)
             \/ Exclude(s) \/ Readmit(s)
      PROVE  Sealless /\ UNCHANGED <<epoch, gen>>
  BY <1>2 DEF CreateParticipant, CreateNamedAgent, AttachNamedAgent, Exclude, Readmit, Sealless
<1>3. CASE SubmitCommit \/ UNCHANGED vars
  BY <1>3 DEF SubmitCommit, vars, Sealless
<1>4. CASE Restart
  BY <1>4 DEF Restart, Recovered, Sealless, Idle
<1>5. ASSUME NEW t \in Tasks, Delete(t) PROVE Sealless /\ UNCHANGED <<epoch, gen>>
  <2>1. PICK new \in Finished : Deleted(t, new)
    BY <1>5, PlaceNames DEF Delete, DeleteDirect, DeleteNamed
  <2> QED BY <2>1, PlaceNames DEF Deleted, StopAll, Sealless
<1> QED BY <1>1, <1>2, <1>3, <1>4, <1>5 DEF Others, QueueDirect, QueueNamed, CancelJob,
        CancelNamedTask

\* An answer is stored with the generation that was claimed for it.
LEMMA CompletionSealed ==
  ASSUME JobsTyped, Safe, Sealed, NEW w \in Workers, Complete(w) \/ CompleteNamed(w)
  PROVE  Sealed'
<1>1. CASE Answered(w) /\ ~Named
  <2>1. wk[w].job \in Tasks /\ status'[wk[w].job] # status[wk[w].job]
    BY <1>1 DEF Answered, At, Safe, Exclusive, JobsTyped
  <2>2. gen' = IF kind = "e2ee" THEN wk[w].gen + 1 ELSE gen
    BY <1>1, <2>1 DEF Complete, CompleteNamed, Answered
  <2> QED BY <1>1, <2>2, AnsweredSealed
<1>2. CASE Named
  BY <1>2 DEF Complete, CompleteNamed, Answered, Named, Sealed
<1>3. CASE ~Answered(w)
  <2>1. /\ Rest(w) /\ UNCHANGED <<kind, epoch, gen, chunks, answers>>
    BY <1>3 DEF Complete, CompleteNamed, aclVars, outVars
  <2>2. Calm
    BY <1>3, NotAnsweredCalm DEF NotAnswered
  <2>3. \A t \in Tasks : status'[t] = "running" => status[t] = "running"
    BY <2>2, PlaceNames DEF Calm, StatusCalm
  <2>4. Sealless
    BY <2>1, <2>3, RestTyped DEF JobsTyped, Sealless, Idle
  <2> QED BY <2>1, <2>4, SeallessSealed
<1> QED BY <1>1, <1>2, <1>3

\* No step uses a generation twice.
LEMMA NextSealed ==
  ASSUME JobsTyped, Safe, Progress, Sealed, [Next]_vars
  PROVE  Sealed'
<1>1. ASSUME NEW w \in Workers, Stream(w) PROVE Sealed'
  BY <1>1, StreamSealed
<1>2. ASSUME NEW w \in Workers, Seal(w) PROVE Sealed'
  BY <1>2, SealSealed
<1>3. ASSUME NEW w \in Workers, Complete(w) \/ CompleteNamed(w) PROVE Sealed'
  BY <1>3, CompletionSealed
<1>4. ASSUME NEW w \in Workers, Start(w) \/ Check(w) \/ Reply(w) \/ Tool(w) \/ Error(w)
      PROVE  Sealed'
  BY <1>4, TalkSealless, SeallessSealed
<1>5. ASSUME NEW w \in Workers, ClaimDirect(w) \/ ClaimNamed(w) \/ Prepare(w) PROVE Sealed'
  BY <1>5, ClaimSealless, SeallessSealed
<1>6. CASE ConfirmCommit
  BY <1>6, ConfirmSealed
<1>7. CASE (Others \/ Restart \/ (\E t \in Tasks : Delete(t)) \/ UNCHANGED vars) /\ ~ConfirmCommit
  BY <1>7, AsideSealless, SeallessSealed
<1> QED BY <1>1, <1>2, <1>3, <1>4, <1>5, <1>6, <1>7 DEF Next, LifeOf, Converse

\* FreshGenerations: no generation of an epoch seals two things.
THEOREM FreshGenerationsHolds == Spec => []FreshGenerations
<1>1. Init => JobsTyped /\ Safe /\ Progress /\ Sealed
  <2>1. ASSUME Init PROVE Progress
    BY <2>1 DEF Init, Progress, ProgressWhole
  <2>2. ASSUME Init PROVE Sealed
    <3>1. \A a : a \notin ChunkSeals(chunks)
      BY <2>2, ChunkSealed DEF Init
    <3>2. \A a : a \notin AnswerSeals(answers)
      BY <2>2, AnswerSealed DEF Init
    <3>3. AllSeals = {}
      BY <3>1, <3>2, AllSealsOf
    <3> QED BY <2>2, <3>3 DEF Init, Idle, Sealed, Ratchet, FreshGenerations
  <2> QED BY <2>1, <2>2, InitSafe
<1>2. JobsTyped /\ Safe /\ Progress /\ Sealed /\ [Next]_vars
        => (JobsTyped /\ Safe /\ Progress /\ Sealed)'
  BY NextSafe, NextProgress, NextSealed
<1>3. Sealed => FreshGenerations
  BY DEF Sealed, FreshGenerations
<1> QED BY <1>1, <1>2, <1>3, PTL DEF Spec

-----------------------------------------------------------------------------
(* The jobs under the policy.                                              *)

\* The parts of an effect.
LEMMA EffectFacts ==
  ASSUME NEW e \in Effects
  PROVE  e[1] \in Tasks /\ e[2] \in Nat /\ e[3] \in Actions /\ SessionOf[e[1]] \in Sessions
<1>1. MaxSteps \in Nat
  BY TasksAssumption
<1>2. e[1] \in Tasks /\ e[2] \in 0..(MaxSteps - 1) /\ e[3] \in Actions
  BY DEF Effects
<1> QED BY <1>1, <1>2, TaskFacts

\* Saved continuations are made of messages of their session that are not deleted.
Continuations ==
  /\ saved \in [Effects -> SUBSET Tasks]
  /\ \A e \in Effects : saved[e] \subseteq InSession(SessionOf[e[1]]) /\ saved[e] \cap deleted = {}

\* Claiming a task with its continuation keeps the jobs safe.
LEMMA PolicyClaimSafe ==
  ASSUME JobsTyped, Safe, Continuations, NEW w \in Workers, PolicyClaimDirect(w)
  PROVE  JobsTyped' /\ Safe' /\ UNCHANGED answers
<1> DEFINE turns(t) == IF Fresh(t) THEN context[SessionOf[t]] \cup {t}
                                   ELSE UNION {saved[e] : e \in Resumable(t)}
<1>1. PICK t \in NextJobs : ClaimJob(w, t, turns(t))
  BY DEF PolicyClaimDirect
<1>2. t \in Tasks /\ status[t] = "queued" /\ Free(t)
  BY DEF NextJobs, First
<1>3. turns(t) \subseteq InSession(SessionOf[t]) /\ turns(t) \cap deleted = {}
  <2>1. CASE Fresh(t)
    BY <1>2, <2>1, NewTurns, PlaceNames
  <2>2. CASE ~Fresh(t)
    <3>1. \A e \in Resumable(t) : e \in Effects /\ e[1] = t
      BY DEF Resumable, Approved, Of
    <3>2. \A e \in Resumable(t) : saved[e] \subseteq InSession(SessionOf[t]) /\ saved[e] \cap deleted = {}
      BY <3>1 DEF Continuations
    <3> QED BY <2>2, <3>2
  <2> QED BY <2>1, <2>2
<1> HIDE DEF turns
<1> QED BY <1>1, <1>2, <1>3, ClaimJobSafe

\* Entering a conversation disturbs no claim.
LEMMA EnterCalm ==
  ASSUME JobsTyped, Safe, NEW w \in Workers, Enter(w)
  PROVE  JobsTyped' /\ Calm
<1>1. /\ wk[w].at = "check" /\ wk[w] \in Worker
      /\ UNCHANGED <<kind, context, version, deleted, epoch, gen, answers>>
  BY DEF Enter, At, aclVars, outVars, JobsTyped
<1>2. wk[w].job \in Tasks
  BY <1>1 DEF Safe, Exclusive
<1>3. version[SessionOf[wk[w].job]] \in Nat
  BY <1>2, TaskFacts DEF JobsTyped, Numbers
<1>4. ASSUME NEW row \in Worker, row.at # "idle", row.job = wk[w].job, row.turns = wk[w].turns,
             wk' = [wk EXCEPT ![w] = row], UNCHANGED status
      PROVE  JobsTyped' /\ Calm
  BY <1>1, <1>4 DEF JobsTyped, Numbers, Calm, StatusCalm, WorkersCalm
<1>5. CASE /\ wk' = [wk EXCEPT ![w].at = "loop", ![w].ver = version[SessionOf[wk[w].job]]]
           /\ UNCHANGED status
  <2> DEFINE row == [wk[w] EXCEPT !.at = "loop", !.ver = version[SessionOf[wk[w].job]]]
  <2>1. row \in Worker /\ row.at # "idle" /\ row.job = wk[w].job /\ row.turns = wk[w].turns
    BY <1>1, <1>3, PlaceNames DEF Worker
  <2>2. wk' = [wk EXCEPT ![w] = row]
    BY <1>5
  <2> HIDE DEF row
  <2> QED BY <1>4, <1>5, <2>1, <2>2
<1>6. CASE \E e \in Resumable(wk[w].job) :
             /\ wk' = [wk EXCEPT ![w].at = Place(e[3]), ![w].step = e[2],
                                 ![w].ver = version[SessionOf[wk[w].job]]]
             /\ UNCHANGED status
  <2>1. PICK e \in Resumable(wk[w].job) :
          /\ wk' = [wk EXCEPT ![w].at = Place(e[3]), ![w].step = e[2],
                              ![w].ver = version[SessionOf[wk[w].job]]]
          /\ UNCHANGED status
    BY <1>6
  <2>2. e[2] \in Nat
    BY EffectFacts DEF Resumable, Approved, Of
  <2>3. Place(e[3]) \in {"loop", "tools"}
    BY DEF Place
  <2> DEFINE row == [wk[w] EXCEPT !.at = Place(e[3]), !.step = e[2],
                                  !.ver = version[SessionOf[wk[w].job]]]
  <2>4. row \in Worker /\ row.at # "idle" /\ row.job = wk[w].job /\ row.turns = wk[w].turns
    BY <1>1, <1>3, <2>2, <2>3, PlaceNames DEF Worker
  <2>5. wk' = [wk EXCEPT ![w] = row]
    BY <2>1
  <2> HIDE DEF row
  <2> QED BY <1>4, <2>1, <2>4, <2>5
<1>7. CASE GiveUp(w, "uncertain")
  BY <1>1, <1>7, GiveUpCalm, PlaceNames DEF Kept, Numbers
<1> QED BY <1>5, <1>6, <1>7 DEF Enter

\* Neither does an answer of the provider or a tool.
LEMMA SucceedCalm ==
  ASSUME JobsTyped, NEW w \in Workers, Succeed(w)
  PROVE  JobsTyped' /\ Calm
<1>1. /\ wk[w].at \notin {"idle", "leaving"} /\ wk[w] \in Worker
      /\ UNCHANGED <<kind, context, version, deleted, epoch, gen, answers>>
  BY DEF Succeed, aclVars, outVars, JobsTyped
<1>2. CASE (Go(w, "answer") \/ Go(w, "tools")) /\ UNCHANGED status
  BY <1>1, <1>2, GoCalm, PlaceNames DEF Kept, Numbers
<1>3. CASE wk' = [wk EXCEPT ![w].at = "loop", ![w].step = @ + 1] /\ UNCHANGED status
  <2> DEFINE row == [wk[w] EXCEPT !.at = "loop", !.step = @ + 1]
  <2>1. wk[w].step + 1 \in Nat
    BY <1>1 DEF Worker
  <2>2. row \in Worker /\ row.at # "idle" /\ row.job = wk[w].job /\ row.turns = wk[w].turns
    BY <1>1, <2>1, PlaceNames DEF Worker
  <2>3. wk' = [wk EXCEPT ![w] = row]
    BY <1>3
  <2> HIDE DEF row
  <2> QED BY <1>1, <1>3, <2>2, <2>3 DEF JobsTyped, Numbers, Calm, StatusCalm, WorkersCalm
<1>4. CASE GiveUp(w, "uncertain")
  BY <1>1, <1>4, GiveUpCalm, PlaceNames DEF Kept, Numbers
<1> QED BY <1>2, <1>3, <1>4 DEF Succeed

\* Neither do dispatch and failure.
LEMMA GatewayCalm ==
  ASSUME JobsTyped, NEW w \in Workers, Dispatch(w) \/ Refused(w) \/ CallFails(w)
  PROVE  JobsTyped' /\ Calm
<1>1. /\ wk[w].at \notin {"idle", "leaving"}
      /\ UNCHANGED <<kind, context, version, deleted, epoch, gen, answers>>
  BY DEF Dispatch, Refused, CallFails, jobVars, aclVars, outVars
<1>2. CASE (Go(w, "calling") \/ Go(w, "using")) /\ UNCHANGED status
  BY <1>1, <1>2, GoCalm, PlaceNames DEF Kept, Numbers
<1>3. CASE GiveUp(w, "uncertain") \/ StoreFails(w)
  BY <1>1, <1>3, GiveUpCalm, PlaceNames DEF Kept, Numbers
<1> QED BY <1>2, <1>3 DEF Dispatch, Refused, CallFails, jobVars

\* A worker that leaves its conversation is calm.
LEMMA LeaveCalm ==
  ASSUME JobsTyped, NEW w \in Workers, Leave(w)
  PROVE  JobsTyped' /\ Calm
<1>1. wk' \in [Workers -> Worker] /\ wk'[w] = Idle /\ \A v \in Workers : v # w => wk'[v] = wk[v]
  BY RestTyped DEF Leave, LetGo, JobsTyped
<1> QED BY <1>1 DEF Leave, JobsTyped, Numbers, Calm, StatusCalm, WorkersCalm, jobVars, aclVars, outVars

\* The task waits for an approval and its worker no longer holds it.
LEMMA AskSafe ==
  ASSUME JobsTyped, Safe, NEW w \in Workers, Ask(w)
  PROVE  JobsTyped' /\ Safe' /\ UNCHANGED answers
<1>0. PICK t : t = wk[w].job
  OBVIOUS
<1>1. /\ wk[w].at \in {"loop", "tools"} /\ status[t] = "running" /\ Go(w, "leaving")
      /\ status' = [status EXCEPT ![t] = "awaiting"]
      /\ UNCHANGED <<kind, context, version, deleted, epoch, gen, answers>>
  BY <1>0 DEF Ask, Effect, MayBegin, EffectsAllowed, aclVars, outVars
<1>2. t \in Tasks /\ Holds(w, t)
  BY <1>0, <1>1 DEF Safe, Exclusive, Holds
<1>3. /\ wk' \in [Workers -> Worker] /\ wk'[w].at = "leaving" /\ wk'[w].job = wk[w].job
      /\ \A v \in Workers : v # w => wk'[v] = wk[v]
  BY <1>1, GoTyped, PlaceNames DEF JobsTyped
<1>4. JobsTyped'
  BY <1>1, <1>3 DEF JobsTyped, Numbers, Statuses, Live
<1>5. \A u \in Tasks : status'[u] = IF u = t THEN "awaiting" ELSE status[u]
  BY <1>1 DEF JobsTyped
<1>6. \A v \in Workers, u \in Tasks : Holds(v, u)' => v # w /\ Holds(v, u) /\ wk'[v] = wk[v]
  BY <1>3 DEF Holds
<1>7. \A v \in Workers : ~Holds(v, t)'
  BY <1>1, <1>2, <1>6 DEF Safe, Exclusive
<1>8. Exclusive'
  <2>1. \A a, b \in Tasks : SessionOf[a] = SessionOf[b]
          /\ {status'[a], status'[b]} \subseteq {"running", "awaiting"} => a = b
    BY <1>1, <1>5 DEF Safe, Exclusive
  <2>2. \A v, x \in Workers, u \in Tasks : Holds(v, u)' /\ Holds(x, u)' => v = x
    BY <1>5, <1>6 DEF Safe, Exclusive
  <2>3. \A v \in Workers : IF wk'[v].at = "idle" THEN wk'[v].job = 0 ELSE wk'[v].job \in Tasks
    BY <1>1, <1>3 DEF Safe, Exclusive
  <2>4. \A v \in Workers, u \in Tasks : Holds(v, u)' => status'[u] \in {"running"} \cup Finished
    BY <1>5, <1>6, <1>7 DEF Safe, Exclusive
  <2> QED BY <2>1, <2>2, <2>3, <2>4 DEF Exclusive
<1>9. Clean'
  <2>1. \A u \in deleted' : status'[u] \in Finished
    BY <1>1, <1>2, <1>5, PlaceNames DEF Safe, Clean, JobsTyped
  <2>2. \A v \in Workers, u \in Tasks :
          Holds(v, u)' /\ status'[u] = "running" => wk'[v].turns \cap deleted' = {}
    BY <1>1, <1>5, <1>6 DEF Safe, Clean
  <2> QED BY <1>1, <1>6, <2>1, <2>2 DEF Safe, Clean, InSession
<1>10. Once'
  BY <1>1, <1>2, <1>5 DEF Safe, Once
<1> QED BY <1>1, <1>4, <1>8, <1>9, <1>10 DEF Safe

\* The task of the approved request is queued again.
LEMMA ApproveSafe ==
  ASSUME JobsTyped, Safe, NEW e \in Effects, Approve(e)
  PROVE  JobsTyped' /\ Safe' /\ UNCHANGED answers
<1> DEFINE t == e[1]
<1>1. /\ t \in Tasks /\ status[t] = "awaiting" /\ status' = [status EXCEPT ![t] = "queued"]
      /\ UNCHANGED <<kind, context, version, deleted, epoch, gen, answers, wk>>
  BY EffectFacts DEF Approve, aclVars, outVars
<1>2. JobsTyped'
  BY <1>1 DEF JobsTyped, Numbers, Statuses, Live
<1>3. \A u \in Tasks : status'[u] = IF u = t THEN "queued" ELSE status[u]
  BY <1>1 DEF JobsTyped
<1> HIDE DEF t
<1>4. Exclusive'
  BY <1>1, <1>3, PlaceNames DEF Safe, Exclusive, Holds
<1>5. Clean'
  BY <1>1, <1>3, PlaceNames DEF Safe, Clean, Holds, InSession
<1>6. Once'
  BY <1>1, <1>3 DEF Safe, Once
<1> QED BY <1>1, <1>2, <1>4, <1>5, <1>6 DEF Safe

\* What expires fails the task that waited for it.
LEMMA CleanupCalm ==
  ASSUME JobsTyped, CleanupExpired
  PROVE  JobsTyped' /\ Calm
<1>1. \A st : Released(st) = st \/ (st \in Live /\ Released(st) \in Finished)
  BY PlaceNames DEF Released
<1>2. \A u \in Tasks : status'[u] = status[u] \/ status'[u] = Released(status[u])
  BY DEF CleanupExpired
<1>3. \A u \in Tasks : status'[u] \in Statuses
  BY <1>1, <1>2 DEF JobsTyped, Statuses
<1>4. status' \in [Tasks -> Statuses]
  BY <1>3 DEF CleanupExpired
<1>5. StatusCalm
  BY <1>1, <1>2 DEF StatusCalm
<1> QED BY <1>4, <1>5, AsideCalm DEF CleanupExpired, Kept, Numbers, aclVars, outVars

\* Every step of Policy keeps what is proved of the jobs.
LEMMA PolicySafe ==
  ASSUME JobsTyped, Safe, Continuations, [PNext]_pvars
  PROVE  JobsTyped' /\ Safe' /\ AnswersInTime
<1>1. ASSUME NEW w \in Workers, PolicyClaimDirect(w) PROVE JobsTyped' /\ Safe' /\ AnswersInTime
  BY <1>1, PolicyClaimSafe DEF AnswersInTime
<1>2. ASSUME NEW w \in Workers, LifeOf(w) PROVE JobsTyped' /\ Safe' /\ AnswersInTime
  BY <1>2, LifeSafe
<1>3. ASSUME NEW w \in Workers,
             Enter(w) \/ Succeed(w) \/ Dispatch(w) \/ Refused(w) \/ CallFails(w) \/ Leave(w)
      PROVE  JobsTyped' /\ Safe' /\ AnswersInTime
  <2>1. JobsTyped' /\ Calm
    BY <1>3, EnterCalm, SucceedCalm, GatewayCalm, LeaveCalm
  <2> QED BY <2>1, CalmSafe DEF Calm, AnswersInTime
<1>4. ASSUME NEW w \in Workers, Ask(w) PROVE JobsTyped' /\ Safe' /\ AnswersInTime
  BY <1>4, AskSafe DEF AnswersInTime
<1>5. CASE Others
  BY <1>5, OthersSafe
<1>6. ASSUME NEW e \in Effects, Approve(e) PROVE JobsTyped' /\ Safe' /\ AnswersInTime
  BY <1>6, ApproveSafe DEF AnswersInTime
<1>7. CASE CleanupExpired
  BY <1>7, CleanupCalm, CalmSafe DEF Calm, AnswersInTime
<1>8. CASE PolicyRestart
  BY <1>8, RestartCalm, CalmSafe DEF PolicyRestart, Calm, AnswersInTime
<1>9. ASSUME NEW t \in Tasks, PolicyDelete(t) PROVE JobsTyped' /\ Safe' /\ AnswersInTime
  BY <1>9, DeleteSafe DEF PolicyDelete, AnswersInTime
<1>10. CASE \/ \E e \in Effects : Revoke(e) \/ PassTime(e)
            \/ NextDay \/ UNCHANGED pvars
  <2>1. JobsTyped' /\ Calm
    BY <1>10 DEF Revoke, PassTime, NextDay, pvars, vars, jobVars, aclVars, outVars, JobsTyped,
       Numbers, Calm, StatusCalm, WorkersCalm
  <2> QED BY <2>1, CalmSafe DEF Calm, AnswersInTime
<1> QED BY <1>1, <1>2, <1>3, <1>4, <1>5, <1>6, <1>7, <1>8, <1>9, <1>10
        DEF PNext, PolicyLife, PolicyTalk

-----------------------------------------------------------------------------
(* What a continuation remembers.                                          *)

\* Only the policy's own delete hook comes with a deletion.
LEMMA NothingDeleted ==
  ASSUME [PNext]_pvars, ~\E t \in Tasks : PolicyDelete(t)
  PROVE  UNCHANGED deleted
<1> USE DEF aclVars
<1>1. ASSUME NEW w \in Workers, PolicyClaimDirect(w) PROVE UNCHANGED deleted
  BY <1>1 DEF PolicyClaimDirect, ClaimJob
<1>2. ASSUME NEW w \in Workers, LifeOf(w) PROVE UNCHANGED deleted
  BY <1>2 DEF LifeOf, ClaimNamed, Prepare, Start, Seal, Complete, CompleteNamed, Answered
<1>3. ASSUME NEW w \in Workers, PolicyTalk(w) PROVE UNCHANGED deleted
  BY <1>3 DEF PolicyTalk, Enter, Ask, Leave, Dispatch, Refused, Succeed, CallFails
<1>4. CASE Others
  BY <1>4 DEF Others, QueueDirect, QueueNamed, Queue, CancelJob, CancelNamedTask, Cancelled,
     DropChunk, ReadProgress, CreateParticipant, CreateNamedAgent, AttachNamedAgent, Exclude,
     Readmit, SubmitCommit, ConfirmCommit
<1>5. CASE PolicyRestart \/ CleanupExpired \/ NextDay \/ UNCHANGED pvars
  BY <1>5 DEF PolicyRestart, Restart, CleanupExpired, NextDay, pvars, vars
<1>6. ASSUME NEW e \in Effects, Approve(e) \/ Revoke(e) \/ PassTime(e) PROVE UNCHANGED deleted
  BY <1>6 DEF Approve, Revoke, PassTime, vars
<1> QED BY <1>1, <1>2, <1>3, <1>4, <1>5, <1>6 DEF PNext, PolicyLife

\* The turns of a running conversation are what an effect saves.
LEMMA SavedTurns ==
  ASSUME JobsTyped, Safe, NEW w \in Workers, wk[w].at \in {"loop", "tools"}, MayBegin(w)
  PROVE  /\ wk[w].turns \subseteq InSession(SessionOf[wk[w].job]) /\ wk[w].turns \cap deleted = {}
         /\ wk[w].turns \subseteq Tasks /\ wk[w].job \in Tasks
<1>1. wk[w].job \in Tasks /\ status[wk[w].job] = "running" /\ Holds(w, wk[w].job)
  BY DEF Safe, Exclusive, MayBegin, EffectsAllowed, Holds
<1>2. wk[w].turns \subseteq InSession(SessionOf[wk[w].job]) /\ wk[w].turns \cap deleted = {}
  BY <1>1 DEF Safe, Clean
<1> QED BY <1>1, <1>2 DEF InSession

\* No step leaves a continuation of a deleted message.
LEMMA ContinuationsKept ==
  ASSUME JobsTyped, Safe, Continuations, [PNext]_pvars
  PROVE  Continuations'
<1>1. CASE UNCHANGED <<saved, deleted>>
  BY <1>1 DEF Continuations, InSession
<1>2. ASSUME NEW w \in Workers, Ask(w) \/ Dispatch(w) PROVE Continuations'
  <2>1. PICK e, turns : e = Effect(w) /\ turns = wk[w].turns
    OBVIOUS
  <2>2. /\ wk[w].at \in {"loop", "tools"} /\ MayBegin(w) /\ UNCHANGED deleted
    BY <1>2 DEF Ask, Dispatch, aclVars
  <2>3. /\ turns \subseteq InSession(SessionOf[e[1]]) /\ turns \cap deleted = {} /\ turns \subseteq Tasks
    BY <2>1, <2>2, SavedTurns DEF Effect
  <2>4. UNCHANGED saved \/ saved' = [saved EXCEPT ![e] = turns]
    <3>1. CASE Ask(w)
      BY <2>1, <3>1 DEF Ask
    <3>2. CASE Dispatch(w)
      BY <2>1, <3>2 DEF Dispatch, Continuations
    <3> QED BY <1>2, <3>1, <3>2
  <2>5. CASE saved' = [saved EXCEPT ![e] = turns]
    <3>1. \A x \in Effects : saved'[x] = IF x = e THEN turns ELSE saved[x]
      BY <2>5 DEF Continuations
    <3> QED BY <2>2, <2>3, <2>5, <3>1 DEF Continuations, InSession
  <2> QED BY <1>1, <2>2, <2>4, <2>5
<1>3. CASE CleanupExpired
  <2>1. UNCHANGED deleted
    BY <1>3 DEF CleanupExpired, aclVars
  <2>2. \A e \in Effects : saved'[e] \in {{}, saved[e]}
    BY <1>3 DEF CleanupExpired, Scrub
  <2>3. saved' \in [Effects -> SUBSET Tasks]
    BY <1>3, <2>2 DEF CleanupExpired, Scrub, Continuations
  <2> QED BY <2>1, <2>2, <2>3 DEF Continuations, InSession
<1>4. ASSUME NEW d \in Tasks, PolicyDelete(d) PROVE Continuations'
  <2>1. Scrub(Scrubbed(d)) /\ deleted' = deleted \cup {d}
    BY <1>4 DEF PolicyDelete, Delete, DeleteDirect, DeleteNamed, Deleted
  <2>2. SessionOf[d] \in ChatOf(d)
    BY TaskFacts DEF ChatOf
  <2>3. ASSUME NEW e \in Effects
        PROVE  saved'[e] \subseteq InSession(SessionOf[e[1]]) /\ saved'[e] \cap deleted' = {}
    <3>1. CASE e \in Scrubbed(d)
      BY <2>1, <3>1 DEF Scrub
    <3>2. CASE e \notin Scrubbed(d)
      <4>1. saved'[e] = saved[e]
        BY <2>1, <3>2 DEF Scrub
      <4>2. d \notin InSession(SessionOf[e[1]])
        BY <2>2, <3>2 DEF Scrubbed, InSession
      <4> QED BY <2>1, <4>1, <4>2 DEF Continuations
    <3> QED BY <3>1, <3>2
  <2>4. saved' \in [Effects -> SUBSET Tasks]
    BY <2>1 DEF Scrub, Continuations
  <2> QED BY <2>3, <2>4 DEF Continuations, InSession
<1>5. CASE /\ ~\E w \in Workers : Ask(w) \/ Dispatch(w)
           /\ ~CleanupExpired /\ ~\E t \in Tasks : PolicyDelete(t)
  <2>1. UNCHANGED saved
    BY <1>5 DEF PNext, PolicyLife, PolicyClaimDirect, PolicyTalk, Enter, Leave, Refused, Succeed,
       CallFails, Approve, Revoke, PassTime, NextDay, PolicyRestart, pvars, polVars, reqVars
  <2> QED BY <1>1, <1>5, <2>1, NothingDeleted
<1> QED BY <1>2, <1>3, <1>4, <1>5

\* Both hold initially.
LEMMA PInitSafe ==
  ASSUME PInit
  PROVE  JobsTyped /\ Safe /\ Continuations
<1>1. JobsTyped /\ Safe
  BY InitSafe DEF PInit
<1>2. Continuations
  BY DEF PInit, Continuations
<1> QED BY <1>1, <1>2

\* The invariant of the jobs under the policy, and of what waits for approvals.
THEOREM PolicySafeHolds == PSpec => [](JobsTyped /\ Safe /\ Continuations)
<1>1. PInit => JobsTyped /\ Safe /\ Continuations
  BY PInitSafe
<1>2. JobsTyped /\ Safe /\ Continuations /\ [PNext]_pvars => (JobsTyped /\ Safe /\ Continuations)'
  BY PolicySafe, ContinuationsKept
<1> QED BY <1>1, <1>2, PTL DEF PSpec

\* ContinuationsForgotten: no saved continuation holds a deleted message.
THEOREM ContinuationsForgottenHolds == PSpec => []ContinuationsForgotten
<1>1. Continuations => ContinuationsForgotten
  BY DEF Continuations, ContinuationsForgotten
<1> QED BY <1>1, PolicySafeHolds, PTL

\* The steps of the policy are tidy too: a task that waits stays in the map until its
\* worker has left, and is not claimed before.
LEMMA PolicyMapped ==
  ASSUME JobsTyped, Safe, Mapped, [PNext]_pvars
  PROVE  Mapped'
<1>1. ASSUME NEW w \in Workers, PolicyClaimDirect(w) PROVE Tidy
  BY <1>1, ClaimJobTidy DEF PolicyClaimDirect
<1>2. ASSUME NEW w \in Workers, PolicyTalk(w) PROVE Tidy
  <2>0. wk[w] \in Worker /\ {"loop", "tools", "calling", "using", "leaving"} \subseteq Places \ Silent
    BY PlaceNames DEF JobsTyped, Silent
  <2>1. CASE Enter(w)
    <3> DEFINE n == version[SessionOf[wk[w].job]]
    <3>1. CASE wk' = [wk EXCEPT ![w].at = "loop", ![w].ver = n] /\ UNCHANGED active
      <4> DEFINE row == [wk[w] EXCEPT !.at = "loop", !.ver = n]
      <4>1. row.at = "loop" /\ row.job = wk[w].job /\ wk' = [wk EXCEPT ![w] = row]
        BY <2>0, <3>1 DEF Worker
      <4> HIDE DEF row
      <4> QED BY <2>0, <2>1, <4>1, <3>1, RowTidy DEF Enter, At, Silent
    <3>2. CASE /\ \E e \in Resumable(wk[w].job) :
                    wk' = [wk EXCEPT ![w].at = Place(e[3]), ![w].step = e[2], ![w].ver = n]
               /\ UNCHANGED active
      <4>1. PICK e \in Resumable(wk[w].job) :
              wk' = [wk EXCEPT ![w].at = Place(e[3]), ![w].step = e[2], ![w].ver = n]
        BY <3>2
      <4> DEFINE row == [wk[w] EXCEPT !.at = Place(e[3]), !.step = e[2], !.ver = n]
      <4>2. row.at \in {"loop", "tools"} /\ row.job = wk[w].job /\ wk' = [wk EXCEPT ![w] = row]
        BY <2>0, <4>1 DEF Worker, Place
      <4> HIDE DEF row
      <4> QED BY <2>0, <2>1, <4>2, <3>2, RowTidy DEF Enter, At, Silent
    <3>3. CASE LetGo(w)
      BY <2>1, <3>3, GiveUpTidy DEF Enter, At
    <3> QED BY <2>1, <3>1, <3>2, <3>3 DEF Enter, GiveUp
  <2>2. CASE Ask(w) \/ Dispatch(w)
    <3>1. /\ wk[w].at \in {"loop", "tools"} /\ UNCHANGED active
          /\ Go(w, "leaving") \/ Go(w, "calling") \/ Go(w, "using")
      BY <2>2 DEF Ask, Dispatch
    <3> QED BY <2>0, <3>1, GoTidy
  <2>3. CASE Leave(w)
    BY <2>3, GiveUpTidy DEF Leave, At
  <2>4. CASE Refused(w) \/ CallFails(w)
    <3>1. wk[w].at # "idle" /\ LetGo(w)
      BY <2>4 DEF Refused, CallFails, GiveUp, StoreFails
    <3> QED BY <3>1, GiveUpTidy
  <2>5. CASE Succeed(w)
    <3>0. wk[w].at \in {"calling", "using"}
      BY <2>5 DEF Succeed
    <3>1. CASE Go(w, "answer") /\ active' = active \ {wk[w].job}
      <4> DEFINE row == [wk[w] EXCEPT !.at = "answer"]
      <4>1. row.at = "answer" /\ row.job = wk[w].job /\ wk' = [wk EXCEPT ![w] = row]
        BY <2>0, <3>1 DEF Worker, Go
      <4> HIDE DEF row
      <4> QED BY <2>0, <3>0, <3>1, <4>1, RowTidy DEF Silent
    <3>2. CASE Go(w, "tools") /\ UNCHANGED active
      BY <2>0, <3>0, <3>2, GoTidy
    <3>3. CASE wk' = [wk EXCEPT ![w].at = "loop", ![w].step = @ + 1] /\ UNCHANGED active
      <4> DEFINE row == [wk[w] EXCEPT !.at = "loop", !.step = @ + 1]
      <4>1. row.at = "loop" /\ row.job = wk[w].job /\ wk' = [wk EXCEPT ![w] = row]
        BY <2>0, <3>3 DEF Worker
      <4> HIDE DEF row
      <4> QED BY <2>0, <3>0, <3>3, <4>1, RowTidy
    <3>4. CASE LetGo(w)
      BY <3>0, <3>4, GiveUpTidy
    <3> QED BY <2>5, <3>1, <3>2, <3>3, <3>4 DEF Succeed, GiveUp
  <2> QED BY <1>2, <2>1, <2>2, <2>3, <2>4, <2>5 DEF PolicyTalk
<1>3. ASSUME \/ \E e \in Effects : Approve(e) \/ Revoke(e) \/ PassTime(e)
             \/ NextDay \/ CleanupExpired \/ UNCHANGED pvars
      PROVE  Tidy
  BY <1>3 DEF Approve, Revoke, PassTime, NextDay, CleanupExpired, pvars, vars, Tidy
<1>4. ASSUME Others \/ PolicyRestart \/ \E t \in Tasks : PolicyDelete(t) PROVE Tidy
  BY <1>4, AsideTidy DEF PolicyDelete, PolicyRestart
<1>5. ASSUME NEW w \in Workers, PolicyLife(w) PROVE Tidy
  BY <1>1, <1>2, <1>5, LifeTidy DEF PolicyLife
<1>6. Tidy
  BY <1>3, <1>4, <1>5 DEF PNext
<1> QED BY <1>6, TidyMapped

\* One owner of a session, and no context with a deleted message, also with
\* conversations that wait for approvals and are resumed.
THEOREM PolicyJobsHold == PSpec => [](OneAtATime /\ Forgotten)
<1>1. PInit => Mapped
  BY InitMapped DEF PInit
<1>2. Mapped /\ JobsTyped /\ Safe /\ [PNext]_pvars => Mapped'
  BY PolicyMapped
<1>3. JobsTyped /\ Safe /\ Mapped => OneAtATime /\ Forgotten
  BY OneOwner DEF Safe, Clean, Forgotten
<1> QED BY <1>1, <1>2, <1>3, PolicySafeHolds, PTL DEF PSpec

-----------------------------------------------------------------------------
(* What is handed to the network.                                          *)

\* A worker that comes to a call has dispatched an effect; steps are counted up to
\* MaxSteps only.
Steps == 0..(MaxSteps - 1)
NoNewCall == \A v \in Workers :
  /\ wk'[v].at \in {"calling", "using"} => wk'[v] = wk[v]
  /\ wk'[v].step \in {wk[v].step} \cup Steps

\* The first step is one of them.
LEMMA IdleStep == Idle.at = "idle" /\ Idle.step = 0 /\ 0 \in Steps
  BY TasksAssumption DEF Idle, Steps

\* A worker that goes elsewhere calls nothing new.
LEMMA MovedElsewhere ==
  ASSUME JobsTyped, NEW w \in Workers, NEW row, row.at \notin {"calling", "using"},
         row.step \in {wk[w].step} \cup Steps, wk' = [wk EXCEPT ![w] = row]
  PROVE  NoNewCall
<1>1. \A v \in Workers : wk'[v] = IF v = w THEN row ELSE wk[v]
  BY DEF JobsTyped
<1> QED BY <1>1 DEF NoNewCall

\* A worker that rests calls nothing new.
LEMMA RestElsewhere ==
  ASSUME JobsTyped, NEW w \in Workers, Rest(w)
  PROVE  NoNewCall
  BY IdleStep, MovedElsewhere DEF Rest

\* Moving on is no new call.
LEMMA GoElsewhere ==
  ASSUME JobsTyped, NEW w \in Workers, NEW p \in Places \ {"calling", "using"}, Go(w, p)
  PROVE  NoNewCall
<1>1. wk[w] \in Worker
  BY DEF JobsTyped
<1>2. [wk[w] EXCEPT !.at = p].at = p /\ [wk[w] EXCEPT !.at = p].step = wk[w].step
  BY <1>1 DEF Worker
<1> QED BY <1>2, MovedElsewhere DEF Go

\* Giving up is no new call.
LEMMA GiveUpElsewhere ==
  ASSUME JobsTyped, NEW w \in Workers, (\E new \in Finished : GiveUp(w, new)) \/ StoreFails(w)
  PROVE  NoNewCall
  BY RestElsewhere DEF GiveUp, StoreFails, LetGo

\* Claiming or completing a task is no new call.
LEMMA LifeElsewhere ==
  ASSUME JobsTyped, NEW w \in Workers, LifeOf(w) \/ \E t \in Tasks : \E turns : ClaimJob(w, t, turns)
  PROVE  NoNewCall
<1>1. wk[w] \in Worker
  BY DEF JobsTyped
<1>2. CASE ClaimNamed(w)
  <2>1. PICK t \in Tasks : wk' = [wk EXCEPT ![w] = [Idle EXCEPT !.at = "claimed", !.job = t]]
    BY <1>2 DEF ClaimNamed, First
  <2> DEFINE row == [Idle EXCEPT !.at = "claimed", !.job = t]
  <2>2. row.at = "claimed" /\ row.step = 0
    BY DEF Idle
  <2> HIDE DEF row
  <2> QED BY <2>1, <2>2, IdleStep, MovedElsewhere DEF row
<1>3. CASE Prepare(w)
  <2>1. CASE GiveUp(w, "failed") \/ StoreFails(w)
    BY <2>1, GiveUpElsewhere, PlaceNames
  <2>2. CASE ~(GiveUp(w, "failed") \/ StoreFails(w))
    <3> DEFINE row(t) == [wk[w] EXCEPT !.at = "ready", !.ver = version[SessionOf[t]],
                                       !.epoch = epoch, !.turns = context[SessionOf[t]] \cup {t}]
    <3>1. row(wk[w].job).at = "ready" /\ row(wk[w].job).step = wk[w].step
      BY <1>1 DEF Worker
    <3>2. wk' = [wk EXCEPT ![w] = row(wk[w].job)]
      BY <1>3, <2>2 DEF Prepare
    <3> HIDE DEF row
    <3> QED BY <3>1, <3>2, MovedElsewhere
  <2> QED BY <2>1, <2>2
<1>4. CASE Start(w)
  BY <1>4, GoElsewhere, GiveUpElsewhere, PlaceNames DEF Start
<1>5. CASE Seal(w)
  <2>1. /\ [wk[w] EXCEPT !.at = "commit", !.gen = gen].at = "commit"
        /\ [wk[w] EXCEPT !.at = "commit", !.gen = gen].step = wk[w].step
    BY <1>1 DEF Worker
  <2>2. \/ wk' = [wk EXCEPT ![w] = [wk[w] EXCEPT !.at = "commit", !.gen = gen]]
        \/ GiveUp(w, "failed")
    BY <1>5 DEF Seal
  <2> QED BY <2>1, <2>2, MovedElsewhere, GiveUpElsewhere, PlaceNames
<1>6. CASE Complete(w) \/ CompleteNamed(w)
  BY <1>6, RestElsewhere DEF Complete, CompleteNamed, Answered
<1>7. ASSUME NEW t \in Tasks, NEW turns, ClaimJob(w, t, turns) PROVE NoNewCall
  <2> DEFINE row == [Idle EXCEPT !.at = "ready", !.job = t, !.epoch = epoch, !.turns = turns]
  <2>1. row.at = "ready" /\ row.step = 0
    BY DEF Idle
  <2>2. UNCHANGED wk \/ wk' = [wk EXCEPT ![w] = row]
    BY <1>7 DEF ClaimJob
  <2> HIDE DEF row
  <2>3. CASE UNCHANGED wk
    BY <2>3 DEF NoNewCall
  <2> QED BY <2>1, <2>2, <2>3, IdleStep, MovedElsewhere
<1> QED BY <1>2, <1>3, <1>4, <1>5, <1>6, <1>7 DEF LifeOf

\* Asking and reading what was answered is no new call.
LEMMA TalkElsewhere ==
  ASSUME JobsTyped, NEW w \in Workers,
         Enter(w) \/ Ask(w) \/ Leave(w) \/ Refused(w) \/ Succeed(w) \/ CallFails(w)
  PROVE  NoNewCall
<1>1. wk[w] \in Worker
  BY DEF JobsTyped
<1>2. CASE GiveUp(w, "uncertain") \/ StoreFails(w) \/ Rest(w)
  BY <1>2, GiveUpElsewhere, RestElsewhere, PlaceNames
<1>3. CASE Go(w, "answer") \/ Go(w, "tools") \/ Go(w, "leaving")
  BY <1>3, GoElsewhere, PlaceNames
<1>4. ASSUME NEW place \in {"loop", "tools"}, NEW step \in Steps, NEW ver,
             wk' = [wk EXCEPT ![w] = [wk[w] EXCEPT !.at = place, !.step = step, !.ver = ver]]
      PROVE  NoNewCall
  <2>1. /\ [wk[w] EXCEPT !.at = place, !.step = step, !.ver = ver].at = place
        /\ [wk[w] EXCEPT !.at = place, !.step = step, !.ver = ver].step = step
    BY <1>1 DEF Worker
  <2> QED BY <1>4, <2>1, MovedElsewhere
<1>5. CASE Enter(w)
  <2>1. CASE wk' = [wk EXCEPT ![w].at = "loop", ![w].ver = version[SessionOf[wk[w].job]]]
    <3> DEFINE row == [wk[w] EXCEPT !.at = "loop", !.ver = version[SessionOf[wk[w].job]]]
    <3>1. row.at = "loop" /\ row.step = wk[w].step
      BY <1>1 DEF Worker
    <3>2. wk' = [wk EXCEPT ![w] = row]
      BY <2>1
    <3> HIDE DEF row
    <3> QED BY <3>1, <3>2, MovedElsewhere
  <2>2. CASE \E e \in Resumable(wk[w].job) :
               wk' = [wk EXCEPT ![w].at = Place(e[3]), ![w].step = e[2],
                                ![w].ver = version[SessionOf[wk[w].job]]]
    <3>1. PICK e \in Resumable(wk[w].job) :
               wk' = [wk EXCEPT ![w] = [wk[w] EXCEPT !.at = Place(e[3]), !.step = e[2],
                                                     !.ver = version[SessionOf[wk[w].job]]]]
      BY <2>2
    <3>2. Place(e[3]) \in {"loop", "tools"}
      BY DEF Place
    <3>3. e \in Effects
      BY DEF Resumable, Approved, Of
    <3>4. e[2] \in Steps
      BY <3>3 DEF Effects, Steps
    <3> QED BY <1>4, <3>1, <3>2, <3>4
  <2> QED BY <1>2, <1>5, <2>1, <2>2 DEF Enter
<1>6. CASE wk' = [wk EXCEPT ![w].at = "loop", ![w].step = @ + 1] /\ wk[w].step + 1 < MaxSteps
  <2> DEFINE row == [wk[w] EXCEPT !.at = "loop", !.step = @ + 1]
  <2>1. row.at = "loop" /\ row.step = wk[w].step + 1
    BY <1>1 DEF Worker
  <2>2. wk' = [wk EXCEPT ![w] = row]
    BY <1>6
  <2>3. wk[w].step \in Nat /\ MaxSteps \in Nat
    BY <1>1, TasksAssumption DEF Worker
  <2>4. row.step \in Steps
    BY <1>6, <2>1, <2>3 DEF Steps
  <2> HIDE DEF row
  <2> QED BY <2>1, <2>2, <2>4, MovedElsewhere
<1> QED BY <1>2, <1>3, <1>5, <1>6 DEF Ask, Leave, LetGo, Refused, Succeed, CallFails

\* Nothing outside the workers is a new call.
LEMMA AsideElsewhere ==
  ASSUME JobsTyped, \/ Others \/ Restart \/ NextDay \/ CleanupExpired \/ UNCHANGED pvars
                    \/ \E t \in Tasks : Delete(t)
                    \/ \E e \in Effects : Approve(e) \/ Revoke(e) \/ PassTime(e)
  PROVE  NoNewCall
<1>1. CASE Restart
  BY <1>1, IdleStep DEF Restart, NoNewCall
<1>2. CASE ~Restart
  <2>1. UNCHANGED wk
    BY <1>2 DEF Others, QueueDirect, QueueNamed, Queue, CancelJob, CancelNamedTask, Cancelled,
       DropChunk, ReadProgress, CreateParticipant, CreateNamedAgent, AttachNamedAgent, Exclude,
       Readmit, SubmitCommit, ConfirmCommit, NextDay, CleanupExpired, pvars, vars, Delete,
       DeleteDirect, DeleteNamed, Deleted, Approve, Revoke, PassTime
  <2> QED BY <2>1 DEF NoNewCall
<1> QED BY <1>1, <1>2

\* A request that is out was sent once and stays out; one that is not was never
\* sent; only effects that need an approval have a nonce to revoke; a worker in a
\* call waits for a request that is out; and its step is one there is.
ReqStates == {"none", "expired", "cancelled"} \cup Open \cup Out
Requests ==
  /\ req \in [Effects -> ReqStates] /\ sent \in [Effects -> Nat]
  /\ \A e \in Effects : IF req[e] \in Out THEN sent[e] = 1 ELSE sent[e] = 0
  /\ \A e \in revoked : e \in Effects /\ e[3] \in Required
  /\ \A w \in Workers :
       wk[w].at \in {"calling", "using"} /\ Effect(w) \in Effects => req[Effect(w)] \in Out
  /\ \A w \in Workers : wk[w].step \in Steps

\* A step that sends nothing.
Unsent ==
  /\ UNCHANGED sent /\ req' \in [Effects -> ReqStates]
  /\ \A e \in Effects : req'[e] \in Out <=> req[e] \in Out
  /\ \A e \in revoked' \ revoked : e \in Effects /\ e[3] \in Required
  /\ revoked \subseteq revoked'
  /\ \A e \in Effects : req'[e] = "dispatched" => req[e] = "dispatched"

\* What RevokedNeverSent says of a step.
RevokedKept == \A e \in revoked : req[e] \notin Out => req'[e] \notin Out

\* Steps that send nothing keep requests and revocations in order.
LEMMA UnsentRequests ==
  ASSUME Requests, Unsent, NoNewCall
  PROVE  Requests' /\ RevokedKept
<1>1. ASSUME NEW w \in Workers, wk'[w].at \in {"calling", "using"}, Effect(w)' \in Effects
      PROVE  req'[Effect(w)'] \in Out
  <2>1. wk'[w] = wk[w]
    BY <1>1 DEF NoNewCall
  <2>2. Effect(w)' = Effect(w)
    BY <2>1 DEF Effect
  <2>3. req[Effect(w)] \in Out
    BY <1>1, <2>1, <2>2 DEF Requests
  <2> QED BY <1>1, <2>2, <2>3 DEF Unsent
<1>2. RevokedKept
  BY DEF RevokedKept, Requests, Unsent
<1>3. \A e \in Effects : IF req'[e] \in Out THEN sent'[e] = 1 ELSE sent'[e] = 0
  BY DEF Requests, Unsent
<1>4. req' \in [Effects -> ReqStates] /\ sent' \in [Effects -> Nat]
  BY DEF Requests, Unsent
<1>5. \A e \in revoked' : e \in Effects /\ e[3] \in Required
  BY DEF Requests, Unsent
<1>6. \A w \in Workers : wk'[w].step \in Steps
  BY DEF Requests, NoNewCall
<1> QED BY <1>1, <1>2, <1>3, <1>4, <1>5, <1>6 DEF Requests

\* The states of requests, spelled out.
LEMMA ReqNames ==
  /\ Out = {"dispatched", "uncertain", "completed"} /\ Open = {"awaiting", "approved"}
  /\ ReqStates = {"none", "expired", "cancelled", "awaiting", "approved", "dispatched",
                  "uncertain", "completed"}
  BY DEF Out, Open, ReqStates

\* Steps that do not touch requests send nothing.
LEMMA PolUnchanged ==
  ASSUME Requests, UNCHANGED <<req, revoked, sent>>
  PROVE  Unsent
  BY DEF Requests, Unsent

\* One request moves between states of which both or neither are out.
LEMMA ReqMoved ==
  ASSUME Requests, UNCHANGED <<revoked, sent>>, NEW e, NEW new \in ReqStates \ {"dispatched"},
         e \in Effects => (req[e] \in Out <=> new \in Out),
         req' = [req EXCEPT ![e] = new]
  PROVE  Unsent
<1>1. \A x \in Effects : req'[x] = IF x = e THEN new ELSE req[x]
  BY DEF Requests
<1> QED BY <1>1 DEF Requests, Unsent

\* Storing or settling a request sends nothing.
LEMMA SettledUnsent ==
  ASSUME JobsTyped, Requests, NEW w \in Workers, Ask(w) \/ Succeed(w) \/ CallFails(w)
  PROVE  Unsent
<1>1. UNCHANGED <<revoked, sent>>
  BY DEF Ask, Succeed, CallFails
<1>2. CASE Ask(w)
  <2>1. req' = [req EXCEPT ![Effect(w)] = "awaiting"] /\ req[Effect(w)] = "none"
    BY <1>2 DEF Ask
  <2> QED BY <1>1, <2>1, ReqMoved, ReqNames
<1>3. CASE \E cost \in Costs \cup {ToolCost} : Settle(w, cost)
  <2>1. req' = [req EXCEPT ![Effect(w)] = "completed"] /\ req[Effect(w)] = "dispatched"
    BY <1>3 DEF Settle
  <2> QED BY <1>1, <2>1, ReqMoved, ReqNames
<1>4. CASE Unsettled(w) /\ wk[w].at \in {"calling", "using"}
  <2>1. req' = [req EXCEPT ![Effect(w)] = "uncertain"]
    BY <1>4 DEF Unsettled
  <2>2. Effect(w) \in Effects => req[Effect(w)] \in Out
    BY <1>4 DEF Requests
  <2> QED BY <1>1, <2>1, <2>2, ReqMoved, ReqNames
<1>5. CASE UNCHANGED req
  BY <1>1, <1>5, PolUnchanged
<1> QED BY <1>2, <1>3, <1>4, <1>5 DEF Succeed, CallFails

\* Closing requests sends nothing.
LEMMA ClosedUnsent ==
  ASSUME Requests, UNCHANGED <<revoked, sent>>, NEW es,
         NEW new \in ReqStates \ {"dispatched"}, Close(es, new),
         \A e \in es \cap Effects : req[e] \in Out <=> new \in Out
  PROVE  Unsent
<1>1. \A x \in Effects : req'[x] = IF x \in es THEN new ELSE req[x]
  BY DEF Close
<1>2. req' \in [Effects -> ReqStates]
  BY <1>1 DEF Close, Requests
<1> QED BY <1>1, <1>2 DEF Requests, Unsent

\* Approval, revocation, time, deletion, cleanup and restart send nothing.
LEMMA BackendUnsent ==
  ASSUME Requests,
         \/ CleanupExpired \/ PolicyRestart \/ NextDay \/ \E t \in Tasks : PolicyDelete(t)
         \/ \E e \in Effects : Approve(e) \/ Revoke(e) \/ PassTime(e)
  PROVE  Unsent
<1>1. CASE CleanupExpired
  <2> DEFINE gone == {e \in overdue : req[e] \in Open}
  <2>1. Close(gone, "expired") /\ UNCHANGED <<revoked, sent>>
    BY <1>1 DEF CleanupExpired
  <2>2. \A e \in gone : req[e] \notin Out
    BY ReqNames
  <2> HIDE DEF gone
  <2> QED BY <2>1, <2>2, ClosedUnsent, ReqNames
<1>2. CASE PolicyRestart
  <2>1. \A e \in Unknown : req[e] \in Out
    BY ReqNames DEF Unknown
  <2> QED BY <1>2, <2>1, ClosedUnsent, ReqNames DEF PolicyRestart
<1>3. ASSUME NEW t \in Tasks, PolicyDelete(t) PROVE Unsent
  <2> DEFINE open == {e \in Effects : SessionOf[e[1]] \in ChatOf(t) /\ req[e] \in Open}
  <2>1. Close(open, "cancelled") /\ UNCHANGED <<revoked, sent>>
    BY <1>3 DEF PolicyDelete
  <2>2. \A e \in open : req[e] \notin Out
    BY ReqNames
  <2> HIDE DEF open
  <2> QED BY <2>1, <2>2, ClosedUnsent, ReqNames
<1>4. ASSUME NEW e \in Effects, Approve(e) PROVE Unsent
  BY <1>4, ReqMoved, ReqNames DEF Approve, Approvable
<1>5. ASSUME NEW e \in Effects, Revoke(e) PROVE Unsent
  BY <1>5 DEF Revoke, moneyVars, Requests, Unsent
<1>6. CASE NextDay \/ \E e \in Effects : PassTime(e)
  BY <1>6, PolUnchanged DEF NextDay, PassTime, reqVars
<1> QED BY <1>1, <1>2, <1>3, <1>4, <1>5, <1>6

\* Only a request that is not out is dispatched; a required approval must not be
\* revoked then.
LEMMA DispatchRequests ==
  ASSUME JobsTyped, Requests, NEW w \in Workers, Dispatch(w)
  PROVE  Requests' /\ RevokedKept
<1>1. PICK e : e = Effect(w)
  OBVIOUS
<1>2. /\ wk[w].at \in {"loop", "tools"} /\ Dispatchable(e)
      /\ req' = [req EXCEPT ![e] = "dispatched"] /\ sent' = [sent EXCEPT ![e] = @ + 1]
      /\ Go(w, IF e[3] = "provider" THEN "calling" ELSE "using")
      /\ UNCHANGED revoked
  BY <1>1 DEF Dispatch
<1>3. req[e] \notin Out /\ (e[3] \in Required => e \notin revoked)
  BY <1>2, ReqNames DEF Dispatchable, Replayable, Granted
<1>4. \A x \in Effects : /\ req'[x] = IF x = e THEN "dispatched" ELSE req[x]
                         /\ sent'[x] = IF x = e THEN sent[x] + 1 ELSE sent[x]
  BY <1>2 DEF Requests
<1>5. req' \in [Effects -> ReqStates] /\ sent' \in [Effects -> Nat]
  <2>1. req' \in [Effects -> ReqStates]
    BY <1>2, ReqNames DEF Requests
  <2>2. \A x \in Effects : sent[x] + 1 \in Nat
    BY DEF Requests
  <2>3. sent' \in [Effects -> Nat]
    BY <1>2, <2>2 DEF Requests
  <2> QED BY <2>1, <2>3
<1>6. \A x \in Effects : IF req'[x] \in Out THEN sent'[x] = 1 ELSE sent'[x] = 0
  BY <1>3, <1>4, ReqNames DEF Requests
<1>7. \A x \in revoked' : x \in Effects /\ x[3] \in Required
  BY <1>2 DEF Requests
<1>8. RevokedKept
  BY <1>3, <1>4 DEF RevokedKept, Requests
<1>9. wk[w] \in Worker
  BY DEF JobsTyped
<1>10. e[3] = IF wk[w].at = "loop" THEN "provider" ELSE "tool"
  BY <1>1, <1>2 DEF Effect
<1> DEFINE place == IF e[3] = "provider" THEN "calling" ELSE "using"
<1>11. wk' = [wk EXCEPT ![w] = [wk[w] EXCEPT !.at = place]]
  BY <1>2 DEF Go
<1>12. /\ [wk[w] EXCEPT !.at = place].at = place
       /\ [wk[w] EXCEPT !.at = place].job = wk[w].job
       /\ [wk[w] EXCEPT !.at = place].step = wk[w].step
  BY <1>9 DEF Worker
<1>13. wk'[w].at = place /\ wk'[w].job = wk[w].job /\ wk'[w].step = wk[w].step
  BY <1>11, <1>12 DEF JobsTyped
<1>14. Effect(w)' = e
  BY <1>1, <1>2, <1>10, <1>13 DEF Effect
<1>15. ASSUME NEW v \in Workers, wk'[v].at \in {"calling", "using"}, Effect(v)' \in Effects
       PROVE  req'[Effect(v)'] \in Out
  <2>1. CASE v = w
    BY <1>4, <1>14, <1>15, <2>1, ReqNames
  <2>2. CASE v # w
    <3>1. wk'[v] = wk[v]
      BY <1>11, <2>2 DEF JobsTyped
    <3>2. Effect(v)' = Effect(v)
      BY <3>1 DEF Effect
    <3>3. req[Effect(v)] \in Out
      BY <1>15, <3>1, <3>2 DEF Requests
    <3> QED BY <1>4, <1>15, <3>2, <3>3, ReqNames
  <2> QED BY <2>1, <2>2
<1>16. \A v \in Workers : wk'[v].step \in Steps
  BY <1>11, <1>13 DEF Requests, JobsTyped
<1> QED BY <1>5, <1>6, <1>7, <1>8, <1>15, <1>16 DEF Requests

\* No step sends a request twice or after its revocation.
LEMMA RequestsKept ==
  ASSUME JobsTyped, Requests, [PNext]_pvars
  PROVE  Requests' /\ RevokedKept
<1>1. ASSUME NEW w \in Workers, Dispatch(w) PROVE Requests' /\ RevokedKept
  BY <1>1, DispatchRequests
<1>2. ASSUME NEW w \in Workers, PolicyClaimDirect(w) \/ (LifeOf(w) /\ UNCHANGED polVars)
      PROVE  Requests' /\ RevokedKept
  <2>1. NoNewCall
    BY <1>2, LifeElsewhere DEF PolicyClaimDirect, NextJobs, First
  <2>2. Unsent
    BY <1>2, PolUnchanged DEF PolicyClaimDirect, polVars, reqVars
  <2> QED BY <2>1, <2>2, UnsentRequests
<1>3. ASSUME NEW w \in Workers, Ask(w) \/ Succeed(w) \/ CallFails(w) PROVE Requests' /\ RevokedKept
  BY <1>3, TalkElsewhere, SettledUnsent, UnsentRequests
<1>4. ASSUME NEW w \in Workers, Enter(w) \/ Leave(w) \/ Refused(w) PROVE Requests' /\ RevokedKept
  <2>1. Unsent
    BY <1>4, PolUnchanged DEF Enter, Leave, Refused, polVars, reqVars
  <2> QED BY <1>4, <2>1, TalkElsewhere, UnsentRequests
<1>5. CASE (Others /\ UNCHANGED polVars) \/ UNCHANGED pvars
  <2>1. Unsent
    BY <1>5, PolUnchanged DEF pvars, polVars, reqVars
  <2> QED BY <1>5, <2>1, AsideElsewhere, UnsentRequests
<1>6. CASE \/ CleanupExpired \/ PolicyRestart \/ NextDay \/ \E t \in Tasks : PolicyDelete(t)
           \/ \E e \in Effects : Approve(e) \/ Revoke(e) \/ PassTime(e)
  <2>1. Unsent
    BY <1>6, BackendUnsent
  <2>2. NoNewCall
    BY <1>6, AsideElsewhere DEF PolicyRestart, PolicyDelete
  <2> QED BY <2>1, <2>2, UnsentRequests
<1> QED BY <1>1, <1>2, <1>3, <1>4, <1>5, <1>6 DEF PNext, PolicyLife, PolicyTalk

\* No request exists initially.
LEMMA PInitRequests ==
  ASSUME PInit
  PROVE  Requests
<1>1. \A e \in Effects : req[e] = "none" /\ sent[e] = 0
  BY DEF PInit
<1>2. req \in [Effects -> ReqStates] /\ sent \in [Effects -> Nat]
  BY ReqNames DEF PInit
<1>3. \A w \in Workers : wk[w].at = "idle" /\ wk[w].step \in Steps
  BY IdleStep DEF PInit, Init
<1> QED BY <1>1, <1>2, <1>3, ReqNames DEF Requests, PInit

\* SentOnce: an effect is handed to the network at most once.
THEOREM SentOnceHolds == PSpec => []SentOnce
<1>1. PInit => JobsTyped /\ Safe /\ Continuations /\ Requests
  BY PInitSafe, PInitRequests
<1>2. JobsTyped /\ Safe /\ Continuations /\ Requests /\ [PNext]_pvars
        => (JobsTyped /\ Safe /\ Continuations /\ Requests)'
  BY PolicySafe, ContinuationsKept, RequestsKept
<1>3. Requests => SentOnce
  BY DEF Requests, SentOnce
<1> QED BY <1>1, <1>2, <1>3, PTL DEF PSpec

\* RevokedNeverSent: once the nonce of an unsent effect is revoked, it stays unsent.
THEOREM RevokedNeverSentHolds == PSpec => RevokedNeverSent
<1>1. PInit => JobsTyped /\ Safe /\ Continuations /\ Requests
  BY PInitSafe, PInitRequests
<1>2. JobsTyped /\ Safe /\ Continuations /\ Requests /\ [PNext]_pvars
        => (JobsTyped /\ Safe /\ Continuations /\ Requests)'
  BY PolicySafe, ContinuationsKept, RequestsKept
<1>3. JobsTyped /\ Requests /\ [PNext]_pvars
        => [\A e \in revoked : req[e] \notin Out => req'[e] \notin Out]_pvars
  BY RequestsKept DEF RevokedKept
<1> QED BY <1>1, <1>2, <1>3, PTL DEF PSpec, RevokedNeverSent

-----------------------------------------------------------------------------
(* Sums.                                                                    *)

\* The pile of one element.
LEMMA PileOfOne ==
  ASSUME NEW e, NEW n \in Nat
  PROVE  IsFiniteSet({e} \X (1..n)) /\ Cardinality({e} \X (1..n)) = n
<1>1. n \in Int /\ 1 \in Int
  OBVIOUS
<1>2. /\ IsFiniteSet(1..n)
      /\ Cardinality(1..n) = IF 1 > n THEN 0 ELSE n - 1 + 1
  BY <1>1, FS_Interval
<1>3. Cardinality(1..n) = n
  BY <1>2
<1>4. IsFiniteSet({e}) /\ Cardinality({e}) = 1
  BY FS_Singleton
<1>5. IsFiniteSet({e} \X (1..n)) /\ Cardinality({e} \X (1..n)) = 1 * n
  BY <1>2, <1>3, <1>4, FS_Product
<1> QED BY <1>5

\* A finite set of finite piles is finite, and its sum a number.
LEMMA PileFinite ==
  ASSUME NEW es, IsFiniteSet(es), NEW amount, \A e \in es : amount[e] \in Nat
  PROVE  IsFiniteSet(Pile(es, amount)) /\ Total(es, amount) \in Nat
<1> DEFINE piles == {{e} \X (1..amount[e]) : e \in es}
<1> DEFINE of == [e \in es |-> {e} \X (1..amount[e])]
<1>1. of \in Surjection(es, piles)
  BY DEF Surjection
<1>2. IsFiniteSet(piles)
  <2> HIDE DEF of, piles
  <2> QED BY <1>1, FS_Surjection
<1>3. ASSUME NEW e \in es PROVE IsFiniteSet({e} \X (1..amount[e]))
  <2>1. PICK n \in Nat : n = amount[e]
    OBVIOUS
  <2> QED BY <2>1, PileOfOne
<1>4. \A T \in piles : IsFiniteSet(T)
  BY <1>3
<1>5. IsFiniteSet(UNION piles)
  <2> HIDE DEF piles
  <2> QED BY <1>2, <1>4, FS_UNION
<1>6. IsFiniteSet(Pile(es, amount))
  BY <1>5 DEF Pile
<1> QED BY <1>6, FS_CardinalityType DEF Total

\* The sum of nothing.
LEMMA TotalEmpty ==
  ASSUME NEW amount
  PROVE  Total({}, amount) = 0
<1>1. Pile({}, amount) = {}
  BY DEF Pile
<1> QED BY <1>1, FS_EmptySet DEF Total

\* One summand more.
LEMMA TotalAdd ==
  ASSUME NEW es, IsFiniteSet(es), NEW e, e \notin es, NEW amount,
         \A x \in es \cup {e} : amount[x] \in Nat
  PROVE  Total(es \cup {e}, amount) = Total(es, amount) + amount[e]
<1> DEFINE one == {e} \X (1..amount[e])
<1>1. PICK n \in Nat : n = amount[e]
  OBVIOUS
<1>4. IsFiniteSet(one) /\ Cardinality(one) = n
  BY <1>1, PileOfOne
<1>6. Pile(es \cup {e}, amount) = Pile(es, amount) \cup one
  BY DEF Pile
<1>7. Pile(es, amount) \cap one = {}
  BY DEF Pile
<1>8. IsFiniteSet(Pile(es, amount)) /\ Total(es, amount) \in Nat
  BY PileFinite
<1> HIDE DEF one
<1>9. PICK old, k : old = Pile(es, amount) /\ k = Cardinality(old)
  OBVIOUS
<1>10. IsFiniteSet(old) /\ k \in Nat /\ k = Total(es, amount)
  BY <1>8, <1>9 DEF Total
<1>11. Cardinality(old \cup one) = Cardinality(old) + Cardinality(one) - Cardinality(old \cap one)
  BY <1>4, <1>10, FS_Union
<1>12. Cardinality(old \cap one) = 0
  BY <1>7, <1>9, FS_EmptySet
<1>13. Cardinality(old \cup one) = k + n
  BY <1>4, <1>9, <1>10, <1>11, <1>12
<1>14. Total(es \cup {e}, amount) = Cardinality(old \cup one)
  BY <1>6, <1>9 DEF Total
<1> QED BY <1>1, <1>10, <1>13, <1>14

\* The sum depends on the amounts of its elements only.
LEMMA TotalSame ==
  ASSUME NEW es, NEW a, NEW b, \A x \in es : a[x] = b[x]
  PROVE  Total(es, a) = Total(es, b)
<1>1. Pile(es, a) = Pile(es, b)
  BY DEF Pile
<1> QED BY <1>1 DEF Total

\* One summand changes.
LEMMA TotalChange ==
  ASSUME NEW es, IsFiniteSet(es), NEW e \in es, NEW a, NEW b,
         \A x \in es : a[x] \in Nat /\ b[x] \in Nat, \A x \in es : x # e => a[x] = b[x]
  PROVE  \E rest \in Nat : Total(es, a) = rest + a[e] /\ Total(es, b) = rest + b[e]
<1>1. PICK others : others = es \ {e}
  OBVIOUS
<1>2. es = others \cup {e} /\ e \notin others
  BY <1>1
<1>3. IsFiniteSet(others)
  BY <1>1, FS_RemoveElement
<1>4. \A x \in others : a[x] = b[x] /\ a[x] \in Nat
  BY <1>1
<1>5. Total(others, a) = Total(others, b)
  BY <1>4, TotalSame
<1>6. Total(others, a) \in Nat
  BY <1>3, <1>4, PileFinite
<1>7. \A x \in others \cup {e} : a[x] \in Nat /\ b[x] \in Nat
  BY <1>1
<1>8. Total(others \cup {e}, a) = Total(others, a) + a[e]
  BY <1>2, <1>3, <1>7, TotalAdd
<1>9. Total(others \cup {e}, b) = Total(others, b) + b[e]
  BY <1>2, <1>3, <1>7, TotalAdd
<1> QED BY <1>2, <1>5, <1>6, <1>8, <1>9

\* There are finitely many effects.
LEMMA EffectsFinite == IsFiniteSet(Effects)
<1> DEFINE Pairs == (Tasks \X Steps) \X Actions
<1> DEFINE flat == [p \in Pairs |-> <<p[1][1], p[1][2], p[2]>>]
<1>1. MaxTask \in Int /\ MaxSteps - 1 \in Int /\ 0 \in Int /\ 1 \in Int
  BY TasksAssumption
<1>2. IsFiniteSet(Tasks) /\ IsFiniteSet(Steps)
  BY <1>1, FS_Interval DEF Tasks, Steps
<1>3. IsFiniteSet(Actions)
  <2>1. IsFiniteSet({"provider"}) /\ IsFiniteSet({"tool"})
    BY FS_Singleton
  <2>2. Actions = {"provider"} \cup {"tool"}
    BY DEF Actions
  <2> QED BY <2>1, <2>2, FS_Union
<1>4. IsFiniteSet(Tasks \X Steps)
  BY <1>2, FS_Product
<1>5. IsFiniteSet(Pairs)
  BY <1>3, <1>4, FS_Product
<1>6. ASSUME NEW e \in Effects PROVE \E p \in Pairs : flat[p] = e
  <2>1. PICK t \in Tasks, i \in Steps, x \in Actions : e = <<t, i, x>>
    BY DEF Effects, Steps
  <2>2. <<<<t, i>>, x>> \in Pairs
    OBVIOUS
  <2>3. flat[<<<<t, i>>, x>>] = <<t, i, x>>
    BY <2>2
  <2> QED BY <2>1, <2>2, <2>3
<1>7. ASSUME NEW p \in Pairs PROVE flat[p] \in Effects
  <2>1. p[1][1] \in Tasks /\ p[1][2] \in Steps /\ p[2] \in Actions
    OBVIOUS
  <2> QED BY <2>1 DEF Effects, Steps
<1>8. flat \in Surjection(Pairs, Effects)
  BY <1>6, <1>7 DEF Surjection
<1> HIDE DEF Pairs, flat
<1> QED BY <1>5, <1>8, FS_Surjection

-----------------------------------------------------------------------------
(* The accounts.                                                            *)

\* What Balanced says of an account a with a cap, for its rows.
BalancedAt(rows, reserved, cost, excess, a, cap) ==
  /\ a.reserved = Total(rows, reserved) /\ a.used = Total(rows, cost)
  /\ cap > 0 => a.used + a.reserved <= cap + Total(rows, excess)

\* What a cost is over its price.
Over(cost, price) == IF cost > price THEN cost - price ELSE 0

\* Amounts of money.
Amounts(rows, f) == \A e \in rows : f[e] \in Nat
Money == [used : Nat, reserved : Nat]

\* A row is added that reserves p, and the cap allows it.
LEMMA RowAdded ==
  ASSUME NEW rows, IsFiniteSet(rows), NEW e, e \notin rows, NEW p \in Nat, NEW cap \in Nat,
         NEW r, NEW c, NEW x, NEW r2, NEW c2, NEW x2, NEW a \in Money, NEW a2,
         Amounts(rows, r), Amounts(rows, c), Amounts(rows, x),
         \A y \in rows : r2[y] = r[y] /\ c2[y] = c[y] /\ x2[y] = x[y],
         r2[e] = p, c2[e] = 0, x2[e] = 0,
         BalancedAt(rows, r, c, x, a, cap),
         a2.reserved = a.reserved + p, a2.used = a.used,
         cap > 0 => a.used + a.reserved + p <= cap
  PROVE  BalancedAt(rows \cup {e}, r2, c2, x2, a2, cap)
<1>2. Total(rows \cup {e}, r2) = Total(rows, r2) + r2[e]
  <2>1. \A y \in rows \cup {e} : r2[y] \in Nat
    BY DEF Amounts
  <2> QED BY <2>1, TotalAdd
<1>3. Total(rows \cup {e}, c2) = Total(rows, c2) + c2[e]
  <2>1. \A y \in rows \cup {e} : c2[y] \in Nat
    BY DEF Amounts
  <2> QED BY <2>1, TotalAdd
<1>4. Total(rows \cup {e}, x2) = Total(rows, x2) + x2[e]
  <2>1. \A y \in rows \cup {e} : x2[y] \in Nat
    BY DEF Amounts
  <2> QED BY <2>1, TotalAdd
<1>5. Total(rows, r2) = Total(rows, r)
  BY TotalSame
<1>6. Total(rows, c2) = Total(rows, c)
  BY TotalSame
<1>7. Total(rows, x2) = Total(rows, x)
  BY TotalSame
<1>8. Total(rows, x) \in Nat
  BY PileFinite DEF Amounts
<1>9. Total(rows, c) \in Nat
  BY PileFinite DEF Amounts
<1>10. a.used \in Nat /\ a.reserved \in Nat
  BY DEF Money
<1> QED BY <1>2, <1>3, <1>4, <1>5, <1>6, <1>7, <1>8, <1>9, <1>10 DEF BalancedAt

\* A row that reserved p is settled at a cost of n.
SettledRow(rows, e, p, n, r, c, x, r2, c2, x2) ==
  /\ \A y \in rows : y # e => r2[y] = r[y] /\ c2[y] = c[y] /\ x2[y] = x[y]
  /\ r[e] = p /\ c[e] = 0 /\ x[e] = 0 /\ r2[e] = 0 /\ c2[e] = n /\ x2[e] = Over(n, p)

LEMMA RowSettled ==
  ASSUME NEW rows, IsFiniteSet(rows), NEW e \in rows, NEW p \in Nat, NEW n \in Nat, NEW cap \in Nat,
         NEW r, NEW c, NEW x, NEW r2, NEW c2, NEW x2, NEW a \in Money, NEW a2,
         Amounts(rows, r), Amounts(rows, c), Amounts(rows, x),
         SettledRow(rows, e, p, n, r, c, x, r2, c2, x2), BalancedAt(rows, r, c, x, a, cap),
         a2.reserved = a.reserved - p, a2.used = a.used + n
  PROVE  BalancedAt(rows, r2, c2, x2, a2, cap) /\ a2.reserved \in Nat /\ a2.used \in Nat
<1>0. /\ \A y \in rows : y # e => r2[y] = r[y] /\ c2[y] = c[y] /\ x2[y] = x[y]
      /\ r[e] = p /\ c[e] = 0 /\ x[e] = 0 /\ r2[e] = 0 /\ c2[e] = n /\ x2[e] = Over(n, p)
  BY DEF SettledRow
<1>1. x2[e] \in Nat
  BY <1>0 DEF Over
<1>2. \A y \in rows : r[y] \in Nat /\ r2[y] \in Nat
  BY <1>0 DEF Amounts
<1>3. \A y \in rows : c[y] \in Nat /\ c2[y] \in Nat
  BY <1>0 DEF Amounts
<1>4. \A y \in rows : x[y] \in Nat /\ x2[y] \in Nat
  BY <1>0, <1>1 DEF Amounts
<1>5. PICK i \in Nat : Total(rows, r) = i + r[e] /\ Total(rows, r2) = i + r2[e]
  BY <1>0, <1>2, TotalChange
<1>6. PICK j \in Nat : Total(rows, c) = j + c[e] /\ Total(rows, c2) = j + c2[e]
  BY <1>0, <1>3, TotalChange
<1>7. PICK k \in Nat : Total(rows, x) = k + x[e] /\ Total(rows, x2) = k + x2[e]
  BY <1>0, <1>4, TotalChange
<1>8. a.used \in Nat /\ a.reserved \in Nat
  BY DEF Money
<1>9. a.reserved = i + p /\ a.used = j
  BY <1>0, <1>5, <1>6 DEF BalancedAt
<1>10. a2.reserved = i /\ a2.used = j + n
  BY <1>9
<1>11. cap > 0 => j + i + p <= cap + k
  BY <1>0, <1>7, <1>9 DEF BalancedAt
<1>12. CASE n > p
  <2>1. x2[e] = n - p
    BY <1>0, <1>12 DEF Over
  <2>2. cap > 0 => j + n + i <= cap + (k + (n - p))
    BY <1>11
  <2> QED BY <1>0, <1>5, <1>6, <1>7, <1>10, <2>1, <2>2 DEF BalancedAt
<1>13. CASE ~(n > p)
  <2>1. x2[e] = 0
    BY <1>0, <1>13 DEF Over
  <2>2. cap > 0 => j + n + i <= cap + k
    BY <1>11, <1>13
  <2> QED BY <1>0, <1>5, <1>6, <1>7, <1>10, <2>1, <2>2 DEF BalancedAt
<1> QED BY <1>12, <1>13

\* Rows of which none changed.
LEMMA RowsKept ==
  ASSUME NEW rows, NEW cap, NEW r, NEW c, NEW x, NEW r2, NEW c2, NEW x2, NEW a,
         \A y \in rows : r2[y] = r[y] /\ c2[y] = c[y] /\ x2[y] = x[y],
         BalancedAt(rows, r, c, x, a, cap)
  PROVE  BalancedAt(rows, r2, c2, x2, a, cap)
<1>1. Total(rows, r2) = Total(rows, r)
  BY TotalSame
<1>2. Total(rows, c2) = Total(rows, c)
  BY TotalSame
<1>3. Total(rows, x2) = Total(rows, x)
  BY TotalSame
<1> QED BY <1>1, <1>2, <1>3 DEF BalancedAt

\* The ledger and the accounts: a dispatched effect still holds its reservation, and
\* every account agrees with its rows.
Books ==
  /\ ledger \in [Effects -> [day : Days, reserved : Nat, cost : Nat]]
  /\ account \in [Scopes \X Days -> Money] /\ day \in Days
  /\ \A e \in Effects : req[e] = "dispatched" => ledger[e].reserved = Price(e) /\ ledger[e].cost = 0
  /\ Balanced

\* Prices, caps and costs are numbers.
LEMMA PriceFacts ==
  /\ \A e : Price(e) \in Nat
  /\ \A scope : Cap(scope) \in Nat
  /\ \A cost \in Costs \cup {ToolCost} : cost \in Nat
  BY PolicyAssumption DEF Price, Cap

\* The rows of an account are finitely many, and hold numbers.
LEMMA RowFacts ==
  ASSUME Books, NEW scope, NEW d
  PROVE  /\ IsFiniteSet(Rows(scope, d)) /\ Rows(scope, d) \subseteq Effects
         /\ Amounts(Rows(scope, d), Reserved) /\ Amounts(Rows(scope, d), Cost)
         /\ Amounts(Rows(scope, d), Excess)
<1>1. Rows(scope, d) \subseteq Effects
  BY DEF Rows
<1>2. IsFiniteSet(Rows(scope, d))
  BY <1>1, EffectsFinite, FS_Subset
<1>3. ASSUME NEW e \in Effects PROVE Reserved[e] \in Nat /\ Cost[e] \in Nat /\ Excess[e] \in Nat
  <2>1. ledger[e].reserved \in Nat /\ ledger[e].cost \in Nat /\ Price(e) \in Nat
    BY PriceFacts DEF Books
  <2> QED BY <2>1 DEF Reserved, Cost, Excess
<1> QED BY <1>1, <1>2, <1>3 DEF Amounts

\* What Balanced says of one account.
BalancedFor(scope, d) ==
  LET a == account[<<scope, d>>] rows == Rows(scope, d) IN
  /\ a.reserved = Total(rows, Reserved)
  /\ a.used = Total(rows, Cost)
  /\ Cap(scope) > 0 => a.used + a.reserved <= Cap(scope) + Total(rows, Excess)

LEMMA AccountBalanced ==
  ASSUME Balanced
  PROVE  \A scope \in Scopes, d \in Days : BalancedFor(scope, d)
  BY DEF Balanced, BalancedFor

LEMMA AccountsBalanced ==
  ASSUME \A scope \in Scopes, d \in Days : BalancedFor(scope, d)'
  PROVE  Balanced'
  BY DEF Balanced, BalancedFor

\* The same with its parts named.
LEMMA PartsOf ==
  ASSUME NEW scope, NEW d, NEW rows, NEW r, NEW c, NEW x, NEW a, NEW cap, BalancedFor(scope, d),
         rows = Rows(scope, d), r = Reserved, c = Cost, x = Excess, a = account[<<scope, d>>],
         cap = Cap(scope)
  PROVE  BalancedAt(rows, r, c, x, a, cap)
  BY DEF BalancedFor, BalancedAt

LEMMA FromParts ==
  ASSUME NEW scope, NEW d, NEW rows, NEW r, NEW c, NEW x, NEW a, NEW cap,
         BalancedAt(rows, r, c, x, a, cap),
         rows = Rows(scope, d)', r = Reserved', c = Cost', x = Excess', a = account'[<<scope, d>>],
         cap = Cap(scope)
  PROVE  BalancedFor(scope, d)'
  BY DEF BalancedFor, BalancedAt, Cap

\* A step that hands out nothing and settles nothing.
LEMMA BooksUnchanged ==
  ASSUME Books, Requests, Unsent, UNCHANGED <<ledger, account>>, day' \in Days
  PROVE  Books'
<1>1. ASSUME NEW scope \in Scopes, NEW d \in Days
      PROVE  BalancedFor(scope, d)'
  <2>1. Rows(scope, d)' = Rows(scope, d)
    BY DEF Rows, Unsent, ScopesOf
  <2>2. Reserved' = Reserved /\ Cost' = Cost
    BY DEF Reserved, Cost
  <2>3. Excess' = Excess
    BY DEF Excess, Price
  <2>4. PICK rows, i, c, x, a, cap :
           /\ rows = Rows(scope, d) /\ i = Reserved /\ c = Cost /\ x = Excess
           /\ a = account[<<scope, d>>] /\ cap = Cap(scope)
    OBVIOUS
  <2>5. BalancedFor(scope, d)
    BY AccountBalanced DEF Books
  <2>6. BalancedAt(rows, i, c, x, a, cap)
    BY <2>4, <2>5, PartsOf
  <2>7. a = account'[<<scope, d>>]
    BY <2>4
  <2> QED BY <2>1, <2>2, <2>3, <2>4, <2>6, <2>7, FromParts
<1>2. Balanced'
  BY <1>1, AccountsBalanced
<1>3. \A e \in Effects : req'[e] = "dispatched" => ledger'[e].reserved = Price(e) /\ ledger'[e].cost = 0
  BY DEF Books, Unsent
<1> QED BY <1>2, <1>3 DEF Books, Price

\* A worker in a conversation is at an effect.
LEMMA EffectOf ==
  ASSUME JobsTyped, Safe, Requests, NEW w \in Workers, wk[w].at # "idle"
  PROVE  Effect(w) \in Effects
<1>1. wk[w].job \in Tasks
  BY DEF Safe, Exclusive
<1>2. wk[w].step \in 0..(MaxSteps - 1)
  BY DEF Requests, Steps
<1> QED BY <1>1, <1>2 DEF Effect, Effects, Actions

\* A dispatch adds a row to the accounts of its scopes and of today.
LEMMA DispatchBooks ==
  ASSUME Books, JobsTyped, Safe, Requests, NEW w \in Workers, Dispatch(w)
  PROVE  Books'
<1>1. PICK e \in Effects : e = Effect(w)
  BY EffectOf DEF Dispatch
<1> DEFINE row == [day |-> day, reserved |-> Price(e), cost |-> 0]
<1>2. /\ req' = [req EXCEPT ![e] = "dispatched"]
      /\ ledger' = [ledger EXCEPT ![e] = row]
      /\ account' = [a \in Scopes \X Days |->
           IF a[1] \in ScopesOf(e) /\ a[2] = day
             THEN [account[a] EXCEPT !.reserved = @ + Price(e)] ELSE account[a]]
      /\ Dispatchable(e) /\ UNCHANGED day
  BY <1>1 DEF Dispatch
<1>3. req[e] \notin Out /\ Affordable(e)
  BY <1>2, ReqNames DEF Dispatchable, Replayable
<1>4. PICK p \in Nat : p = Price(e)
  BY PriceFacts
<1>5. day \in Days
  BY DEF Books
<1>6. row \in [day : Days, reserved : Nat, cost : Nat]
  BY <1>4, <1>5
<1>7. /\ ledger' \in [Effects -> [day : Days, reserved : Nat, cost : Nat]]
      /\ \A y \in Effects : ledger'[y] = IF y = e THEN row ELSE ledger[y]
  BY <1>2, <1>6 DEF Books
<1>8. row.day = day /\ row.reserved = p /\ row.cost = 0
  BY <1>4
<1> HIDE DEF row
<1>9. ledger'[e].day = day /\ ledger'[e].reserved = p /\ ledger'[e].cost = 0
  BY <1>7, <1>8
<1>10. req' \in [Effects -> ReqStates]
       /\ \A y \in Effects : req'[y] = IF y = e THEN "dispatched" ELSE req[y]
  BY <1>2, ReqNames DEF Requests
<1>11. \A y \in Effects : y # e =>
         Reserved'[y] = Reserved[y] /\ Cost'[y] = Cost[y] /\ Excess'[y] = Excess[y]
  BY <1>7 DEF Reserved, Cost, Excess, Price
<1>12. Reserved'[e] = p /\ Cost'[e] = 0 /\ Excess'[e] = 0
  <2>1. ~(0 > p)
    OBVIOUS
  <2>2. Price(e)' = p
    BY <1>4 DEF Price
  <2>3. Reserved'[e] = ledger'[e].reserved /\ Cost'[e] = ledger'[e].cost
    BY DEF Reserved, Cost
  <2>4. Excess'[e] = IF ledger'[e].cost > p THEN ledger'[e].cost - p ELSE 0
    BY <2>2 DEF Excess
  <2> QED BY <1>9, <2>1, <2>3, <2>4
<1>13. ASSUME NEW scope \in Scopes, NEW d \in Days
       PROVE  BalancedFor(scope, d)' /\ account'[<<scope, d>>] \in Money
  <2>1. PICK rows, r, c, x, a, cap :
           /\ rows = Rows(scope, d) /\ r = Reserved /\ c = Cost /\ x = Excess
           /\ a = account[<<scope, d>>] /\ cap = Cap(scope)
    OBVIOUS
  <2>2. PICK r2, c2, x2, a2 :
           r2 = Reserved' /\ c2 = Cost' /\ x2 = Excess' /\ a2 = account'[<<scope, d>>]
    OBVIOUS
  <2>3. BalancedFor(scope, d)
    BY AccountBalanced DEF Books
  <2>4. BalancedAt(rows, r, c, x, a, cap)
    BY <2>1, <2>3, PartsOf
  <2>5. /\ IsFiniteSet(rows) /\ rows \subseteq Effects
        /\ Amounts(rows, r) /\ Amounts(rows, c) /\ Amounts(rows, x)
    BY <2>1, RowFacts
  <2>6. a \in Money /\ cap \in Nat
    BY <2>1, PriceFacts DEF Books
  <2>7. e \notin rows
    BY <1>3, <2>1 DEF Rows
  <2>8. \A y \in rows : r2[y] = r[y] /\ c2[y] = c[y] /\ x2[y] = x[y]
    BY <1>11, <2>1, <2>2, <2>5, <2>7
  <2>9. \A y \in Effects : y # e => (req'[y] \in Out <=> req[y] \in Out) /\ ledger'[y] = ledger[y]
    BY <1>7, <1>10
  <2>10. req'[e] \in Out
    BY <1>10, ReqNames
  <2>11. CASE scope \in ScopesOf(e) /\ d = day
    <3>1. a2 = [a EXCEPT !.reserved = @ + p]
      BY <1>2, <1>4, <2>1, <2>2, <2>11
    <3>2. a2.reserved = a.reserved + p /\ a2.used = a.used /\ a2 \in Money
      BY <2>6, <3>1 DEF Money
    <3>3. cap > 0 => a.used + a.reserved + p <= cap
      BY <1>3, <1>4, <2>1, <2>11 DEF Affordable
    <3>4. Rows(scope, d)' = rows \cup {e}
      BY <1>9, <2>1, <2>9, <2>10, <2>11 DEF Rows, ScopesOf
    <3>5. r2[e] = p /\ c2[e] = 0 /\ x2[e] = 0
      BY <1>12, <2>2
    <3>6. BalancedAt(rows \cup {e}, r2, c2, x2, a2, cap)
      BY <2>4, <2>5, <2>6, <2>7, <2>8, <3>2, <3>3, <3>5, RowAdded
    <3> QED BY <2>1, <2>2, <3>2, <3>4, <3>6, FromParts
  <2>12. CASE ~(scope \in ScopesOf(e) /\ d = day)
    <3>1. a2 = a
      BY <1>2, <2>1, <2>2, <2>12
    <3>2. Rows(scope, d)' = rows
      BY <1>9, <2>1, <2>7, <2>9, <2>12 DEF Rows, ScopesOf
    <3>3. BalancedAt(rows, r2, c2, x2, a, cap)
      BY <2>4, <2>8, RowsKept
    <3> QED BY <2>1, <2>2, <2>6, <3>1, <3>2, <3>3, FromParts
  <2> QED BY <2>11, <2>12
<1>14. Balanced'
  BY <1>13, AccountsBalanced
<1>15. account' \in [Scopes \X Days -> Money]
  <2>1. \A k \in Scopes \X Days : account'[k] \in Money
    BY <1>13
  <2>2. account' = [k \in Scopes \X Days |-> account'[k]]
    BY <1>2
  <2> QED BY <2>1, <2>2
<1>16. \A y \in Effects : req'[y] = "dispatched" => ledger'[y].reserved = Price(y) /\ ledger'[y].cost = 0
  BY <1>4, <1>7, <1>9, <1>10 DEF Books
<1> QED BY <1>2, <1>5, <1>7, <1>14, <1>15, <1>16 DEF Books, Price

\* A settlement moves what a row reserved to what it cost.
LEMMA SettleBooks ==
  ASSUME Books, JobsTyped, Safe, Requests, NEW w \in Workers, wk[w].at # "idle",
         NEW n \in Nat, Settle(w, n), UNCHANGED day
  PROVE  Books'
<1>1. PICK e \in Effects : e = Effect(w)
  BY EffectOf
<1>2. /\ req[e] = "dispatched" /\ req' = [req EXCEPT ![e] = "completed"]
      /\ ledger' = [ledger EXCEPT ![e].reserved = 0, ![e].cost = n]
      /\ Settled(e, n)
  BY <1>1 DEF Settle
<1>3. PICK p \in Nat, day0 \in Days : p = Price(e) /\ day0 = ledger[e].day
  BY PriceFacts DEF Books
<1>4. ledger[e].reserved = p /\ ledger[e].cost = 0
  BY <1>2, <1>3 DEF Books
<1> DEFINE row == [ledger[e] EXCEPT !.reserved = 0, !.cost = n]
<1>5. ledger[e] \in [day : Days, reserved : Nat, cost : Nat]
  BY DEF Books
<1>6. /\ row \in [day : Days, reserved : Nat, cost : Nat]
      /\ row.day = day0 /\ row.reserved = 0 /\ row.cost = n
  BY <1>3, <1>5
<1>7. ledger' = [ledger EXCEPT ![e] = row]
  BY <1>2
<1> HIDE DEF row
<1>8. /\ ledger' \in [Effects -> [day : Days, reserved : Nat, cost : Nat]]
      /\ \A y \in Effects : ledger'[y] = IF y = e THEN row ELSE ledger[y]
  BY <1>6, <1>7 DEF Books
<1>9. ledger'[e].day = day0 /\ ledger'[e].reserved = 0 /\ ledger'[e].cost = n
  BY <1>6, <1>8
<1>10. \A y \in Effects : req'[y] = IF y = e THEN "completed" ELSE req[y]
  BY <1>2 DEF Requests
<1>11. \A y \in Effects : y # e =>
         Reserved'[y] = Reserved[y] /\ Cost'[y] = Cost[y] /\ Excess'[y] = Excess[y]
  BY <1>8 DEF Reserved, Cost, Excess, Price
<1>12. /\ Reserved'[e] = 0 /\ Cost'[e] = n
       /\ Excess'[e] = Over(n, p)
  <2>1. Price(e)' = p
    BY <1>3 DEF Price
  <2>2. Reserved'[e] = ledger'[e].reserved /\ Cost'[e] = ledger'[e].cost
    BY DEF Reserved, Cost
  <2>3. Excess'[e] = IF ledger'[e].cost > p THEN ledger'[e].cost - p ELSE 0
    BY <2>1 DEF Excess
  <2> QED BY <1>9, <2>2, <2>3 DEF Over
<1>13. Reserved[e] = p /\ Cost[e] = 0 /\ Excess[e] = 0
  <2>1. ~(0 > p)
    OBVIOUS
  <2>2. Excess[e] = IF ledger[e].cost > p THEN ledger[e].cost - p ELSE 0
    BY <1>3 DEF Excess
  <2> QED BY <1>4, <2>1, <2>2 DEF Reserved, Cost
<1>14. account' = [a \in Scopes \X Days |->
         IF a[1] \in ScopesOf(e) /\ a[2] = day0
           THEN [used |-> account[a].used + n, reserved |-> account[a].reserved - p]
           ELSE account[a]]
  BY <1>2, <1>3, <1>4 DEF Settled
<1>15. ASSUME NEW scope \in Scopes, NEW d \in Days
       PROVE  BalancedFor(scope, d)' /\ account'[<<scope, d>>] \in Money
  <2>1. PICK rows, r, c, x, a, cap :
           /\ rows = Rows(scope, d) /\ r = Reserved /\ c = Cost /\ x = Excess
           /\ a = account[<<scope, d>>] /\ cap = Cap(scope)
    OBVIOUS
  <2>2. PICK r2, c2, x2, a2 :
           r2 = Reserved' /\ c2 = Cost' /\ x2 = Excess' /\ a2 = account'[<<scope, d>>]
    OBVIOUS
  <2>3. BalancedFor(scope, d)
    BY AccountBalanced DEF Books
  <2>4. BalancedAt(rows, r, c, x, a, cap)
    BY <2>1, <2>3, PartsOf
  <2>5. /\ IsFiniteSet(rows) /\ rows \subseteq Effects
        /\ Amounts(rows, r) /\ Amounts(rows, c) /\ Amounts(rows, x)
    BY <2>1, RowFacts
  <2>6. a \in Money /\ cap \in Nat
    BY <2>1, PriceFacts DEF Books
  <2>7. \A y \in rows : y # e => r2[y] = r[y] /\ c2[y] = c[y] /\ x2[y] = x[y]
    BY <1>11, <2>1, <2>2, <2>5
  <2>8. \A y \in Effects : (req'[y] \in Out <=> req[y] \in Out) /\ ledger'[y].day = ledger[y].day
    BY <1>2, <1>3, <1>8, <1>9, <1>10, ReqNames
  <2>9. Rows(scope, d)' = rows
    BY <2>1, <2>8 DEF Rows, ScopesOf
  <2>10. e \in rows <=> scope \in ScopesOf(e) /\ d = day0
    BY <1>2, <1>3, <2>1, ReqNames DEF Rows
  <2>11. CASE scope \in ScopesOf(e) /\ d = day0
    <3>1. a2 = [used |-> a.used + n, reserved |-> a.reserved - p]
      BY <1>14, <2>1, <2>2, <2>11
    <3>2. a2.used = a.used + n /\ a2.reserved = a.reserved - p
      BY <3>1
    <3>3. e \in rows
      BY <2>10, <2>11
    <3>4. SettledRow(rows, e, p, n, r, c, x, r2, c2, x2)
      BY <1>12, <1>13, <2>1, <2>2, <2>7 DEF SettledRow
    <3>5. BalancedAt(rows, r2, c2, x2, a2, cap) /\ a2.reserved \in Nat /\ a2.used \in Nat
      BY <2>4, <2>5, <2>6, <3>2, <3>3, <3>4, RowSettled
    <3>6. a2 \in Money
      BY <3>1, <3>5 DEF Money
    <3> QED BY <2>1, <2>2, <2>9, <3>5, <3>6, FromParts
  <2>12. CASE ~(scope \in ScopesOf(e) /\ d = day0)
    <3>1. a2 = a
      BY <1>14, <2>1, <2>2, <2>12
    <3>2. \A y \in rows : r2[y] = r[y] /\ c2[y] = c[y] /\ x2[y] = x[y]
      BY <2>7, <2>10, <2>12
    <3>3. BalancedAt(rows, r2, c2, x2, a, cap)
      BY <2>4, <3>2, RowsKept
    <3> QED BY <2>1, <2>2, <2>6, <2>9, <3>1, <3>3, FromParts
  <2> QED BY <2>11, <2>12
<1>16. Balanced'
  BY <1>15, AccountsBalanced
<1>17. account' \in [Scopes \X Days -> Money]
  <2>1. \A k \in Scopes \X Days : account'[k] \in Money
    BY <1>15
  <2>2. account' = [k \in Scopes \X Days |-> account'[k]]
    BY <1>14
  <2> QED BY <2>1, <2>2
<1>18. \A y \in Effects : req'[y] = "dispatched" => ledger'[y].reserved = Price(y) /\ ledger'[y].cost = 0
  BY <1>8, <1>10 DEF Books
<1>19. day' \in Days
  BY DEF Books
<1> QED BY <1>8, <1>16, <1>17, <1>18, <1>19 DEF Books, Price

\* Every step keeps the books.
LEMMA BooksKept ==
  ASSUME Books, JobsTyped, Safe, Requests, [PNext]_pvars
  PROVE  Books'
<1>1. ASSUME NEW w \in Workers, Dispatch(w) PROVE Books'
  BY <1>1, DispatchBooks
<1>2. CASE UNCHANGED <<req, revoked, moneyVars, sent>>
  <2>1. Unsent
    BY <1>2, PolUnchanged
  <2> QED BY <1>2, <2>1, BooksUnchanged DEF moneyVars, Books
<1>3. ASSUME NEW w \in Workers,
             \/ PolicyClaimDirect(w)
             \/ LifeOf(w) /\ UNCHANGED polVars
             \/ Enter(w) \/ Leave(w) \/ Refused(w)
      PROVE  Books'
  BY <1>2, <1>3 DEF PolicyClaimDirect, Enter, Leave, Refused, polVars, reqVars
<1>4. ASSUME NEW w \in Workers, Ask(w) PROVE Books'
  BY <1>4, SettledUnsent, BooksUnchanged DEF Ask, moneyVars, Books
<1>5. ASSUME NEW w \in Workers, Succeed(w) \/ CallFails(w) PROVE Books'
  <2>1. wk[w].at # "idle" /\ UNCHANGED day
    BY <1>5 DEF Succeed, CallFails
  <2>2. CASE \E n \in Costs \cup {ToolCost} : Settle(w, n)
    BY <2>1, <2>2, PriceFacts, SettleBooks
  <2>3. CASE UNCHANGED <<ledger, account>>
    BY <1>5, <2>1, <2>3, SettledUnsent, BooksUnchanged DEF Books
  <2> QED BY <1>5, <2>2, <2>3 DEF Succeed, CallFails, Unsettled
<1>6. CASE (Others /\ UNCHANGED polVars) \/ UNCHANGED pvars
  BY <1>2, <1>6 DEF pvars, polVars, reqVars
<1>7. CASE \/ CleanupExpired \/ PolicyRestart \/ \E t \in Tasks : PolicyDelete(t)
           \/ \E e \in Effects : Approve(e) \/ Revoke(e) \/ PassTime(e)
  <2>1. UNCHANGED moneyVars
    BY <1>7 DEF CleanupExpired, PolicyRestart, PolicyDelete, Approve, Revoke, PassTime
  <2> QED BY <1>7, <2>1, BackendUnsent, BooksUnchanged DEF moneyVars, Books
<1>8. CASE NextDay
  <2>1. day' \in Days
    BY <1>8, PolicyAssumption DEF NextDay, Days, Books
  <2> QED BY <1>8, <2>1, BackendUnsent, BooksUnchanged DEF NextDay
<1> QED BY <1>1, <1>3, <1>4, <1>5, <1>6, <1>7, <1>8 DEF PNext, PolicyLife, PolicyTalk

\* Nothing is on the books initially.
LEMMA PInitBooks ==
  ASSUME PInit
  PROVE  Books
<1>1. day \in Days /\ 0 \in Days
  BY PolicyAssumption DEF PInit, Days
<1>2. ledger \in [Effects -> [day : Days, reserved : Nat, cost : Nat]]
  BY <1>1 DEF PInit, NoRow
<1>3. account \in [Scopes \X Days -> Money]
  BY DEF PInit, Money
<1>4. \A e \in Effects : req[e] \notin Out /\ req[e] # "dispatched"
  BY ReqNames DEF PInit
<1>5. ASSUME NEW scope \in Scopes, NEW d \in Days PROVE BalancedFor(scope, d)
  <2>1. Rows(scope, d) = {}
    BY <1>4 DEF Rows
  <2>2. account[<<scope, d>>].used = 0 /\ account[<<scope, d>>].reserved = 0
    BY DEF PInit
  <2>3. Total(Rows(scope, d), Reserved) = 0 /\ Total(Rows(scope, d), Cost) = 0
    BY <2>1, TotalEmpty
  <2>4. Total(Rows(scope, d), Excess) = 0
    BY <2>1, TotalEmpty
  <2>5. Cap(scope) \in Nat
    BY PriceFacts
  <2>6. Cap(scope) > 0 => 0 + 0 <= Cap(scope) + 0
    BY <2>5
  <2> QED BY <2>2, <2>3, <2>4, <2>6 DEF BalancedFor
<1>6. Balanced
  BY <1>5 DEF Balanced, BalancedFor
<1> QED BY <1>1, <1>2, <1>3, <1>4, <1>6 DEF Books

\* Balanced: every account is the sum of its rows, and over its cap only by what
\* settled costs exceeded their reservations.
THEOREM BalancedHolds == PSpec => []Balanced
<1>1. PInit => JobsTyped /\ Safe /\ Continuations /\ Requests /\ Books
  BY PInitSafe, PInitRequests, PInitBooks
<1>2. JobsTyped /\ Safe /\ Continuations /\ Requests /\ Books /\ [PNext]_pvars
        => (JobsTyped /\ Safe /\ Continuations /\ Requests /\ Books)'
  BY PolicySafe, ContinuationsKept, RequestsKept, BooksKept
<1>3. Books => Balanced
  BY DEF Books
<1> QED BY <1>1, <1>2, <1>3, PTL DEF PSpec
-----------------------------------------------------------------------------
(* The gateway executes effects.                                            *)

\* A worker in a call waits for the request it dispatched, which nobody else closes.
InFlight == \A w \in Workers :
  wk[w].at \in {"calling", "using"} => req[Effect(w)] = "dispatched"

\* A worker that has its answer, or does not get one, has left the call.
LEMMA CallLeft ==
  ASSUME JobsTyped, NEW w \in Workers, Succeed(w) \/ CallFails(w)
  PROVE  wk'[w].at \notin {"calling", "using"} /\ \A v \in Workers : v # w => wk'[v] = wk[v]
<1>1. wk[w] \in Worker
  BY DEF JobsTyped
<1>2. CASE Rest(w)
  BY <1>2, RestTyped, IdleStep DEF JobsTyped
<1>3. ASSUME NEW p \in {"answer", "tools"}, Go(w, p)
      PROVE  wk'[w].at \notin {"calling", "using"} /\ \A v \in Workers : v # w => wk'[v] = wk[v]
  <2>1. p \in Places /\ p \notin {"calling", "using"}
    BY PlaceNames
  <2> QED BY <1>3, <2>1, GoTyped DEF JobsTyped
<1>4. CASE wk' = [wk EXCEPT ![w].at = "loop", ![w].step = @ + 1]
  <2> DEFINE row == [wk[w] EXCEPT !.at = "loop", !.step = @ + 1]
  <2>1. row.at = "loop"
    BY <1>1 DEF Worker
  <2>2. wk' = [wk EXCEPT ![w] = row]
    BY <1>4
  <2> HIDE DEF row
  <2> QED BY <2>1, <2>2 DEF JobsTyped
<1>5. GiveUp(w, "uncertain") \/ StoreFails(w) => Rest(w)
  BY DEF GiveUp, StoreFails, LetGo
<1> QED BY <1>2, <1>3, <1>4, <1>5 DEF Succeed, CallFails

\* Workers in a conversation are at different effects.
LEMMA EffectsApart ==
  ASSUME JobsTyped, Safe, NEW v \in Workers, NEW w \in Workers, v # w,
         wk[v].at \notin {"idle", "leaving"}, wk[w].at \notin {"idle", "leaving"}
  PROVE  Effect(v) # Effect(w)
<1>1. wk[v].job \in Tasks /\ wk[w].job \in Tasks
  BY DEF Safe, Exclusive
<1>2. wk[v].job # wk[w].job
  BY <1>1 DEF Safe, Exclusive, Holds
<1>3. Effect(v)[1] = wk[v].job /\ Effect(w)[1] = wk[w].job
  BY DEF Effect
<1> QED BY <1>2, <1>3

\* Requests that are dispatched stay so, but for those of a call that ends and of a restart.
StillOut == \A e \in Effects : req[e] = "dispatched" => req'[e] = "dispatched"

\* Steps without a new call or an answer keep the calls in flight.
LEMMA InFlightCalm ==
  ASSUME JobsTyped, Safe, Requests, InFlight, NoNewCall, StillOut
  PROVE  InFlight'
<1>1. ASSUME NEW w \in Workers, wk'[w].at \in {"calling", "using"} PROVE req'[Effect(w)'] = "dispatched"
  <2>1. wk'[w] = wk[w]
    BY <1>1 DEF NoNewCall
  <2>2. Effect(w)' = Effect(w)
    BY <2>1 DEF Effect
  <2>3. wk[w].at \in {"calling", "using"}
    BY <1>1, <2>1
  <2>4. Effect(w) \in Effects
    BY <2>3, EffectOf
  <2>5. req[Effect(w)] = "dispatched"
    BY <2>3 DEF InFlight
  <2> QED BY <2>2, <2>4, <2>5 DEF StillOut
<1> QED BY <1>1 DEF InFlight

\* An answer closes the request of the worker's own call only.
LEMMA InFlightAnswered ==
  ASSUME JobsTyped, Safe, Requests, InFlight, NEW w \in Workers, Succeed(w) \/ CallFails(w)
  PROVE  InFlight'
<1>1. wk'[w].at \notin {"calling", "using"} /\ \A v \in Workers : v # w => wk'[v] = wk[v]
  BY CallLeft
<1>2. wk[w].at \notin {"idle", "leaving"}
  BY DEF Succeed, CallFails
<1>3. PICK e : e = Effect(w)
  OBVIOUS
<1>4. \A x \in Effects : x # e => req'[x] = req[x]
  BY <1>3 DEF Succeed, CallFails, Settle, Unsettled, Requests
<1>5. ASSUME NEW v \in Workers, wk'[v].at \in {"calling", "using"} PROVE req'[Effect(v)'] = "dispatched"
  <2>1. v # w /\ wk'[v] = wk[v]
    BY <1>1, <1>5
  <2>2. Effect(v)' = Effect(v)
    BY <2>1 DEF Effect
  <2>3. wk[v].at \in {"calling", "using"}
    BY <1>5, <2>1
  <2>4. Effect(v) \in Effects
    BY <2>3, EffectOf
  <2>5. Effect(v) # e
    BY <1>2, <1>3, <2>1, <2>3, EffectsApart
  <2>6. req[Effect(v)] = "dispatched"
    BY <2>3 DEF InFlight
  <2> QED BY <1>4, <2>2, <2>4, <2>5, <2>6
<1> QED BY <1>5 DEF InFlight

\* A dispatch puts the worker's own effect in flight.
LEMMA InFlightDispatched ==
  ASSUME JobsTyped, Safe, Requests, InFlight, NEW w \in Workers, Dispatch(w)
  PROVE  InFlight'
<1>1. PICK e : e = Effect(w)
  OBVIOUS
<1>2. /\ wk[w].at \in {"loop", "tools"} /\ req' = [req EXCEPT ![e] = "dispatched"]
      /\ Go(w, IF e[3] = "provider" THEN "calling" ELSE "using")
  BY <1>1 DEF Dispatch
<1>3. \A x \in Effects : req'[x] = IF x = e THEN "dispatched" ELSE req[x]
  BY <1>2 DEF Requests
<1>4. wk[w] \in Worker /\ e \in Effects
  BY <1>1, <1>2, EffectOf DEF JobsTyped
<1>5. e[3] = IF wk[w].at = "loop" THEN "provider" ELSE "tool"
  BY <1>1, <1>2 DEF Effect
<1> DEFINE place == IF e[3] = "provider" THEN "calling" ELSE "using"
<1>6. wk' = [wk EXCEPT ![w] = [wk[w] EXCEPT !.at = place]]
  BY <1>2 DEF Go
<1>7. /\ [wk[w] EXCEPT !.at = place].at = place
      /\ [wk[w] EXCEPT !.at = place].job = wk[w].job
      /\ [wk[w] EXCEPT !.at = place].step = wk[w].step
  BY <1>4 DEF Worker
<1>8. wk'[w].at = place /\ wk'[w].job = wk[w].job /\ wk'[w].step = wk[w].step
  BY <1>6, <1>7 DEF JobsTyped
<1>9. Effect(w)' = e
  BY <1>1, <1>2, <1>5, <1>8 DEF Effect
<1>10. ASSUME NEW v \in Workers, wk'[v].at \in {"calling", "using"} PROVE req'[Effect(v)'] = "dispatched"
  <2>1. CASE v = w
    BY <1>3, <1>4, <1>9, <2>1
  <2>2. CASE v # w
    <3>1. wk'[v] = wk[v]
      BY <1>6, <2>2 DEF JobsTyped
    <3>2. Effect(v)' = Effect(v)
      BY <3>1 DEF Effect
    <3>3. wk[v].at \in {"calling", "using"}
      BY <1>10, <3>1
    <3>4. Effect(v) \in Effects
      BY <3>3, EffectOf
    <3>5. req[Effect(v)] = "dispatched"
      BY <3>3 DEF InFlight
    <3> QED BY <1>3, <3>2, <3>4, <3>5
  <2> QED BY <2>1, <2>2
<1> QED BY <1>10 DEF InFlight

\* How a request moves when nothing is sent.
Unsendable == {"none"} \cup Open
ReqMoves(old, new) ==
  \/ new = old
  \/ old \in Unsendable /\ new \in Unsendable \cup {"expired", "cancelled"}
  \/ old = "dispatched" /\ new \in {"completed", "uncertain"}
QuietReqs == UNCHANGED sent /\ \A e \in Effects : ReqMoves(req[e], req'[e])

\* One request that moves is enough to know all.
LEMMA OneMoved ==
  ASSUME Requests, UNCHANGED sent, NEW e, NEW new, req' = [req EXCEPT ![e] = new],
         e \in Effects => ReqMoves(req[e], new)
  PROVE  QuietReqs
<1>1. \A x \in Effects : req'[x] = IF x = e THEN new ELSE req[x]
  BY DEF Requests
<1> QED BY <1>1 DEF QuietReqs, ReqMoves

\* Likewise those that are closed.
LEMMA ClosedMoved ==
  ASSUME Requests, UNCHANGED sent, NEW es, NEW new, Close(es, new),
         \A e \in es \cap Effects : ReqMoves(req[e], new)
  PROVE  QuietReqs
<1>1. \A x \in Effects : req'[x] = IF x \in es THEN new ELSE req[x]
  BY DEF Close
<1> QED BY <1>1 DEF QuietReqs, ReqMoves

\* What the management backend, time and a restart do to requests.
LEMMA BackendMoves ==
  ASSUME Requests,
         \/ CleanupExpired \/ PolicyRestart \/ NextDay \/ \E t \in Tasks : PolicyDelete(t)
         \/ \E e \in Effects : Approve(e) \/ Revoke(e) \/ PassTime(e)
  PROVE  QuietReqs
<1>1. CASE CleanupExpired
  <2> DEFINE gone == {e \in overdue : req[e] \in Open}
  <2>1. Close(gone, "expired") /\ UNCHANGED sent
    BY <1>1 DEF CleanupExpired
  <2>2. \A e \in gone : ReqMoves(req[e], "expired")
    BY DEF ReqMoves, Unsendable
  <2> HIDE DEF gone
  <2> QED BY <2>1, <2>2, ClosedMoved
<1>2. CASE PolicyRestart
  <2>1. \A e \in Unknown : ReqMoves(req[e], "uncertain")
    BY DEF Unknown, ReqMoves
  <2> QED BY <1>2, <2>1, ClosedMoved DEF PolicyRestart
<1>3. ASSUME NEW t \in Tasks, PolicyDelete(t) PROVE QuietReqs
  <2> DEFINE open == {e \in Effects : SessionOf[e[1]] \in ChatOf(t) /\ req[e] \in Open}
  <2>1. Close(open, "cancelled") /\ UNCHANGED sent
    BY <1>3 DEF PolicyDelete
  <2>2. \A e \in open : ReqMoves(req[e], "cancelled")
    BY DEF ReqMoves, Unsendable
  <2> HIDE DEF open
  <2> QED BY <2>1, <2>2, ClosedMoved
<1>4. ASSUME NEW e \in Effects, Approve(e) PROVE QuietReqs
  <2>1. ReqMoves(req[e], "approved")
    BY <1>4, ReqNames DEF Approve, Approvable, ReqMoves, Unsendable
  <2> QED BY <1>4, <2>1, OneMoved DEF Approve
<1>5. CASE NextDay \/ \E e \in Effects : Revoke(e) \/ PassTime(e)
  <2>1. UNCHANGED <<req, sent>>
    BY <1>5 DEF NextDay, Revoke, PassTime, reqVars
  <2> QED BY <2>1 DEF QuietReqs, ReqMoves
<1> QED BY <1>1, <1>2, <1>3, <1>4, <1>5

\* What a worker that does not dispatch does to them.
LEMMA TalkMoves ==
  ASSUME JobsTyped, Safe, Requests, InFlight, NEW w \in Workers, Ask(w) \/ Succeed(w) \/ CallFails(w)
  PROVE  QuietReqs
<1>1. UNCHANGED sent
  BY DEF Ask, Succeed, CallFails
<1>2. CASE Ask(w)
  <2>1. req' = [req EXCEPT ![Effect(w)] = "awaiting"] /\ req[Effect(w)] = "none"
    BY <1>2 DEF Ask
  <2>2. ReqMoves(req[Effect(w)], "awaiting")
    BY <2>1, ReqNames DEF ReqMoves, Unsendable
  <2> QED BY <1>1, <2>1, <2>2, OneMoved
<1>3. ASSUME Succeed(w) \/ CallFails(w), NEW new \in {"completed", "uncertain"},
             req' = [req EXCEPT ![Effect(w)] = new]
      PROVE  QuietReqs
  <2>1. req[Effect(w)] = "dispatched"
    BY <1>3 DEF InFlight, Succeed, CallFails
  <2>2. ReqMoves(req[Effect(w)], new)
    BY <2>1 DEF ReqMoves
  <2> QED BY <1>1, <1>3, <2>2, OneMoved
<1>4. CASE UNCHANGED req
  BY <1>1, <1>4 DEF QuietReqs, ReqMoves
<1> QED BY <1>2, <1>3, <1>4 DEF Succeed, CallFails, Settle, Unsettled

\* The calls in flight are kept by every step, which otherwise moves requests quietly.
LEMMA InFlightKept ==
  ASSUME JobsTyped, Safe, Requests, InFlight, [PNext]_pvars
  PROVE  InFlight' /\ (QuietReqs \/ \E w \in Workers : Dispatch(w))
<1>1. ASSUME NEW w \in Workers, Dispatch(w)
      PROVE  InFlight' /\ \E v \in Workers : Dispatch(v)
  BY <1>1, InFlightDispatched
<1>2. ASSUME UNCHANGED <<req, sent>>, NoNewCall PROVE InFlight' /\ QuietReqs
  <2>1. StillOut /\ QuietReqs
    BY <1>2 DEF StillOut, QuietReqs, ReqMoves
  <2> QED BY <1>2, <2>1, InFlightCalm
<1>3. ASSUME NEW w \in Workers, PolicyClaimDirect(w) \/ (LifeOf(w) /\ UNCHANGED polVars)
      PROVE  InFlight' /\ QuietReqs
  <2>1. NoNewCall
    BY <1>3, LifeElsewhere DEF PolicyClaimDirect, NextJobs, First
  <2> QED BY <1>2, <1>3, <2>1 DEF PolicyClaimDirect, polVars, reqVars
<1>4. ASSUME NEW w \in Workers, Enter(w) \/ Leave(w) \/ Refused(w) PROVE InFlight' /\ QuietReqs
  <2>1. UNCHANGED <<req, sent>>
    BY <1>4 DEF Enter, Leave, Refused, polVars, reqVars
  <2> QED BY <1>2, <1>4, <2>1, TalkElsewhere
<1>5. ASSUME NEW w \in Workers, Succeed(w) \/ CallFails(w) PROVE InFlight' /\ QuietReqs
  BY <1>5, InFlightAnswered, TalkMoves
<1>6. ASSUME NEW w \in Workers, Ask(w) PROVE InFlight' /\ QuietReqs
  <2>1. StillOut
    BY <1>6 DEF Ask, StillOut, Requests
  <2> QED BY <1>6, <2>1, TalkElsewhere, TalkMoves, InFlightCalm
<1>7. CASE (Others /\ UNCHANGED polVars) \/ UNCHANGED pvars
  <2>1. UNCHANGED <<req, sent>>
    BY <1>7 DEF pvars, polVars, reqVars
  <2> QED BY <1>2, <1>7, <2>1, AsideElsewhere
<1>8. CASE PolicyRestart
  <2>1. \A v \in Workers : wk'[v].at = "idle"
    BY <1>8, IdleStep DEF PolicyRestart, Restart
  <2>2. InFlight'
    BY <2>1 DEF InFlight
  <2> QED BY <1>8, <2>2, BackendMoves
<1>9. CASE \/ CleanupExpired \/ NextDay \/ \E t \in Tasks : PolicyDelete(t)
           \/ \E e \in Effects : Approve(e) \/ Revoke(e) \/ PassTime(e)
  <2>1. StillOut
    BY <1>9, ReqNames DEF StillOut, Requests, CleanupExpired, NextDay, PolicyDelete, Approve, Approvable,
       Revoke, PassTime, Close, reqVars
  <2>2. NoNewCall
    BY <1>9, AsideElsewhere DEF PolicyDelete
  <2> QED BY <1>9, <2>1, <2>2, BackendMoves, InFlightCalm
<1> QED BY <1>1, <1>3, <1>4, <1>5, <1>6, <1>7, <1>8, <1>9 DEF PNext, PolicyLife, PolicyTalk

\* What the gateway's states mean.
LEMMA Meanings ==
  /\ \A st \in Unsendable : Meaning(st) = "new"
  /\ \A st \in {"expired", "cancelled"} : Meaning(st) = "refused"
  /\ Meaning("dispatched") = "claimed" /\ Meaning("completed") = "done"
  /\ Meaning("uncertain") = "uncertain"
  /\ \A st \in ReqStates : Meaning(st) \in Gateway!States
<1>1. \A st \in Unsendable : Meaning(st) = "new"
  BY DEF Meaning, Unsendable, Open
<1>2. \A st \in {"expired", "cancelled"} : Meaning(st) = "refused"
  BY DEF Meaning, Open
<1>3. Meaning("dispatched") = "claimed"
  BY DEF Meaning, Open
<1>4. Meaning("completed") = "done"
  BY DEF Meaning, Open
<1>5. Meaning("uncertain") = "uncertain"
  BY DEF Meaning, Open
<1>6. ASSUME NEW st \in ReqStates PROVE Meaning(st) \in Gateway!States
  <2>1. st \in Unsendable \cup {"expired", "cancelled", "dispatched", "completed", "uncertain"}
    BY ReqNames DEF Unsendable
  <2> QED BY <1>1, <1>2, <1>3, <1>4, <1>5, <2>1 DEF Gateway!States
<1> QED BY <1>1, <1>2, <1>3, <1>4, <1>5, <1>6

\* The abstract steps that one effect may take.
GatewayMoves(e) ==
  Gateway!Stays(e) \/ Gateway!Refuse(e) \/ Gateway!Claim(e) \/ Gateway!HandOver(e) \/ Gateway!Conclude(e)

\* A request that moves quietly is refused, concluded, or stays what it is.
LEMMA QuietMove ==
  ASSUME Requests, Requests', QuietReqs, NEW e \in Effects
  PROVE  GatewayMoves(e)
<1>1. /\ StateOf[e] = Meaning(req[e]) /\ StateOf'[e] = Meaning(req'[e]) /\ sent'[e] = sent[e]
      /\ ReqMoves(req[e], req'[e])
  BY DEF StateOf, QuietReqs
<1>2. CASE Meaning(req'[e]) = Meaning(req[e])
  <2>1. Gateway!Stays(e)
    BY <1>1, <1>2 DEF Gateway!Stays, Gateway!Moves
  <2> QED BY <2>1 DEF GatewayMoves
<1>3. CASE req[e] \in Unsendable /\ req'[e] \in {"expired", "cancelled"}
  <2>1. Gateway!Refuse(e)
    BY <1>1, <1>3, Meanings DEF Gateway!Refuse, Gateway!Moves
  <2> QED BY <2>1 DEF GatewayMoves
<1>4. CASE req[e] = "dispatched" /\ req'[e] \in {"completed", "uncertain"}
  <2>1. sent[e] = 1
    BY <1>4, ReqNames DEF Requests
  <2>2. Gateway!Conclude(e)
    BY <1>1, <1>4, <2>1, Meanings DEF Gateway!Conclude, Gateway!Moves
  <2> QED BY <2>2 DEF GatewayMoves
<1> QED BY <1>1, <1>2, <1>3, <1>4, Meanings DEF ReqMoves

\* A dispatch hands over what is new.
LEMMA DispatchMove ==
  ASSUME Requests, NEW w \in Workers, Dispatch(w), NEW e \in Effects
  PROVE  GatewayMoves(e)
<1>1. PICK d : d = Effect(w)
  OBVIOUS
<1>2. Dispatchable(d) /\ req' = [req EXCEPT ![d] = "dispatched"] /\ sent' = [sent EXCEPT ![d] = @ + 1]
  BY <1>1 DEF Dispatch
<1>3. /\ StateOf[e] = Meaning(req[e]) /\ StateOf'[e] = Meaning(req'[e])
      /\ req'[e] = (IF e = d THEN "dispatched" ELSE req[e])
      /\ sent'[e] = (IF e = d THEN sent[e] + 1 ELSE sent[e])
  BY <1>2 DEF StateOf, Requests
<1>4. CASE e # d
  <2>1. Gateway!Stays(e)
    BY <1>3, <1>4 DEF Gateway!Stays, Gateway!Moves
  <2> QED BY <2>1 DEF GatewayMoves
<1>5. CASE e = d
  <2>1. req[e] \in Unsendable
    BY <1>2, <1>5 DEF Dispatchable, Replayable, Unsendable, Open
  <2>2. req[e] \notin Out
    BY <2>1, ReqNames DEF Unsendable
  <2>3. sent[e] = 0 /\ sent'[e] = 1
    BY <1>3, <1>5, <2>2 DEF Requests
  <2>4. Gateway!HandOver(e)
    BY <1>3, <1>5, <2>1, <2>3, Meanings DEF Gateway!HandOver, Gateway!Moves
  <2> QED BY <2>4 DEF GatewayMoves
<1> QED BY <1>4, <1>5

\* Every step of the policy is one of the executor, of all effects together.
LEMMA GatewayStep ==
  ASSUME JobsTyped, Safe, Requests, InFlight, Requests', [PNext]_pvars
  PROVE  Gateway!Next
<1>1. ASSUME NEW e \in Effects PROVE GatewayMoves(e)
  BY InFlightKept, QuietMove, DispatchMove
<1>2. ASSUME NEW e \in Effects PROVE Meaning(req'[e]) \in Gateway!States
  BY Meanings DEF Requests
<1>3. StateOf' = [e \in Effects |-> Meaning(req'[e])]
  BY DEF StateOf
<1>4. StateOf' \in [Effects -> Gateway!States]
  BY <1>2, <1>3
<1>5. sent' \in [Effects -> Nat]
  BY DEF Requests
<1> QED BY <1>1, <1>4, <1>5 DEF Gateway!Next, GatewayMoves

\* All effects are new initially.
LEMMA GatewayInit ==
  ASSUME PInit
  PROVE  Gateway!Init
<1>1. Meaning("none") = "new"
  BY Meanings DEF Unsendable
<1>2. StateOf = [e \in Effects |-> "new"]
  BY <1>1 DEF StateOf, PInit
<1> QED BY <1>2 DEF Gateway!Init, PInit

\* ExecutesEffects: the gateway hands over only what is new, at most once, and never
\* takes back an outcome.
THEOREM ExecutesEffectsHolds == PSpec => ExecutesEffects
<1>1. PInit => JobsTyped /\ Safe /\ Continuations /\ Requests /\ InFlight
  <2>1. PInit => InFlight
    BY IdleStep DEF PInit, Init, InFlight
  <2> QED BY <2>1, PInitSafe, PInitRequests
<1>2. JobsTyped /\ Safe /\ Continuations /\ Requests /\ InFlight /\ [PNext]_pvars
        => (JobsTyped /\ Safe /\ Continuations /\ Requests /\ InFlight)'
  BY PolicySafe, ContinuationsKept, RequestsKept, InFlightKept
<1>3. PInit => Gateway!Init
  BY GatewayInit
<1>4. JobsTyped /\ Safe /\ Requests /\ InFlight /\ Requests' /\ [PNext]_pvars
        => [Gateway!Next]_<<StateOf, sent>>
  BY GatewayStep
<1> QED BY <1>1, <1>2, <1>3, <1>4, PTL DEF PSpec, ExecutesEffects, Gateway!Spec
=============================================================================
