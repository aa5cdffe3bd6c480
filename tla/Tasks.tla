-------------------------------- MODULE Tasks --------------------------------
(***************************************************************************)
(* Jobs of AI participants: the tables ai_jobs and ai_chats of the chats   *)
(* with an AI of their own (kinds "basic" and "e2ee"), or ai_tasks and     *)
(* ai_sessions of named agents (kind "named"); the workers that run them;  *)
(* the progress a streaming provider leaves; and what members, deletions   *)
(* and restarts do to them.                                                *)
(*                                                                         *)
(* A task is the message it answers: tasks are numbered in the order of    *)
(* their messages.  A context is the set of the messages whose turns it    *)
(* holds.  The store has one writer connection, so every transaction is    *)
(* one action; the steps of a worker between two transactions interleave   *)
(* with everything else.  Cancelling the context of a running conversation *)
(* only makes its next call fail, which it may do anyway.                  *)
(*                                                                         *)
(* Definitions named Mut... are wrong variants of the definition they      *)
(* precede; no specification uses them (see the README).                   *)
(***************************************************************************)
EXTENDS Integers, FiniteSets, Sequences

CONSTANTS
  Kinds,      \* the kinds of jobs the instance may have
  MaxTask,    \* bound on tasks
  SessionOf,  \* the session of a task: a chat, or an agent in the one named chat
  Workers,
  MaxSteps,   \* max_steps: provider calls of one conversation
  MaxQueue,   \* unfinished tasks of a session
  MaxChunks,  \* bound on the progress chunks of each task
  PageSize,   \* progress chunks that one read returns
  MaxAdmin,   \* bound on cancellations, deletions and changes of members and epoch
  MaxFaults   \* bound on failing statements and restarts

Tasks    == 1..MaxTask
Sessions == {SessionOf[t] : t \in Tasks}

ASSUME TasksAssumption ==
  /\ Kinds \subseteq {"basic", "e2ee", "named"} /\ Kinds # {}
  /\ MaxTask \in Nat \ {0} /\ MaxSteps \in Nat \ {0} /\ MaxQueue \in Nat \ {0}
  /\ MaxChunks \in [Tasks -> Nat] /\ PageSize \in Nat \ {0} /\ MaxAdmin \in Nat /\ MaxFaults \in Nat
  /\ DOMAIN SessionOf = Tasks
  /\ Workers # {}
  /\ "e2ee" \in Kinds => Cardinality(Sessions) = 1

VARIABLES
  kind,      \* the kind of the instance
  status,    \* of each task; "none" before its message is sent
  context,   \* of each session
  agents,    \* sessions whose AI has an identity
  version,   \* of each session: 0 before it exists; counted by named sessions only
  allowed,   \* sessions whose people and AI may send
  lapsed,    \* <<task, member>> whose membership is younger than the message
  deleted,   \* tasks whose message is deleted
  epoch,
  pending,   \* the rekey barrier: "no", "barrier", or "commit" once a commit waits
  gen,       \* sending generations the stored MLS state has used in this epoch
  chunks,    \* of each task, the <<epoch, generation>> of every progress chunk
  dropped,   \* of each task, how many of its oldest chunks are no longer stored
  cursor,    \* of each task, the last chunk a member has read
  seen,      \* of each task, history: the chunks it was shown
  answers,   \* of each task, the published answers: [seal, turns]
  wk,        \* of each worker: where it is and what it holds
  active,    \* tasks with a conversation in the map aiActive
  runs,      \* history: conversations started for each task
  admin, faults

jobVars  == <<status, context, version, agents>>
aclVars  == <<allowed, lapsed, deleted, epoch, pending>>
outVars  == <<gen, chunks, dropped, cursor, seen, answers>>
vars == <<kind, jobVars, aclVars, outVars, wk, active, runs, admin, faults>>

Live     == {"queued", "running", "awaiting"}
Finished == {"succeeded", "failed", "uncertain", "cancelled"}
Silent == {"idle", "claimed", "ready", "answer", "commit"} \* outside the conversation
Idle == [at |-> "idle", job |-> 0, ver |-> 0, epoch |-> 0, turns |-> {}, step |-> 0, gen |-> 0]

Init ==
  /\ kind \in Kinds
  /\ status = [t \in Tasks |-> "none"]
  /\ context = [s \in Sessions |-> {}] /\ version = [s \in Sessions |-> 0]
  /\ agents = {} /\ allowed = {} /\ lapsed = {} /\ deleted = {} /\ epoch = 0 /\ pending = "no"
  /\ gen = 0 /\ chunks = [t \in Tasks |-> << >>] /\ dropped = [t \in Tasks |-> 0]
  /\ cursor = [t \in Tasks |-> 0] /\ seen = [t \in Tasks |-> {}]
  /\ answers = [t \in Tasks |-> << >>]
  /\ wk = [w \in Workers |-> Idle] /\ active = {} /\ runs = [t \in Tasks |-> 0]
  /\ admin = 0 /\ faults = 0

-----------------------------------------------------------------------------
Named == kind = "named"

\* Sessions of the chat that the message of task t is in.
ChatOf(t) == IF Named THEN Sessions ELSE {SessionOf[t]}

\* The condition that the queries of named tasks repeat, each in one transaction
\* with what it guards; it does not ask since when the agent is a member.
NamedAuthorized(t) ==
  SessionOf[t] \in allowed /\ pending = "no" /\ t \notin deleted /\ <<t, "sender">> \notin lapsed

\* aiTaskAuthorized, likewise.
Authorized(t) == NamedAuthorized(t) /\ <<t, "agent">> \notin lapsed

MutEffectsAllowed(t) == Authorized(t)

\* aiEffectsAllowed, a transaction of its own.
EffectsAllowed(t) == status[t] = "running" /\ Authorized(t)

\* aiNamedSetStatus and aiFailTx change only a task that is not finished.
Settable(t) == status[t] \in IF Named THEN Live ELSE {"queued", "running"}
SetStatus(t, new) ==
  status' = [status EXCEPT ![t] = IF Settable(t) THEN new ELSE @]

Fault == faults < MaxFaults /\ faults' = faults + 1
Admin == admin < MaxAdmin /\ admin' = admin + 1
At(w, place) == wk[w].at = place
Rest(w) == wk' = [wk EXCEPT ![w] = Idle]
Go(w, place) == wk' = [wk EXCEPT ![w].at = place]

\* The worker lets go of its task.
LetGo(w) ==
  Rest(w) /\ active' = IF wk[w].at \in Silent THEN active ELSE active \ {wk[w].job}

\* The worker gives up its task: the status is set, or the store fails and the
\* task stays as it is until a restart.
GiveUp(w, new) ==
  /\ \/ SetStatus(wk[w].job, new) /\ UNCHANGED faults
     \/ Fault /\ UNCHANGED status
  /\ LetGo(w)

\* The store fails in a transaction of the worker, which may be able to say so.
StoreFails(w) == Fault /\ (SetStatus(wk[w].job, "uncertain") \/ UNCHANGED status) /\ LetGo(w)

-----------------------------------------------------------------------------
(* Participants, and the tasks queued for a message.                        *)

Earlier(s, who) == {t \in Tasks : SessionOf[t] = s /\ status[t] # "none"} \X who

\* aiCreateParticipant: a chat with an AI, its members, context and MLS state.
CreateParticipant(s) ==
  /\ ~Named /\ s \notin agents
  /\ agents' = agents \cup {s} /\ allowed' = allowed \cup {s}
  /\ version' = [version EXCEPT ![s] = 1]
  /\ UNCHANGED <<kind, status, context, lapsed, deleted, epoch, pending, outVars, wk, active,
                 runs, admin, faults>>

\* aiCreateNamedAgent: an identity, in no chat yet.
CreateNamedAgent(s) ==
  /\ Named /\ s \notin agents /\ agents' = agents \cup {s}
  /\ UNCHANGED <<kind, status, context, version, aclVars, outVars, wk, active, runs, admin, faults>>

\* aiAttachNamedAgent; attaching again keeps context and version of the session.
AttachNamedAgent(s) ==
  /\ Named /\ s \in agents \ allowed /\ allowed' = allowed \cup {s}
  /\ version' = [version EXCEPT ![s] = IF @ = 0 THEN 1 ELSE @]
  /\ lapsed' \in {lapsed, lapsed \cup Earlier(s, {"agent"})}
  /\ UNCHANGED <<kind, status, context, agents, deleted, epoch, pending, outVars, wk,
                 active, runs, admin, faults>>

Waiting(s) == {t \in Tasks : SessionOf[t] = s /\ status[t] \in Live}

Queue(t) ==
  /\ status[t] = "none" /\ \A u \in 1..(t - 1) : status[u] # "none"
  /\ SessionOf[t] \in allowed /\ pending = "no"
  /\ Cardinality(Waiting(SessionOf[t])) < MaxQueue
  /\ status' = [status EXCEPT ![t] = "queued"]
  /\ UNCHANGED <<kind, context, version, agents, aclVars, outVars, wk, active, runs, admin, faults>>

\* The hook of a message: its job is queued in the message's own transaction,
\* and a full queue refuses the message.
QueueDirect(t) == ~Named /\ Queue(t)

\* aiQueueNamedTasks: the sender asks an agent to answer its message; asking
\* again changes nothing.
QueueNamed(t) == Named /\ Queue(t)

-----------------------------------------------------------------------------
(* Claiming.                                                                *)

MutFree(t) == TRUE

\* No task of the session is running or waits for an approval.
Free(t) == \A u \in Waiting(SessionOf[t]) : status[u] = "queued"

First(ts) == {t \in ts : \A u \in ts : t <= u}

\* aiNextWith: the input is opened in the transaction that claims; input that
\* cannot be used, or a chat that no longer allows it, fails the job.
NextJobs == First({t \in Tasks : status[t] = "queued" /\ Free(t)}) \ active

ClaimJob(w, t, turns) ==
  /\ ~Named /\ At(w, "idle")
  /\ \/ /\ SessionOf[t] \in allowed /\ pending = "no"
        /\ status' = [status EXCEPT ![t] = "running"]
        /\ wk' = [wk EXCEPT ![w] =
             [Idle EXCEPT !.at = "ready", !.job = t, !.epoch = epoch, !.turns = turns]]
     \/ SetStatus(t, "failed") /\ UNCHANGED wk
  /\ UNCHANGED <<kind, context, version, agents, aclVars, outVars, active, runs, admin, faults>>

ClaimDirect(w) == \E t \in NextJobs : ClaimJob(w, t, context[SessionOf[t]] \cup {t})

\* claimAINamedTask: only a task that may run is selected.
ClaimNamed(w) ==
  /\ Named /\ At(w, "idle")
  /\ \E t \in First({u \in Tasks : status[u] = "queued" /\ Free(u) /\ NamedAuthorized(u)}) :
       /\ t \notin active
       /\ status' = [status EXCEPT ![t] = "running"]
       /\ wk' = [wk EXCEPT ![w] = [Idle EXCEPT !.at = "claimed", !.job = t]]
  /\ UNCHANGED <<kind, context, version, agents, aclVars, outVars, active, runs, admin, faults>>

\* aiNamedProcess reads the context and its version in a second transaction.
Prepare(w) ==
  /\ At(w, "claimed")
  /\ LET t == wk[w].job IN
     \/ /\ status[t] = "running" /\ NamedAuthorized(t)
        /\ wk' = [wk EXCEPT ![w] =
             [@ EXCEPT !.at = "ready", !.ver = version[SessionOf[t]], !.epoch = epoch,
                       !.turns = context[SessionOf[t]] \cup {t}]]
        /\ UNCHANGED <<status, active, faults>>
     \/ ~(status[t] = "running" /\ NamedAuthorized(t)) /\ GiveUp(w, "failed")
     \/ StoreFails(w)
  /\ UNCHANGED <<kind, context, version, agents, aclVars, outVars, runs, admin>>

\* The last check of a named task, and the entry into the conversation.
MayStart(w) ==
  LET t == wk[w].job IN
  Named => status[t] = "running" /\ NamedAuthorized(t) /\ version[SessionOf[t]] = wk[w].ver

Start(w) ==
  /\ At(w, "ready")
  /\ LET t == wk[w].job IN
     \/ /\ MayStart(w) /\ t \notin active
        /\ Go(w, "check") /\ active' = active \cup {t}
        /\ runs' = [runs EXCEPT ![t] = @ + 1]
        /\ UNCHANGED <<status, faults>>
     \/ GiveUp(w, "failed") /\ UNCHANGED runs \* also: unusable settings or tools
  /\ UNCHANGED <<kind, context, version, agents, aclVars, outVars, admin>>

-----------------------------------------------------------------------------
(* The conversation without the policy module: provider, tools, provider... *)

\* Access is read; the external call follows it.
Check(w) ==
  /\ At(w, "check")
  /\ \/ EffectsAllowed(wk[w].job) /\ Go(w, "call") /\ UNCHANGED <<status, active, faults>>
     \/ ~EffectsAllowed(wk[w].job) /\ GiveUp(w, "uncertain")
  /\ UNCHANGED <<kind, context, version, agents, aclVars, outVars, runs, admin>>

\* writeAIProgress: a chunk is stored, and sealed with the stored MLS state.
Chunk(w) ==
  LET t == wk[w].job IN
  /\ EffectsAllowed(t) /\ Len(chunks[t]) < MaxChunks[t]
  /\ chunks' = [chunks EXCEPT ![t] = Append(@, <<epoch, gen>>)]
  /\ gen' = IF kind = "e2ee" THEN gen + 1 ELSE gen

Stream(w) ==
  /\ At(w, "call") /\ Chunk(w)
  /\ UNCHANGED <<kind, jobVars, aclVars, dropped, cursor, seen, answers, wk, active, runs, admin, faults>>

MutReadable(t) == TRUE

\* 410 unless everything after the cursor of the member is still stored.
Readable(t) == cursor[t] >= dropped[t]

\* The first stored chunks after the cursor: rows dropped since then are not there
\* to be counted or skipped.
PageFrom(t) == IF cursor[t] < dropped[t] THEN dropped[t] ELSE cursor[t]
PageEnd(t) ==
  IF PageFrom(t) + PageSize < Len(chunks[t]) THEN PageFrom(t) + PageSize ELSE Len(chunks[t])

\* readAIProgress by a member who passes the last chunk it was given before.
ReadProgress(t) ==
  /\ SessionOf[t] \in allowed /\ t \notin deleted /\ PageFrom(t) < Len(chunks[t]) /\ Readable(t)
  /\ seen' = [seen EXCEPT ![t] = @ \cup ((PageFrom(t) + 1)..PageEnd(t))]
  /\ cursor' = [cursor EXCEPT ![t] = PageEnd(t)]
  /\ UNCHANGED <<kind, jobVars, aclVars, gen, chunks, dropped, answers, wk, active, runs, admin,
                 faults>>

\* The provider answers with text, or asks for tools.
Reply(w) ==
  /\ At(w, "call")
  /\ \/ wk' = [wk EXCEPT ![w].at = "answer"] /\ active' = active \ {wk[w].job}
     \/ Go(w, "tool") /\ UNCHANGED active
  /\ UNCHANGED <<kind, jobVars, aclVars, outVars, runs, admin, faults>>

\* aiAuthorizedTool reads access again before each tool.
Tool(w) ==
  /\ At(w, "tool") /\ EffectsAllowed(wk[w].job) /\ wk[w].step + 1 < MaxSteps
  /\ wk' = [wk EXCEPT ![w].at = "check", ![w].step = @ + 1]
  /\ UNCHANGED <<kind, jobVars, aclVars, outVars, active, runs, admin, faults>>

\* A call, a tool or a chunk fails, access is gone, or the steps are used up.
Error(w) ==
  /\ wk[w].at \in {"call", "tool"}
  /\ GiveUp(w, "uncertain")
  /\ UNCHANGED <<kind, context, version, agents, aclVars, outVars, runs, admin>>

-----------------------------------------------------------------------------
(* Completion.                                                              *)

\* An empty or oversized answer fails the task.  In an E2EE chat the answer is
\* sealed with the MLS state as it is stored now.
Seal(w) ==
  /\ At(w, "answer")
  /\ \/ wk' = [wk EXCEPT ![w].at = "commit", ![w].gen = gen] /\ UNCHANGED <<status, active, faults>>
     \/ GiveUp(w, "failed")
  /\ UNCHANGED <<kind, context, version, agents, aclVars, outVars, runs, admin>>

\* The session or epoch that the conversation was started with.
UnchangedSince(w) ==
  IF Named THEN version[SessionOf[wk[w].job]] = wk[w].ver ELSE epoch = wk[w].epoch

MayPublish(w) ==
  UnchangedSince(w) /\ IF Named THEN NamedAuthorized(wk[w].job) ELSE Authorized(wk[w].job)

\* The answer, the context and the status commit together.
Answered(w) ==
  LET t == wk[w].job IN
  /\ At(w, "commit") /\ status[t] = "running" /\ MayPublish(w)
  /\ answers' = [answers EXCEPT ![t] =
       Append(@, [seal |-> <<wk[w].epoch, wk[w].gen>>, turns |-> wk[w].turns])]
  /\ context' = [context EXCEPT ![SessionOf[t]] = wk[w].turns]
  /\ status' = [status EXCEPT ![t] = "succeeded"]
  /\ Rest(w)
  /\ UNCHANGED <<kind, version, agents, aclVars, chunks, dropped, cursor, seen, active, runs,
                 admin, faults>>

\* aiCompleteNamed, and what aiNamedProcess makes of its error.
CompleteNamed(w) ==
  \/ Named /\ Answered(w) /\ UNCHANGED gen
  \/ /\ Named /\ At(w, "commit")
     /\ \/ (status[wk[w].job] # "running" \/ ~MayPublish(w)) /\ UNCHANGED faults
        \/ Fault
     /\ SetStatus(wk[w].job, "uncertain") /\ Rest(w)
     /\ UNCHANGED <<kind, context, version, agents, aclVars, outVars, active, runs, admin>>

\* aiComplete: a job that lost its permission fails; one whose transaction could
\* not run stays running.
Complete(w) ==
  \/ ~Named /\ Answered(w) /\ gen' = IF kind = "e2ee" THEN wk[w].gen + 1 ELSE gen
  \/ /\ ~Named /\ At(w, "commit")
     /\ \/ /\ status[wk[w].job] = "running" /\ ~MayPublish(w)
           /\ status' = [status EXCEPT ![wk[w].job] = "failed"] /\ UNCHANGED faults
        \/ status[wk[w].job] # "running" /\ UNCHANGED <<status, faults>>
        \/ Fault /\ UNCHANGED status
     /\ Rest(w)
     /\ UNCHANGED <<kind, context, version, agents, aclVars, outVars, active, runs, admin>>

-----------------------------------------------------------------------------
(* What others do.                                                          *)

Cancelled(t) ==
  /\ Admin /\ status[t] \in Live
  /\ status' = [status EXCEPT ![t] = "cancelled"]
  /\ UNCHANGED <<kind, context, version, agents, aclVars, outVars, wk, active, runs, faults>>

\* cancelAIJob; it serves named tasks too.
CancelJob(t) == Cancelled(t)

\* aiCancelNamedTask.
CancelNamedTask(t) == Named /\ Cancelled(t)

MutForget(ss) == UNCHANGED context
Forget(ss) == context' = [s \in Sessions |-> IF s \in ss THEN {} ELSE context[s]]

MutStopAll(ss, new) == UNCHANGED status
StopAll(ss, new) ==
  status' = [t \in Tasks |->
    IF SessionOf[t] \in ss /\ status[t] \in Live THEN new ELSE status[t]]

\* The hook of the progress chunks of a chat.
DropProgress(ss) ==
  dropped' = [u \in Tasks |-> IF SessionOf[u] \in ss THEN Len(chunks[u]) ELSE dropped[u]]

\* What every deletion does: all hooks run in the transaction that deletes.
Deleted(t, new) ==
  /\ Admin /\ status[t] # "none" /\ t \notin deleted
  /\ deleted' = deleted \cup {t}
  /\ Forget(ChatOf(t)) /\ StopAll(ChatOf(t), new) /\ DropProgress(ChatOf(t))
  /\ UNCHANGED <<kind, agents, allowed, lapsed, epoch, pending, gen, chunks, cursor, seen,
                 answers, wk, active, runs, faults>>

DeleteDirect(t) == ~Named /\ Deleted(t, "failed") /\ UNCHANGED version

\* Every context of the chat is emptied and every version counted on.
DeleteNamed(t) ==
  /\ Named /\ Deleted(t, "cancelled")
  /\ version' = [s \in Sessions |-> IF version[s] > 0 THEN version[s] + 1 ELSE 0]

Delete(t) == DeleteDirect(t) \/ DeleteNamed(t)

\* A member or device of the chat is excluded; when it is admitted again, what was
\* written before is older than its membership, unless history is open to it.
Exclude(s) ==
  /\ Admin /\ s \in allowed /\ allowed' = allowed \ {s}
  /\ pending' = IF kind = "e2ee" /\ pending = "no" THEN "barrier" ELSE pending
  /\ UNCHANGED <<kind, jobVars, lapsed, deleted, epoch, outVars, wk, active, runs, faults>>

Readmit(s) ==
  /\ s \notin allowed /\ version[s] > 0 /\ allowed' = allowed \cup {s}
  /\ \E who \in SUBSET {"sender", "agent"} : lapsed' = lapsed \cup Earlier(s, who)
  /\ pending' = IF kind = "e2ee" /\ pending = "no" THEN "barrier" ELSE pending
  /\ UNCHANGED <<kind, jobVars, deleted, epoch, outVars, wk, active, runs, admin, faults>>

\* submitMLSCommit with the hook of the AI: its jobs must have drained.
Drained == \A t \in Tasks : status[t] \notin Live

SubmitCommit ==
  /\ kind = "e2ee" /\ Admin /\ pending # "commit" /\ Drained
  /\ pending' = "commit"
  /\ UNCHANGED <<kind, jobVars, allowed, lapsed, deleted, epoch, outVars, wk, active, runs,
                 faults>>

\* confirmMLSEpoch with the hook of the AI: its state moves to the next epoch.
ConfirmCommit ==
  /\ pending = "commit"
  /\ \A t \in Tasks : status[t] \notin {"running", "awaiting"}
  /\ pending' = "no" /\ epoch' = epoch + 1 /\ gen' = 0
  /\ UNCHANGED <<kind, jobVars, allowed, lapsed, deleted, chunks, dropped, cursor, seen,
                 answers, wk, active, runs, admin, faults>>

\* The cleanup of old progress chunks.
DropChunk(t) ==
  /\ dropped[t] < Len(chunks[t])
  /\ dropped' = [dropped EXCEPT ![t] = @ + 1]
  /\ UNCHANGED <<kind, jobVars, aclVars, gen, chunks, cursor, seen, answers, wk, active, runs, admin,
                 faults>>

\* The process stops anywhere and starts again: what was in flight is unknown.
Recovered(st) == IF st = "running" THEN "uncertain" ELSE st

Restart ==
  /\ Fault
  /\ status' = [t \in Tasks |-> Recovered(status[t])]
  /\ wk' = [w \in Workers |-> Idle] /\ active' = {}
  /\ UNCHANGED <<kind, context, version, agents, aclVars, outVars, runs, admin>>

\* Steps that are the same with and without the policy module.
LifeOf(w) ==
  ClaimNamed(w) \/ Prepare(w) \/ Start(w) \/ Seal(w) \/ Complete(w) \/ CompleteNamed(w)
Converse(w) == Check(w) \/ Stream(w) \/ Reply(w) \/ Tool(w) \/ Error(w)
Others ==
  \/ \E t \in Tasks : QueueDirect(t) \/ QueueNamed(t)
  \/ \E t \in Tasks : CancelJob(t) \/ CancelNamedTask(t) \/ DropChunk(t) \/ ReadProgress(t)
  \/ \E s \in Sessions : CreateParticipant(s) \/ CreateNamedAgent(s) \/ AttachNamedAgent(s)
  \/ \E s \in Sessions : Exclude(s) \/ Readmit(s)
  \/ SubmitCommit \/ ConfirmCommit

Next ==
  \/ \E w \in Workers : ClaimDirect(w) \/ LifeOf(w) \/ Converse(w)
  \/ Others
  \/ \E t \in Tasks : Delete(t)
  \/ Restart

Spec == Init /\ [][Next]_vars

-----------------------------------------------------------------------------
(* Properties.                                                              *)

TypeOK ==
  /\ kind \in Kinds
  /\ status \in [Tasks -> {"none"} \cup Live \cup Finished]
  /\ context \in [Sessions -> SUBSET Tasks] /\ version \in [Sessions -> Nat]
  /\ agents \subseteq Sessions
  /\ allowed \subseteq Sessions /\ lapsed \subseteq Tasks \X {"sender", "agent"} /\ deleted \subseteq Tasks
  /\ epoch \in Nat /\ gen \in Nat /\ pending \in {"no", "barrier", "commit"}
  /\ chunks \in [Tasks -> Seq(Nat \X Nat)] /\ dropped \in [Tasks -> Nat]
  /\ cursor \in [Tasks -> Nat] /\ seen \in [Tasks -> SUBSET Nat]
  /\ answers \in [Tasks -> Seq([seal : Nat \X Nat, turns : SUBSET Tasks])]
  /\ active \subseteq Tasks /\ runs \in [Tasks -> Nat]
  /\ admin \in 0..MaxAdmin /\ faults \in 0..MaxFaults

\* A message that was deleted is in no context, and no later answer was made
\* from it: neither a worker that read the context before nor one that resumes
\* brings it back (OnDelete hooks and the checks of aiComplete).
Forgotten == \A t \in deleted, s \in Sessions : t \notin context[s]

\* A member who reads the progress of a task page by page has seen every chunk up
\* to where it is, although old chunks are dropped between its pages.
ProgressWhole == \A t \in Tasks : seen[t] = 1..cursor[t]

\* Nothing derived from a context with a deleted message is published after the
\* deletion, nor after the task was cancelled or given up.
NoLateAnswer ==
  [][\A t \in Tasks : answers'[t] # answers[t] =>
       /\ status[t] = "running" /\ Len(answers[t]) = 0
       /\ answers'[t][1].turns \cap deleted = {}]_vars

\* One task of a session runs or waits, so that its context and MLS state have one
\* owner, and no task is in the hands of two workers: the map of conversations has
\* exactly the tasks whose conversations have not returned, and no such task is
\* claimed.  A call of a task that was cancelled, deleted or given up may be in
\* flight while the next task converses; then only one of the two tasks is running,
\* and EffectsAllowed and the completion refuse whatever the other comes back with.
Conversing(w) == wk[w].at \notin Silent

OneAtATime ==
  /\ \A t, u \in Tasks :
       SessionOf[t] = SessionOf[u] /\ {status[t], status[u]} \subseteq {"running", "awaiting"} => t = u
  /\ active = {wk[w].job : w \in {v \in Workers : Conversing(v)}}
  /\ \A v, w \in Workers : v # w /\ wk[v].job # 0 /\ wk[w].job # 0 =>
       /\ wk[v].job # wk[w].job
       /\ SessionOf[wk[v].job] = SessionOf[wk[w].job] =>
            ~(status[wk[v].job] = "running" /\ status[wk[w].job] = "running")

\* No generation of the MLS sending ratchet of an epoch seals two different
\* things among chunks and answers, whatever failed in between.
AllSeals ==
  (UNION {{<<t, i, chunks[t][i]>> : i \in 1..Len(chunks[t])} : t \in Tasks})
  \cup {<<t, 0, answers[t][1].seal>> : t \in {u \in Tasks : answers[u] # << >>}}
FreshGenerations ==
  kind = "e2ee" => \A a, b \in AllSeals : a[3] = b[3] => a = b

\* A session is blocked by a task that is running with no worker, because the store
\* failed when its outcome was to be written: only a restart resolves that.
Abandoned(s) == \E t \in Tasks :
  SessionOf[t] = s /\ status[t] = "running" /\ \A w \in Workers : wk[w].job # t
=============================================================================
