# A TLA+ model of the QGramm relay

This directory models the stateful parts of QGramm, a messaging relay written in
Go: HTTP handlers and WebSocket connections around one SQLite file with a single
write connection. The modules are translated from the sources under `src/`;
`PROJECT.json` maps each definition to the lines it stands for.

## The system

| Part | State it keeps | Operations | What is hard, and what must hold |
|---|---|---|---|
| Message write path (`core/writer_queue.go`, `core/messages.go`) | bounded channel of groups, slots the groups hold, the writer's batch, results per job | send, batch, prepare, enqueue, savepoint batch, commit, reply, close | jobs of many requests share one transaction: acknowledged means durable, once per operation id, in order, with exact accounting of slots and nobody stranded by shutdown |
| Durable store (`core/store.go`) | tables of events, messages, operations, chats; per chat a sequence counter | open, append, retention, close | gapless numbers although jobs roll back; only committed state survives |
| Realtime delivery (`core/realtime.go`, `core/sharedreplay.go`) | registry of connections, cursors, pending chats, shared heads | subscribe, wake, poll, replay pages, disconnect | no lost wake-up between head read and registration, no skipped event, no event shown to a removed member |
| Management (`core/management.go`) | users, devices, chats, members | put user, device, member; revoke | changes race requests that were already checked |
| Authentication, admission (`core/auth.go`, `admission.go`, `connection_auth.go`) | tickets, counters of running requests, validity of sockets | authenticate, ticket, admit, revalidate | single use, bounds, sockets that outlive their right |
| Mutations (`modules/mutations.go`, `edit.go`, `delete.go`, `reactions.go`, `reply.go`, `forward.go`) | revisions, deletion marks, reactions | edit, delete, react | a deletion must reach what AI tasks, continuations and attachments have made of the message |
| Files (`modules/files.go`) | upload rows, chunk rows, links to messages, a directory per upload | create, chunk, complete, download, publish, cleanup | a row and a file cannot be changed together; cleanup races publication; crashes |
| Calls (`modules/calls.go`) | calls and their operations | create, signal, timeout | one call per chat, no transition after the end, retries |
| MLS relay (`modules/e2ee.go`) | epoch, rekey barrier, roster, key packages, commits, Welcomes, inbox | upload, claim, commit, confirm, inbox, hooks of a message | a one-time key is used once; nobody who left reads what is sent later, although a message is prepared in one transaction and stored in another |
| AI jobs and participants (`modules/ai.go`, `ai_participants.go`, `ai_progress.go`) | tasks, contexts and versions of sessions, progress, workers | queue, claim, converse, append progress, cancel, delete, exclude, complete, recover | a provider call lasts for minutes and its result is written into state that has moved on |
| AI policy (`modules/ai_policy*.go`) | requests, continuations, approvals, daily accounts, ledger | begin, approve, revoke, dispatch, settle, expire, restart | money is reserved, spent and released by different transactions, some after a crash or on another day; an effect that was sent is never sent again |
| AI storage (`modules/ai_storage.go`, `aivault`) | resources, documents, edges, grants, revocations, the boundary of a conversation | grant, revoke, preflight, retrieve, release, filter the context; search, traverse | what was retrieved outlives the right to it, in memory and in a saved continuation |
| Micro-safer endpoint (`microsafer`) | MLS state, inbox, intents, consumed grants, outbox, cursor | poll, open, check, handle, stream, store the response, flush | exactly-once effects over at-least-once delivery, with a crash between any two transactions |
| Checkpointer, statement cache, configuration, cryptography, commands, tools | little or none | | left out, see the end |

Requests call the write path through `submit`; the writer and every other
transaction share the one write connection; `Append` adds an event inside the
caller's transaction, and after the commit `Wake` notifies the connections of the
chat. Connections read events on the read pool, in transactions of their own.

## Modules

`Writer` models the write path. One value of `pc` per request goroutine follows
`batch` (a request of one message is `send`): `prepare` up to the lookup of the
operation, `access` for the second read of `prepareMessage`, `submit` and `wait`
for `submitGroup`, `answer` for the response. `queue` is the channel, whose
elements are groups; `groupExtra` the slots they hold beyond the first.
`wpc` follows the writer goroutine through `loop`, `process` and
`executeBatchContext`; `tx` is the uncommitted transaction, `db` the committed
database. The administrative transactions need the connection, hence run only
when no batch holds it (`ConnectionFree`). `Restart` forgets everything but `db`.
What the model makes nondeterministic (cancellation, refusals by validation or
hooks, failing statements, closing, restart) is switched on per run by `Faults`.

`MessageLog` is the abstract specification of the write path: a log that grows
by numbered, unique entries, and receipts given only for entries of the log.
`Writer!ImplementsLog` states the refinement.

`Executor` is the abstract specification of the two parts that cause effects outside the
relay: a job is handed over at most once, its outcome is final, and only what was handed over is
ever said to be done. `Policy!ExecutesEffects` and `Endpoint!ExecutesRequests` state that the
gateway and the endpoint implement it, each with a refinement mapping (`StateOf`). They differ
in `From`, the state a job is handed over from: the gateway's transaction claims a request
in the step that counts as handing it over, the endpoint first stores an intent and calls the handler later.

`Delivery` models a user's connections to chats, appenders that wake and appenders that do
not (another process, or a commit whose wake is coalesced), a chat that had `Old`
messages before the user joined, the shared poll of
heads with its read and its application as two steps, the two reads of `Events` and the
writing of the page to the socket event by event, retention, and membership with
`DisconnectUser`. `PutMember` moves the join position as the code does: forward on a return
without `allow_history`, and to the start with it, which a member that is active and
subscribed may be granted too. `audience` records who may know of each event: the members
at its time, and those granted the history later; `hidden` the latest join position a
connection's replay met, as what was skipped below it was not the member's then.

`Files` models the life of an upload. Database rows (`up`) and the directory
(`dir`) change in separate steps of the mutex holder (`at`): `mkdir` after the
reservation, `temp`, `rename` and `insert` for a chunk, `mark` after the
verification, `purge`, `remove` and `scan` in cleanup. A failing call stops the
holder at any of them, and `Restart` kills the process there; the next process first runs
cleanup (`booting`). Publication is the pair of hooks a message runs before it
is queued (`PrepareMessage`) and in its transaction (`Publish`), deletion the hook
`DeleteMessage`; neither takes the mutex. That a failing `INSERT` of a cancelled
request may have taken effect is SQLite's and `database/sql`'s behaviour, hence an
assumption about code outside this repository.

`Calls` models one direct chat. What a handler reads of its own two tables under
the mutex cannot change before it writes, so these reads are one step; reads of
members and of the chat can be stale, so creation reads the number of members, the
peer, and the transaction's own checks in three steps, and a signal has a read
step and a transaction. `AttachAgent`, `PutMember`, `RevokeDevice` and
`ConfirmEpoch` fall between any two of them. `log` is the event stream a client
sees.

`Tasks` models the AI participants of a chat (tables `ai_jobs` and `ai_chats`) and the
named agents (`ai_tasks`, `ai_sessions`) as three kinds of one machine. A worker claims a
task, converses with a streaming provider in up to `MaxSteps` calls with tools
between them, and completes it; every transaction is an action, so that
cancellation, deletion, exclusion and readmission of members, MLS commits and
`Restart` fall between any two steps. A task that was cancelled may leave its provider call in
flight, and the session's next task is claimed meanwhile: `active` is the map the code keeps
of conversations that have not returned. Progress is read in pages of `PageSize` chunks (200 in
the code). Context and answer are the sets of messages they were
made from, which is what `Forgotten` and `NoLateAnswer` are about. The MLS
generation of an agent's answer is claimed in one transaction and used after it.

`Policy` extends `Tasks` and replaces its conversation: each provider call and tool is a
request `<<task, step, action>>`, begun, perhaps left waiting for an approval with its
continuation saved, reserved on the global account and on the session's, sent
(`sent` counts it), and settled. Bot and user accounts are one account per session, and a step
has one tool call. `Ask` marks the task as waiting and `Leave` lets go of it; an approval may
come between the two. Requests, accounts and approvals survive a restart, a conversation
does not.

`Retrieval` models the storage calls of one conversation: preflight, retrieval, the
release of what was retrieved to the provider, and the filter on the context
kept afterwards, against approvals, grants and their revocation in any order.
`Vault` states the two queries, `Search` and `GraphBFS`, as
functions of their rows; `MCRetrieval` assumes `SearchCorrect` and `GraphCorrect`, which
compare them with definitions without lists and levels on all small inputs, so
that TLC evaluates the comparison before the run. The levels of `GraphBFS`
read one snapshot.

`Endpoint` models the micro-safer's process: `at` follows the run loop through draining,
checking, flushing and polling, `item` is the message it works on. What survives
`Crash` is what its own SQLite file holds (MLS state, inbox, intents, grants, outbox,
cursor). The relay may rekey once, which counts as a fault; the endpoint joins only once, as
`Join` refuses a participant that has a group. The peer may send what cannot be decoded
(`Undecodable`), which stops the process at every poll, and requests whose errors are not
answered but end the process (`RPCInvalid`). `effects` is the history of
handlers called; a response of the outbox carries the MLS generation it was sealed
with.

`MLS` models the relay of end-to-end encrypted chats. Handlers are single
transactions, hence actions; a message passes from the hook of `Prepare` to the writer's
transaction in two. The tree of a commit is the set of devices it leads to; the
relay cannot read it, and docs/e2ee.md obliges the authority to put up that tree
as the roster. The AI hooks of the relay are in `Tasks`.

The proofs about a module are in the module of its name with `Proofs`; `PolicyProofs`
also holds those about `Tasks`, which `Policy` extends. The `MC` modules
give the constants values for TLC. Definitions named `Mut...` are
deliberately wrong variants of the definition that follows them. No specification
uses them; substituting one for its original makes TLC refute the property
`PROJECT.json` names beside it, which shows that the property depends on that code.

## Runs

| Run | Question | Bounds and why they are enough |
|---|---|---|
| `writer_retry` | do slots stay within the capacity, does an error leave nothing behind, does acknowledged mean durable, and does the path implement `MessageLog` (once, gapless, receipts for what was asked), under cancellation, failing storage and restart? | two clients, one device; an id repeated inside a request, a request that is one group, and one split by bytes: two attempts of one id in any two stages, and a bystander in the same group, are the cases the code distinguishes |
| `writer_gate` | is anything committed that is no longer allowed, and does every admitted submitter get its results although the core closes? | two administrative transactions of any kind, close and refusals, against two requests of an e2ee chat for a queue of one; the messages are so large that the writer keeps the second for the next round. Administration waits while a batch has the connection, so that batches of more messages (`writer_retry`) add nothing here; with fairness |
| `delivery` | is a connection ever left behind with no notification due, does paged replay skip anything, is anything sent of a time when the user was no member, does a connection catch up? | one connection that subscribes one event behind, one chat with one message before the user joins and two events after, pages of two and two pages a turn, edits, silent appends, retention, removal, return and grants of history, with fairness: the user is removed, or removed and back, between the reads of a page or between two writes, and a message of before the join is edited after it. A message sent while the user is away, and read after the return, takes a fourth event, which liveness is too expensive for; the theorem has no such bound |
| `files` | does a download deliver what was declared, does what a live message refers to stay downloadable (access, files and key), can an interrupted upload be resumed, is unneeded space reclaimed? | one upload of two chunks, two contents of equal size of which one is wrong, two messages, two downloads, four faults, with fairness: every pair of steps of the holder can be cut, and one reference be deleted while the other is published. Uploads share nothing but the quota, so one is enough |
| `calls_secret` | is there one call at a time, and does media enter the log during a rekey? | an e2ee chat, two calls, creations of both sides at once, media of two epochs, two changes of members, devices and epoch |
| `calls_plain` | are answers true, does a call nobody ends end and get forgotten? | a basic chat, one call, three signals (one of them media) under one operation id, two administrative changes, an agent, one fault, with fairness |
| `calls_agent` | is a call created between active participants when an agent can be attached? (expected violation) | one call, three administrative changes |
| `tasks` | does a context or an answer survive the message it was made from, has a session one owner, also while a cancelled call is in flight, are MLS generations used once, does a member that reads progress page by page miss a chunk while old ones are dropped? | two tasks of one session, of each kind, two workers, two provider calls a task, three progress chunks of the first read in pages of one, two administrative changes, one fault: a change before and one after any step of either worker |
| `policy` | is an effect sent twice or after its revocation, do accounts equal their ledger, is a continuation kept of a deleted message, does the queue move on, does the gateway implement `Executor`? | two tasks of one chat's agent, a worker, a tool that needs approval, costs above the reservation (3 for 2) and caps (5 and 4) that the second task meets, a change of the day between reservation and settlement, one administrative change and one fault, with fairness. One worker is enough: the code serialises a session, which `tasks` checks; named agents use the same gateway |
| `endpoint` | is a handler called twice for a request or grant, a generation sealed twice, a message made unreadable; does the work of a quiet relay end with every response sent; does the endpoint implement `Executor`? | two messages of the peer among requests of all handlers with and without approval, repeated, garbled, undecodable and invalid ones included, an inbox of two, pages of two, one frame of a stream, one fault at any step, with fairness |
| `mls` | has an open chat a current roster, is a one-time key used once, do Welcomes lead into the confirmed epoch, does an inbox lose anything, is a message stored for somebody who left? | two members with a device each, one key package, pages of one, two changes of members, accounts and devices, a message between its hooks |
| `retrieval` | is anything retrieved let out or remembered after its grant ended, do approval and grant in either order get the task to its call? | two calls of one conversation on two resources, three nonces of which two name one request, two changes, one restart, with fairness |

Deadlock is checked except in `tasks`, `policy`, `mls` and `retrieval`,
where the system stops when the bounded messages are used up.

## Findings

`calls_agent`: the transaction of a call re-checks how many members are active,
not who. The membership of a direct chat is fixed, so this suffices
except where an AI agent takes the place of a removed member.

Two more disagreements with the documents are excepted by name in a property of a passing run:

* An upload whose last message was deleted is revoked, and its key wiped
  (`modules/files.go:70`). `complete` answers a ready upload at once and verifies every other
  one, a revoked one included (`files.go:432`); called before cleanup has run, it makes the
  upload ready again with nothing reserved, and a new message can refer to it. Its chunks can be
  downloaded, its key cannot (`files.go:529`), although `docs/files-calls.md:46` promises that
  the server keeps it. `AttachmentsKept` and `Reclaimed` except this sequence (`revived`).
* The response that reports an uncertain effect has sequence 1 when the
  request is met again after a crash (`microsafer/rpc.go:350`) and when a stream fails before
  its first frame (`rpc.go:427`), or that of the frame that could not be sent. An outbox that
  has the notice or the frame under this operation id keeps it and drops the report
  (`store.go:430`), against `docs/ai-stage3.md:89`. `WorkEnds` therefore promises the
  requester of an uncertain effect some response, not the report.

The models also show behaviour that no document clearly contradicts, or that the
properties except, and that a maintainer should know:

* `Events` (`core/messages.go:620`) tests expiry in one read and reads the page in another: a
  retention batch between them makes the page start behind events that are gone,
  without the error that `docs/files-calls.md:33` describes. `NothingSkipped` is about
  events that have not expired.
* The endpoint stops for ever before a message of its peer that cannot be decoded or decrypted
  (`microsafer/runtime.go:237-248`): the cursor stays before the page. `WorkEnds` excepts what
  comes after it. A grant that is missing or cannot be parsed, an empty body and unsafe
  identifiers (`rpc.go:186`, `rpc.go:364`) are not taken for errors of the application
  (`runtime.go:316`), so that the requester is sent nothing and the process ends; so does a relay
  check that fails for a moment. An earlier error with sequence 1 stands for a later one and
  for a notice. Uncertain intents count toward `max_pending` for ever. An empty page resets the
  poll cursor, which only costs a second reading.
* `docs/ai-stage3.md:87` and the comment above `JoinWelcome` (`microsafer/participant.go:126`) speak of an
  offline rejoin after a change of the epoch. `cryptoenc/mls.go:138` refuses to join with a state that
  has a group, so the operator has to begin with a new state file. `WorkEnds` excepts a change of the epoch.
* A direct AI job whose answer the storage refuses (`modules/ai.go:878`) is left running, and its
  chat's queue stands until a restart or a cancellation; `Retrieval!Final` has the case.
  `PolicyQueueMoves` excepts sessions with a task that runs and has no worker (`Abandoned`).
* An unconfirmed MLS transition whose device was revoked, or whose tree no longer fits
  the members, can be neither confirmed nor replaced (`modules/e2ee.go:37`): the chat stays
  behind its barrier.
* Disabling or enabling an account (`core/management.go:51`) raises no barrier: an account that
  is enabled again after an epoch was confirmed without it is active and not covered by the roster,
  which `docs/e2ee.md:89` requires at confirmation. `RosterCurrent` is about membership and
  revocation, which do raise it.
* A resource deleted and made again between preflight and retrieval is taken for the
  first one (`modules/ai_storage.go:464`). A request whose first grant was revoked never gets a
  second (the request is UNIQUE among grants); `BothServed` is about grants that stand.

## Fairness

`Writer!FairSpec` is weak fairness of the writer goroutine and of every request
goroutine: the Go scheduler runs what can run, and no step of them waits for
anything but the steps modelled. Nothing is assumed of clients, administrators,
cancellation or close. `Delivery!FairSpec` assumes the same of the handlers and
the polling loop, and that a `select` whose channel stays ready is eventually
taken. `Files!FairSpec` and `Calls!FairSpec` assume weak fairness of the mutex
holder, and strong fairness of the start of cleanup, which the ticker requests every
minute and a Go mutex, which does not starve a waiter, eventually grants. For `Resumable` a client
keeps sending what is missing, as it was declared; for `CallsEnd` time passes. `Policy!PFairSpec`
assumes weak fairness of the workers, of the passing of a request's time and of the cleanup
of expired requests, which the janitor calls on a ticker; nobody has to approve. `Endpoint!FairSpec` is weak
fairness of the process, a supervised loop that starts again after a crash, and
`Retrieval!FairSpec` of the worker. Neither assumes anything of the relay, the peer or
management. Failing calls and
restarts are bounded (`MaxFaults`), as no cleanup survives failures that never stop.

## Proofs

Every theorem is about the specification without fairness and holds for every value of
the constants that satisfies the `...Assumption` of its module; TLC evaluates these
assumptions on every run. They say what kind of values the constants are (numbers,
functions between the right sets, distinct placeholders), that two people share a direct chat
(`Calls`), that an encrypted chat has no agents in `Calls` (the code refuses to attach
one), and that an encrypted AI chat is one session (`Tasks`). The bounds (`MaxSeq`,
`MaxFaults`, `MaxAdmin`, ...) are arbitrary naturals. The invariants below were checked
with TLC before they were proved; the argument is the same everywhere: the initial states
satisfy the invariant, every action keeps it, and it implies the property.

**`WriterProofs`** (`Writer`)

* `TypeOKHolds`: `TypeOK` is not inductive alone, since the code indexes lists: `Indexed`
  adds that the message prepared next exists, that results and messages of a request
  correspond, and that a batch has a result per job when it replies.
* `QueueBounded`: `QueueBound` with `NonEmpty`, which says that no empty group is
  submitted, queued or processed; without it paying slots back could raise the count.
* `AckedDurableHolds`: `DurInv` follows a result from where it is produced to the
  client. Every stored operation names a row of its own store; results of a running
  transaction are named by it, and if none of them is fresh the transaction equals the
  database, which is why `executeBatchContext` may roll back a batch without changes and still
  answer its repeated jobs; a failed transaction loses every acceptance in `Final`.
  No run checks `AckedDurable` separately, as it follows from `ImplementsLog`.
* `GatedCommitHolds`: `LogInv` says that a store's rows are numbered without gaps up to
  its counters, one per operation, and that what the running transaction added lies behind
  the committed rows, was gated when it was added, and has a fresh result. Administration
  cannot run while a batch has the connection, so what was gated still is at the commit.
* `DefinitiveOutcomeHolds`: `FlightInv` says that every job is in one place, once, between
  the request's group and the batch, and that a job without result belongs to a group
  somebody waits for; `OutcomeInv` that a message is written exactly when its client was
  told so or the writer is about to tell it.
* `ImplementsLogHolds`: the refinement of `MessageLog`, one abstract step per concrete one:
  a commit extends the log by the rows of `LogInv`, an answer issues receipts that by
  `FlightInv` are for what was asked and by `DurInv` name rows of the log, every other step
  stutters.

**`DeliveryProofs`** (`Delivery`)

* `NoLostWakeHolds`, `NothingSkippedHolds`, `TypeOKHolds`: `DeliveryInv` has a part for the chats
  and five for each connection. `Bounds`: no head known or read by the poll is ahead of the
  chat's, so that an append always makes the next poll see a new one. `Registered`: a
  subscription is in the registry, hence notified. `Flushing`: a turn goes through chats that are
  subscribed, each once. `Paging`: between the two reads of a flush the page's start is not
  beyond what the cursor and the history allow, and if the head moved since the first read,
  something will tell. That is what makes a short page of the single-event form, which is bounded by the
  old head, safe to end the flush on. `Woken` and `Gapless` are the two properties by connection.
* `OnlyEntitledHolds` rests on `AccessInv`, as what is sent was read in an earlier step, before a removal
  perhaps. `Journal`: a chat has one entry and one audience per event, and an event shows
  content not younger than itself. `Members`: who is a member may know of every event from the join position on,
  also after `allow_history` has moved it back. `Seen`: the head the first read saw is not
  beyond the chat's. `Held`: everything a connection was sent, or has read and not sent yet, is for it.
* The pages rest on `Ranks`, `Extremes` and `FirstFacts`: the first n elements of a finite
  set of numbers, defined by counting, are closed downwards and are all of it when fewer; the
  proof counts ranks, as induction over the set is out of reach.

**`FilesProofs`** (`Files`): `AttachmentsKeptHolds` and `ServedAsDeclaredHolds` share an
invariant. `RowsSound`: no links before an upload is ready, ids are not given out twice.
`Sent`: a message is prepared and committed once. `Holding`: what the mutex holder read
before a step on the disk still holds after it. `VerifiedSettled` and `GrantedSettled`: from
verification on, also after the row is gone, an upload's files hold what was declared or
nothing, which is why a download may read them without the mutex. `AttachmentsKept` needs two parts
more: `Attached`, a live message is linked to its uploads and they are ready, and `WholeInv`, what is
ready has all its files and rows, and its key unless it was completed again after its last message was deleted.

**`CallsProofs`** (`Calls`)

* `OneCallHolds`: `OneCall` is checked two steps before the row is inserted, and a signal
  writes a state derived from an earlier read. `Held` says that what the mutex holder found is
  still true when it writes.
* `NoMediaInRekeyHolds`: `Rekeying` says that the barrier is up from the moment somebody left or
  joined until an epoch is confirmed.
* `AnswersTrueHolds`: `History` extends the property to all stored operations, and says that a
  call's state is what its events say and that no event names a call whose id is free.
* `BetweenActiveHolds` has the hypothesis `Agents = {}`: `calls_agent` refutes the property with an
  agent, and the theorem says that this is the only way. `Peers`: a peer read from a chat of two people
  stays the other one.

**`PolicyProofs`** (`Tasks`, then `Policy`)

* `OneAtATimeHolds`, `ForgottenHolds`, `NoLateAnswerHolds` rest on `Safe`: `Exclusive` (one task
  of a session is running or awaiting, no two workers hold a task, and one that is leaving its
  conversation holds none), `Clean` (contexts, and the
  turns of workers whose task still runs, hold no deleted message) and `Once` (what is
  answered has succeeded). `OneAtATime` also needs `Mapped`: the map of conversations has exactly the tasks
  of the workers that converse, and no task is in the hands of two, a leaving one included;
  `Tidy` names the four ways a step can change workers and map.
* `ProgressWholeHolds` is `ProgressWhole` with the types of chunks and cursors, for every size of a page.
* `FreshGenerationsHolds`: `Ratchet` says that every seal used a generation before the stored
  one, and that a worker about to publish holds the stored one.
* `PolicyJobsHold`, `ContinuationsForgottenHolds`: the same `Safe` for the conversation with the
  gateway, with `Continuations`: a saved conversation has only its session's messages, none deleted.
* `SentOnceHolds`, `RevokedNeverSentHolds`: `Requests` says that exactly the requests that are out were
  sent, once, and that a worker in a call waits for one of them. What is out stays out.
  `SentOnce` follows from `ExecutesEffects`, which the run checks.
* `BalancedHolds`: `Books` adds to the property that a request which is out and not settled still has its
  whole reservation in the ledger, so that settling or dropping it takes back exactly what
  was added, on the account of the day it was reserved. A sum over rows is defined as the size of a pile of
  units (`Total`), one per row and number below its amount, which is finite and can be compared by
  bijections where a fold would need induction: a step that changes one row changes the piles of the accounts
  the row is on, and of no other.
* `ExecutesEffectsHolds`: the refinement of `Executor`, effect by effect. `InFlight` says that the
  request a worker is in a call for is still marked as dispatched; with it a result is only ever stored for what was
  handed over and is not concluded. It needs `Exclusive` in its full form (no two workers hold
  one task), since a deletion or a restart may finish the task while its worker is in the call.

**`EndpointProofs`** (`Endpoint`): one invariant carries `TypeOKHolds`, `EffectOnceHolds`,
`GenerationOnceHolds` and `StillReadableHolds`. `MLSAgrees`: what the process has in memory is the
stored MLS state, or one that has only encrypted more; hence a crash gives back generations
only that were never sent. `IntentsDistinct`, `EffectsStored`, `CallFresh`: every handler called has its intent
and grant stored, and the request about to be dispatched has what no earlier one had.
`ExecutesRequestsHolds`, the refinement of `Executor`, needs two more parts. `Unanswered`: from its dispatch to
the update of its intent, a request has no response stored with it; this is what `RPCAgain` and
`RPCInterrupted` test after a crash. `Handled`: when a response other than "uncertain" is on its way, the
handler was called. `EffectOnce` then makes the number of calls of a client 0 or 1.

**`MLSProofs`** (`MLS`): `TypeOKHolds`; `RosterCurrentHolds` and, from it,
`ReadersStillMembersHolds`; `PackageOnceHolds` with `OneTime` (a Welcome's package is marked used,
and a used one is claimed); `WelcomesLeadInHolds` with `LeadIn` (one commit at a time is
unconfirmed, it was made in the chat's epoch, and Welcomes of a later epoch are its own);
`InboxWholeHolds` with `Given` (no cursor is beyond the end of its table).

**`RetrievalProofs`** (`Retrieval`): `NothingAfterRevocationHolds` and `NothingRememberedHolds` rest
on `OneGrant` (a request has one row, so the grant checked is the one used), `Tracked` (what the
conversation holds is known to its boundary), `BarredEnded` and `Released` (between the check and the
release nothing held is barred).

Proving found three places where a module had to change: `Calls!Believed` was a `CASE` with
overlapping guards, which defines nothing in particular where two apply; `MLS!SubmitCommit`
took its packages as a set although a request lists them; and `Delivery` had to say
that the placeholder of a connection without flush is no chat. `Policy!Balanced` was first
written with a fold; it now counts units, which means the same and can be proved about. Proving
`ExecutesEffects` showed that `Exclusive` had to forbid two holders of a task in every state of
the task, not only while it runs.

Only model-checked: what `Bytes`, `Search` and `GraphBFS` compute, as nothing can be proved about folds
without induction over data; and all liveness (`EveryWaitEnds`, `CatchesUp`, `Resumable`,
`Reclaimed`, `CallsEnd`, `PolicyQueueMoves`, `WorkEnds`, `BothServed`), as fairness and
`ENABLED` are beyond the prover. Every safety property of a passing run is proved.

## Plan

What is worth adding: a register of one call per chat as the abstract specification of `Calls`
(its refinement would follow from `Held`).

## Not modelled

Parsing, wording, metrics, sealing and the contents of payloads; configuration
and cryptography, which are pure; provider protocols, which are pure or
I/O; commands, benchmarks and tools. Authentication: a ticket is consumed by one
`DELETE ... RETURNING` (`core/realtime.go:116`) and admission is a counting semaphore, so
that nothing interleaves inside them; the checkpointer and the statement cache keep
no state of the protocol. Edits, reactions, replies and forwards are one
transaction each, which compares the revision it was given; deletion is modelled
where tasks, policy and files hook into it.

In the write path: history and receipts, which only read, `execute` and the jobs
with callbacks (used by tests only), the branch without a writer (no caller in
the service), and the expiry of operation rows, so that retries are
deduplicated without limit in time. A failing SQLite commit is taken as not
durable. In `Files`: sealing, file modes and the access rules of members; in
`Calls`: TURN credentials, the contents of payloads, and retention of events; in
`MLS`: leaf indices, wires and signatures; in `Tasks` and `Policy`: prompts, tokens and how
usage is read; in `Retrieval`: storing documents and edges under their quotas; in
`Endpoint`: envelopes, destinations and the configuration of handlers.
