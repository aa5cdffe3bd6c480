-------------------------------- MODULE Files --------------------------------
(***************************************************************************)
(* File uploads (internal/modules/files.go): rows of the tables uploads,   *)
(* upload_chunks and upload_messages on one side, a directory of chunk     *)
(* files per upload on the other, which no transaction spans.              *)
(*                                                                         *)
(* create, chunk, complete and cleanup hold the store's mutex, so one of   *)
(* them runs at a time: "at" says where.  Publication (the Prepare and     *)
(* InTransaction hooks of a message), global deletion (the OnDelete hook), *)
(* downloads and the clock do not take it.  An upload id stands also for   *)
(* the operation that created it; refusals that change nothing (access,    *)
(* metadata, checksums of the request) are handlers that never start.      *)
(*                                                                         *)
(* Definitions named Mut... are wrong variants of the definition they      *)
(* precede; no specification uses them (see the README).                   *)
(***************************************************************************)
EXTENDS Integers, FiniteSets

LOCAL INSTANCE FiniteSetsExt

CONSTANTS
  Uploads,     \* upload ids
  Chunks,      \* number of chunks of an upload
  Contents,    \* what a chunk may contain
  Declared,    \* the contents whose digest the creator declared, per index
  Size,        \* wire bytes of a content
  Messages,
  Readers,     \* download requests
  Reserve,     \* reserved bytes of an upload
  MaxStorage,  \* policy max_storage_bytes
  MaxFaults,   \* bound on failing calls and crashes of a behaviour
  None         \* no content

Idx == 0..(Chunks - 1)

ASSUME FilesAssumption ==
  /\ Chunks \in Nat \ {0}
  /\ Declared \in [Idx -> Contents]
  /\ Size \in [Contents -> Nat \ {0}]
  /\ Reserve \in Nat \ {0} /\ MaxStorage \in Nat /\ MaxFaults \in Nat
  /\ None \notin Contents

VARIABLES
  up,        \* rows of uploads, upload_chunks and upload_messages
  used,      \* ids that were ever given out
  dir,       \* the directories
  live,      \* [msg, files]: messages committed and not deleted
  sent,      \* messages ever committed
  prepared,  \* [msg, files]: messages past the Prepare hook
  at, cu, ci, cx, \* the mutex holder: step, upload, chunk index, contents
  todo,      \* uploads or directories cleanup has still to visit
  booting,   \* the first cleanup of a process has not ended
  faults,
  reader,    \* what each download was granted, or None
  served,    \* history: [file, idx, data] of every download
  revived    \* history: uploads completed again after their revocation

lockVars == <<at, cu, ci, cx, todo, booting>>
msgVars  == <<live, sent, prepared>>
readVars == <<reader, served, revived>>
vars == <<up, used, dir, msgVars, lockVars, faults, readVars>>

-----------------------------------------------------------------------------
NoRows  == [i \in Idx |-> None]
Absent  == [state |-> "none", published |-> FALSE, expired |-> FALSE, reserved |-> 0,
            key |-> FALSE, rows |-> NoRows, links |-> {}]
Fresh   == [Absent EXCEPT !.state = "uploading", !.reserved = Reserve, !.key = TRUE]
NoDir   == [made |-> FALSE, files |-> NoRows, temp |-> FALSE]

Stored(u) == up[u].state # "none"
Reserved  == MapThenSumSet(LAMBDA u : up[u].reserved, Uploads)
Received(rows) == {i \in Idx : rows[i] # None}
Bytes(rows) == MapThenSumSet(LAMBDA i : Size[rows[i]], Received(rows))

Init ==
  /\ up = [u \in Uploads |-> Absent] /\ used = {}
  /\ dir = [u \in Uploads |-> NoDir]
  /\ live = {} /\ sent = {} /\ prepared = {}
  /\ at = "free" /\ cu = None /\ ci = 0 /\ cx = None /\ todo = {} /\ booting = TRUE
  /\ faults = 0
  /\ reader = [r \in Readers |-> None] /\ served = {} /\ revived = {}

Free == at = "free" /\ ~booting
Unlock == at' = "free" /\ cu' = None /\ ci' = 0 /\ cx' = None /\ todo' = {}
MayFail == faults < MaxFaults
Fault == MayFail /\ faults' = faults + 1

-----------------------------------------------------------------------------
(* create                                                                  *)

\* The reservation is inserted only if the sum stays within the quota.
CreateInsert(u) ==
  /\ Free /\ u \notin used
  /\ Reserved + Reserve <= MaxStorage
  /\ up' = [up EXCEPT ![u] = Fresh]
  /\ used' = used \cup {u}
  /\ at' = "mkdir" /\ cu' = u
  /\ UNCHANGED <<dir, msgVars, ci, cx, todo, booting, faults, readVars>>

CreateMkdir ==
  /\ at = "mkdir"
  /\ dir' = [dir EXCEPT ![cu].made = TRUE]
  /\ Unlock
  /\ UNCHANGED <<up, used, msgVars, booting, faults, readVars>>

\* Mkdir fails; the reservation is taken back, unless that fails too.
CreateFails ==
  /\ at = "mkdir" /\ Fault
  /\ up' \in {up, [up EXCEPT ![cu] = Absent]}
  /\ Unlock
  /\ UNCHANGED <<used, dir, msgVars, booting, readVars>>

-----------------------------------------------------------------------------
(* chunk                                                                   *)

Writable(u) == up[u].state = "uploading" /\ ~up[u].expired

MutChunkAccepted(u, i, x) == up[u].rows[i] = None

\* A chunk already received is written again only if its file is gone.
ChunkAccepted(u, i, x) ==
  up[u].rows[i] \in {None, x} /\ (up[u].rows[i] = x => dir[u].files[i] = None)

\* The row without a file is removed before the size is checked.
ChunkBegin(u, i, x) ==
  LET rows == [up[u].rows EXCEPT ![i] = None]
  IN /\ Free /\ Writable(u) /\ ChunkAccepted(u, i, x)
     /\ up' = [up EXCEPT ![u].rows = rows]
     /\ IF Bytes(rows) + Size[x] <= Bytes(Declared)
          THEN at' = "temp" /\ cu' = u /\ ci' = i /\ cx' = x /\ UNCHANGED todo
          ELSE Unlock
     /\ UNCHANGED <<used, dir, msgVars, booting, faults, readVars>>

ChunkTemp ==
  /\ at = "temp"
  /\ dir' = [dir EXCEPT ![cu].made = TRUE, ![cu].temp = TRUE]
  /\ at' = "rename"
  /\ UNCHANGED <<up, used, msgVars, cu, ci, cx, todo, booting, faults, readVars>>

ChunkRename ==
  /\ at = "rename"
  /\ dir' = [dir EXCEPT ![cu].files[ci] = cx, ![cu].temp = FALSE]
  /\ at' = "insert"
  /\ UNCHANGED <<up, used, msgVars, cu, ci, cx, todo, booting, faults, readVars>>

\* A file operation fails; the temporary file is removed.
ChunkFails ==
  /\ at \in {"temp", "rename", "insert"} /\ Fault
  /\ dir' = [dir EXCEPT ![cu].temp = FALSE]
  /\ Unlock
  /\ UNCHANGED <<up, used, msgVars, booting, readVars>>

ChunkInsert ==
  /\ at = "insert"
  /\ up' = [up EXCEPT ![cu].rows[ci] = cx]
  /\ Unlock
  /\ UNCHANGED <<used, dir, msgVars, booting, faults, readVars>>

\* The insert reports an error and the file is removed.  With a cancelled
\* request the row may be there nevertheless.
ChunkInsertFails ==
  /\ at = "insert" /\ Fault
  /\ up' \in {up, [up EXCEPT ![cu].rows[ci] = cx]}
  /\ dir' = [dir EXCEPT ![cu].files[ci] = None]
  /\ Unlock
  /\ UNCHANGED <<used, msgVars, booting, readVars>>

-----------------------------------------------------------------------------
(* complete                                                                *)

MutVerified(u) ==
  Received(up[u].rows) = Idx /\ \A i \in Idx : dir[u].files[i] # None

\* All chunks are there, have the declared size, and the files the digest.
Verified(u) ==
  /\ Received(up[u].rows) = Idx /\ Bytes(up[u].rows) = Bytes(Declared)
  /\ dir[u].files = Declared

\* A ready upload is answered at once; every other state is verified, that of
\* a revoked upload which cleanup has not visited yet included.
CompleteVerify(u) ==
  /\ Free /\ Stored(u) /\ up[u].state # "ready" /\ ~up[u].expired
  /\ Verified(u)
  /\ at' = "mark" /\ cu' = u
  /\ UNCHANGED <<up, used, dir, msgVars, ci, cx, todo, booting, faults, readVars>>

CompleteMark ==
  /\ at = "mark"
  /\ up' = [up EXCEPT ![cu].state = "ready"]
  /\ revived' = IF up[cu].state = "deleted" THEN revived \cup {cu} ELSE revived
  /\ Unlock
  /\ UNCHANGED <<used, dir, msgVars, booting, faults, reader, served>>

CompleteFails ==
  /\ at = "mark" /\ Fault
  /\ Unlock
  /\ UNCHANGED <<up, used, dir, msgVars, booting, readVars>>

-----------------------------------------------------------------------------
(* cleanup                                                                 *)

MutDoomed(u) == Stored(u) /\ ~up[u].published /\ up[u].expired
Doomed(u) == Stored(u) /\ ((~up[u].published /\ up[u].expired) \/ up[u].state = "deleted")

CleanupSelect ==
  /\ at = "free"
  /\ todo' = {u \in Uploads : Doomed(u)}
  /\ at' = "purge"
  /\ UNCHANGED <<up, used, dir, msgVars, cu, ci, cx, booting, faults, readVars>>

\* The row goes first, with its chunk rows and links; an upload published
\* since it was selected stays.
CleanupDelete(u) ==
  /\ at = "purge" /\ u \in todo
  /\ todo' = todo \ {u}
  /\ IF Stored(u) /\ (~up[u].published \/ up[u].state = "deleted")
       THEN up' = [up EXCEPT ![u] = Absent] /\ at' = "remove" /\ cu' = u
       ELSE UNCHANGED <<up, at, cu>>
  /\ UNCHANGED <<used, dir, msgVars, ci, cx, booting, faults, readVars>>

CleanupRemove ==
  /\ at = "remove"
  /\ dir' = [dir EXCEPT ![cu] = NoDir]
  /\ at' = "purge" /\ cu' = None
  /\ UNCHANGED <<up, used, msgVars, ci, cx, todo, booting, faults, readVars>>

CleanupReadDir ==
  /\ at = "purge" /\ todo = {}
  /\ todo' = {u \in Uploads : dir[u].made}
  /\ at' = "scan"
  /\ UNCHANGED <<up, used, dir, msgVars, cu, ci, cx, booting, faults, readVars>>

\* Directories without an upload, temporary files and chunk files without a
\* row are what crashes leave behind.
Swept(u) ==
  IF Stored(u)
    THEN [dir[u] EXCEPT !.temp = FALSE,
                        !.files = [i \in Idx |-> IF up[u].rows[i] = None THEN None ELSE @[i]]]
    ELSE NoDir

CleanupScan(u) ==
  /\ at = "scan" /\ u \in todo
  /\ dir' = [dir EXCEPT ![u] = Swept(u)]
  /\ todo' = todo \ {u}
  /\ UNCHANGED <<up, used, msgVars, at, cu, ci, cx, booting, faults, readVars>>

CleanupEnd ==
  /\ at = "scan" /\ todo = {}
  /\ booting' = FALSE
  /\ Unlock
  /\ UNCHANGED <<up, used, dir, msgVars, faults, readVars>>

\* A query or a removal fails: the rest waits for the next cleanup, and a
\* process that is starting does not start.
CleanupFails ==
  /\ at \in {"purge", "remove", "scan"} /\ Fault
  /\ IF at = "remove"
       THEN \E gone \in SUBSET Idx :
              dir' = [dir EXCEPT ![cu].files = [i \in Idx |-> IF i \in gone THEN None ELSE @[i]]]
       ELSE UNCHANGED dir
  /\ Unlock
  /\ UNCHANGED <<up, used, msgVars, booting, readVars>>

-----------------------------------------------------------------------------
(* Messages, downloads, time, crashes.                                     *)

Publishable(u) == up[u].state = "ready" /\ (up[u].published \/ ~up[u].expired)

PrepareMessage(m, fs) ==
  /\ ~booting /\ m \notin sent /\ \A p \in prepared : p.msg # m
  /\ \A u \in fs : Publishable(u)
  /\ prepared' = prepared \cup {[msg |-> m, files |-> fs]}
  /\ UNCHANGED <<up, used, dir, live, sent, lockVars, faults, readVars>>

MutStillPublishable(u) == TRUE

\* The hook inside the message's transaction repeats the check; one upload
\* that fails it rolls the message back.
StillPublishable(u) == Publishable(u)

Publish(p) ==
  /\ p \in prepared
  /\ prepared' = prepared \ {p}
  /\ IF \A u \in p.files : StillPublishable(u)
       THEN /\ up' = [u \in Uploads |-> IF u \in p.files
                        THEN [up[u] EXCEPT !.published = TRUE, !.links = @ \cup {p.msg}]
                        ELSE up[u]]
            /\ live' = live \cup {p} /\ sent' = sent \cup {p.msg}
       ELSE UNCHANGED <<up, live, sent>>
  /\ UNCHANGED <<used, dir, lockVars, faults, readVars>>

LiveLinks(u) == up[u].links \cap {p.msg : p \in live}
Revoked(u, m) == m \in up[u].links /\ LiveLinks(u) = {m}

\* A global deletion revokes the uploads whose last live reference it takes.
DeleteMessage(p) ==
  /\ ~booting /\ p \in live
  /\ live' = live \ {p}
  /\ up' = [u \in Uploads |-> IF Revoked(u, p.msg)
              THEN [up[u] EXCEPT !.state = "deleted", !.reserved = 0, !.key = FALSE]
              ELSE up[u]]
  /\ UNCHANGED <<used, dir, sent, prepared, lockVars, faults, readVars>>

Accessible(u) ==
  /\ up[u].state = "ready"
  /\ IF up[u].published THEN LiveLinks(u) # {} ELSE ~up[u].expired

Grant(r, u) ==
  /\ ~booting /\ reader[r] = None /\ Accessible(u)
  /\ reader' = [reader EXCEPT ![r] = u]
  /\ UNCHANGED <<up, used, dir, msgVars, lockVars, faults, served, revived>>

\* The file is read after the access check, without the mutex.
Download(r, i) ==
  /\ reader[r] # None
  /\ served' = IF dir[reader[r]].files[i] = None THEN served
               ELSE served \cup {[file |-> reader[r], idx |-> i, data |-> dir[reader[r]].files[i]]}
  /\ reader' = [reader EXCEPT ![r] = None]
  /\ UNCHANGED <<up, used, dir, msgVars, lockVars, faults, revived>>

Expire(u) ==
  /\ Stored(u) /\ ~up[u].expired
  /\ up' = [up EXCEPT ![u].expired = TRUE]
  /\ UNCHANGED <<used, dir, msgVars, lockVars, faults, readVars>>

\* The process dies and is started again.  A rename whose directory was not
\* yet synced may be lost.
Restart ==
  /\ Fault
  /\ dir' \in IF at = "insert" THEN {dir, [dir EXCEPT ![cu].files[ci] = None]} ELSE {dir}
  /\ prepared' = {} /\ reader' = [r \in Readers |-> None]
  /\ Unlock /\ booting' = TRUE
  /\ UNCHANGED <<up, used, live, sent, served, revived>>

Holder ==
  \/ CreateMkdir \/ CreateFails
  \/ ChunkTemp \/ ChunkRename \/ ChunkFails \/ ChunkInsert \/ ChunkInsertFails
  \/ CompleteMark \/ CompleteFails
  \/ (\E u \in Uploads : CleanupDelete(u) \/ CleanupScan(u))
  \/ CleanupRemove \/ CleanupReadDir \/ CleanupEnd \/ CleanupFails

Next ==
  \/ (\E u \in Uploads : CreateInsert(u) \/ CompleteVerify(u) \/ Expire(u))
  \/ (\E u \in Uploads, i \in Idx, x \in Contents : ChunkBegin(u, i, x))
  \/ CleanupSelect \/ Holder
  \/ (\E m \in Messages, fs \in (SUBSET Uploads) \ {{}} : PrepareMessage(m, fs))
  \/ (\E p \in prepared : Publish(p))
  \/ (\E p \in live : DeleteMessage(p))
  \/ (\E r \in Readers : (\E u \in Uploads : Grant(r, u)) \/ \E i \in Idx : Download(r, i))
  \/ Restart

Spec == Init /\ [][Next]_vars

\* The mutex holder runs on, the cleanup ticker gets the mutex again and
\* again, and a client resumes its upload: it sends what is missing and
\* completes.
Resume(u) ==
  \/ (\E i \in Idx : ChunkBegin(u, i, Declared[i]))
  \/ CompleteVerify(u)

FairSpec ==
  /\ Spec /\ WF_vars(Holder) /\ SF_vars(CleanupSelect)
  /\ \A u \in Uploads : SF_vars(Resume(u))

-----------------------------------------------------------------------------
(* Properties.                                                             *)

Upload == [state : {"none", "uploading", "ready", "deleted"}, published : BOOLEAN,
           expired : BOOLEAN, reserved : {0, Reserve}, key : BOOLEAN,
           rows : [Idx -> Contents \cup {None}], links : SUBSET Messages]
Directory == [made : BOOLEAN, files : [Idx -> Contents \cup {None}], temp : BOOLEAN]

\* Types of the tables, the directories and the mutex holder.
TypeOK ==
  /\ up \in [Uploads -> Upload] /\ used \subseteq Uploads
  /\ dir \in [Uploads -> Directory]
  /\ sent \subseteq Messages
  /\ prepared \cup live \subseteq [msg : Messages, files : SUBSET Uploads]
  /\ at \in {"free", "mkdir", "temp", "rename", "insert", "mark", "purge", "remove", "scan"}
  /\ cu \in Uploads \cup {None} /\ ci \in Int /\ cx \in Contents \cup {None}
  /\ todo \subseteq Uploads /\ booting \in BOOLEAN /\ faults \in 0..MaxFaults
  /\ reader \in [Readers -> Uploads \cup {None}]
  /\ served \subseteq [file : Uploads, idx : Idx, data : Contents]
  /\ revived \subseteq Uploads

\* What a live message refers to can be downloaded: the access check passes,
\* the files are there, whole, and so is the key, however publication, deletion
\* of other references, expiry, cleanup, failures and crashes interleave.  An
\* upload that was revoked and completed again has its files, and no key.
AttachmentsKept ==
  \A p \in live : \A u \in p.files :
    /\ Accessible(u) /\ dir[u].files = Declared
    /\ up[u].key \/ u \in revived

\* A download delivers the declared contents or nothing, although the file is
\* read after the access check.
ServedAsDeclared == \A s \in served : s.data = Declared[s.idx]

\* The space of an upload that is revoked or expired unpublished is reclaimed,
\* unless its completion is requested again.
Reclaimed ==
  \A u \in Uploads :
    (Stored(u) /\ (up[u].state = "deleted" \/ (~up[u].published /\ up[u].expired)))
      ~>         \/ ~Stored(u) /\ dir[u] = NoDir
                 \/ up[u].state = "ready" /\ up[u].published

\* An upload interrupted at any point can be resumed until it expires, unless
\* the client itself stored other contents than it had declared.
Resumable ==
  \A u \in Uploads :
    (up[u].state = "uploading")
      ~> \/ up[u].state # "uploading" \/ up[u].expired
         \/ \E i \in Idx : up[u].rows[i] \notin {None, Declared[i]}

=============================================================================
