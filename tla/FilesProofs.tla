----------------------------- MODULE FilesProofs -----------------------------
(***************************************************************************)
(* Proofs about Files, for every value of its constants: what a live       *)
(* message refers to is kept, and what a download gets is what its creator *)
(* declared.                                                               *)
(***************************************************************************)
EXTENDS Files, TLAPS

-----------------------------------------------------------------------------
(* Types.                                                                  *)

Rows  == [Idx -> Contents \cup {None}]
Steps == {"mkdir", "temp", "rename", "insert", "mark", "remove"}

\* A step that is under way has its upload, and a chunk its index and content.
LockTyped ==
  /\ at \in Steps => cu \in Uploads
  /\ at \in {"temp", "rename", "insert"} => ci \in Idx /\ cx \in Contents

TypeInv == TypeOK /\ LockTyped

\* Changing the parts of a row keeps its type.
LEMMA RowTypes ==
  ASSUME up \in [Uploads -> Upload], NEW u \in Uploads
  PROVE  /\ \A r \in Rows : [up EXCEPT ![u].rows = r] \in [Uploads -> Upload]
         /\ [up EXCEPT ![u].state = "ready"] \in [Uploads -> Upload]
         /\ [up EXCEPT ![u].expired = TRUE] \in [Uploads -> Upload]
<1>1. up[u] \in Upload
  OBVIOUS
<1>2. ASSUME NEW r \in Rows PROVE [up EXCEPT ![u].rows = r] \in [Uploads -> Upload]
  BY <1>1 DEF Upload, Rows
<1>3. [up EXCEPT ![u].state = "ready"] \in [Uploads -> Upload]
  BY <1>1 DEF Upload
<1>4. [up EXCEPT ![u].expired = TRUE] \in [Uploads -> Upload]
  BY <1>1 DEF Upload
<1> QED
  BY <1>2, <1>3, <1>4

\* So does replacing a row as a whole.
LEMMA NewRows ==
  /\ Absent \in Upload /\ Fresh \in Upload
  /\ Absent.state = "none" /\ Fresh.state = "uploading" /\ Absent.links = {} /\ Fresh.links = {}
<1>1. NoRows \in Rows
  BY DEF NoRows, Rows
<1>2. Absent \in Upload
  BY <1>1 DEF Absent, Upload, Rows
<1>3. Absent.links = {}
  BY DEF Absent
<1>4. Fresh \in Upload
  BY <1>2 DEF Fresh, Upload
<1>5. Fresh.state = "uploading" /\ Fresh.links = {}
  BY <1>2, <1>3 DEF Fresh, Upload
<1> QED
  BY <1>2, <1>3, <1>4, <1>5 DEF Absent

\* And a directory is one after each change of its parts.
LEMMA DirTypes ==
  ASSUME dir \in [Uploads -> Directory], NEW u \in Uploads
  PROVE  /\ [dir EXCEPT ![u].made = TRUE] \in [Uploads -> Directory]
         /\ [dir EXCEPT ![u].temp = FALSE] \in [Uploads -> Directory]
         /\ [dir EXCEPT ![u].made = TRUE, ![u].temp = TRUE] \in [Uploads -> Directory]
         /\ [dir EXCEPT ![u] = NoDir] \in [Uploads -> Directory]
         /\ \A i \in Idx, x \in Contents \cup {None} :
              /\ [dir EXCEPT ![u].files[i] = x] \in [Uploads -> Directory]
              /\ [dir EXCEPT ![u].files[i] = x, ![u].temp = FALSE] \in [Uploads -> Directory]
<1>1. dir[u] \in Directory
  OBVIOUS
<1>2. NoDir \in Directory
  BY DEF NoDir, NoRows, Directory
<1>3. ASSUME NEW i \in Idx, NEW x \in Contents \cup {None}
      PROVE  /\ [dir EXCEPT ![u].files[i] = x] \in [Uploads -> Directory]
             /\ [dir EXCEPT ![u].files[i] = x, ![u].temp = FALSE] \in [Uploads -> Directory]
  <2>1. [dir[u].files EXCEPT ![i] = x] \in [Idx -> Contents \cup {None}]
    BY <1>1 DEF Directory
  <2> QED
    BY <1>1, <2>1 DEF Directory
<1>4. [dir EXCEPT ![u].made = TRUE] \in [Uploads -> Directory]
  BY <1>1 DEF Directory
<1>5. [dir EXCEPT ![u].temp = FALSE] \in [Uploads -> Directory]
  BY <1>1 DEF Directory
<1>6. [dir EXCEPT ![u].made = TRUE, ![u].temp = TRUE] \in [Uploads -> Directory]
  BY <1>1 DEF Directory
<1>7. [dir EXCEPT ![u] = NoDir] \in [Uploads -> Directory]
  BY <1>2
<1> QED
  BY <1>3, <1>4, <1>5, <1>6, <1>7

\* What the sweep leaves of a directory is a directory.
LEMMA SweptType ==
  ASSUME up \in [Uploads -> Upload], dir \in [Uploads -> Directory], NEW u \in Uploads
  PROVE  Swept(u) \in Directory
<1>1. dir[u] \in Directory /\ up[u] \in Upload
  OBVIOUS
<1>2. NoDir \in Directory
  BY DEF NoDir, NoRows, Directory
<1>3. [i \in Idx |-> IF up[u].rows[i] = None THEN None ELSE dir[u].files[i]]
        \in [Idx -> Contents \cup {None}]
  BY <1>1 DEF Directory
<1>4. [dir[u] EXCEPT !.temp = FALSE,
                     !.files = [i \in Idx |-> IF up[u].rows[i] = None THEN None ELSE @[i]]]
        \in Directory
  BY <1>1, <1>3 DEF Directory
<1> QED
  BY <1>2, <1>4 DEF Swept

LEMMA TypeInit ==
  ASSUME Init, FilesAssumption PROVE TypeInv
<1>1. up \in [Uploads -> Upload]
  BY NewRows DEF Init
<1>2. dir \in [Uploads -> Directory]
  BY DEF Init, NoDir, NoRows, Directory
<1>3. /\ reader \in [Readers -> Uploads \cup {None}] /\ served = {} /\ revived = {} /\ live = {} /\ prepared = {}
      /\ sent = {} /\ used = {} /\ at = "free" /\ cu = None /\ ci = 0 /\ cx = None /\ todo = {}
      /\ booting = TRUE /\ faults \in 0..MaxFaults
  BY DEF Init, FilesAssumption
<1> QED
  BY <1>1, <1>2, <1>3 DEF TypeInv, TypeOK, LockTyped, Steps

-----------------------------------------------------------------------------
(* Steps keep the types.                                                   *)

LEMMA CreateTypes ==
  ASSUME TypeInv, FilesAssumption,
         CreateMkdir \/ CreateFails \/ \E u \in Uploads : CreateInsert(u)
  PROVE  TypeInv'
<1>1. CASE CreateMkdir
  <2>1. cu \in Uploads
    BY <1>1 DEF CreateMkdir, TypeInv, LockTyped, Steps
  <2>2. dir' \in [Uploads -> Directory]
    BY <1>1, <2>1, DirTypes DEF CreateMkdir, TypeInv, TypeOK
  <2> QED
    BY <1>1, <2>2 DEF CreateMkdir, Unlock, msgVars, readVars, TypeInv, TypeOK, LockTyped, Steps
<1>2. CASE CreateFails
  <2>1. up' \in [Uploads -> Upload]
    BY <1>2, NewRows DEF CreateFails, TypeInv, TypeOK
  <2>2. faults' \in 0..MaxFaults
    BY <1>2, FilesAssumption DEF CreateFails, Fault, MayFail, TypeInv, TypeOK
  <2> QED
    BY <1>2, <2>1, <2>2 DEF CreateFails, Unlock, msgVars, readVars, TypeInv, TypeOK, LockTyped, Steps
<1>3. ASSUME NEW u \in Uploads, CreateInsert(u)
      PROVE  TypeInv'
  <2>1. up' \in [Uploads -> Upload]
    BY <1>3, NewRows DEF CreateInsert, TypeInv, TypeOK
  <2> QED
    BY <1>3, <2>1 DEF CreateInsert, msgVars, readVars, TypeInv, TypeOK, LockTyped, Steps
<1> QED
  BY <1>1, <1>2, <1>3

LEMMA ChunkBeginTypes ==
  ASSUME TypeInv, NEW u \in Uploads, NEW i \in Idx, NEW x \in Contents, ChunkBegin(u, i, x)
  PROVE  TypeInv'
<1>1. [up[u].rows EXCEPT ![i] = None] \in Rows
  BY DEF TypeInv, TypeOK, Upload, Rows
<1>2. up' = [up EXCEPT ![u].rows = [up[u].rows EXCEPT ![i] = None]]
  BY DEF ChunkBegin
<1>3. up' \in [Uploads -> Upload]
  BY <1>1, <1>2, RowTypes DEF TypeInv, TypeOK
<1>4. \/ at' = "temp" /\ cu' = u /\ ci' = i /\ cx' = x /\ UNCHANGED todo
      \/ Unlock
  BY DEF ChunkBegin
<1>5. UNCHANGED <<used, dir, live, sent, prepared, booting, faults, reader, served, revived>>
  BY DEF ChunkBegin, msgVars, readVars
<1>6. i \in Int
  BY DEF Idx
<1> QED
  BY <1>3, <1>4, <1>5, <1>6 DEF Unlock, TypeInv, TypeOK, LockTyped, Steps

LEMMA ChunkTypes ==
  ASSUME TypeInv, FilesAssumption,
         ChunkTemp \/ ChunkRename \/ ChunkFails \/ ChunkInsert \/ ChunkInsertFails
  PROVE  TypeInv'
<1>1. CASE ChunkTemp
  <2>1. cu \in Uploads
    BY <1>1 DEF ChunkTemp, TypeInv, LockTyped, Steps
  <2>2. dir' \in [Uploads -> Directory]
    BY <1>1, <2>1, DirTypes DEF ChunkTemp, TypeInv, TypeOK
  <2> QED
    BY <1>1, <2>2 DEF ChunkTemp, msgVars, readVars, TypeInv, TypeOK, LockTyped, Steps
<1>2. CASE ChunkRename
  <2>1. cu \in Uploads /\ ci \in Idx /\ cx \in Contents \cup {None}
    BY <1>2 DEF ChunkRename, TypeInv, LockTyped, Steps
  <2>2. dir' \in [Uploads -> Directory]
    BY <1>2, <2>1, DirTypes DEF ChunkRename, TypeInv, TypeOK
  <2> QED
    BY <1>2, <2>2 DEF ChunkRename, msgVars, readVars, TypeInv, TypeOK, LockTyped, Steps
<1>3. CASE ChunkFails
  <2>1. cu \in Uploads
    BY <1>3 DEF ChunkFails, TypeInv, LockTyped, Steps
  <2>2. dir' \in [Uploads -> Directory]
    BY <1>3, <2>1, DirTypes DEF ChunkFails, TypeInv, TypeOK
  <2>3. faults' \in 0..MaxFaults
    BY <1>3, FilesAssumption DEF ChunkFails, Fault, MayFail, TypeInv, TypeOK
  <2> QED
    BY <1>3, <2>2, <2>3 DEF ChunkFails, Unlock, msgVars, readVars, TypeInv, TypeOK, LockTyped, Steps
<1>4. ASSUME at = "insert"
      PROVE  [up EXCEPT ![cu].rows[ci] = cx] \in [Uploads -> Upload]
  <2>1. cu \in Uploads /\ ci \in Idx /\ cx \in Contents \cup {None}
    BY <1>4 DEF TypeInv, LockTyped, Steps
  <2>2. [up[cu].rows EXCEPT ![ci] = cx] \in Rows
    BY <2>1 DEF TypeInv, TypeOK, Upload, Rows
  <2>3. [up EXCEPT ![cu].rows = [up[cu].rows EXCEPT ![ci] = cx]] \in [Uploads -> Upload]
    BY <2>1, <2>2, RowTypes DEF TypeInv, TypeOK
  <2>4. up[cu] \in Upload
    BY <2>1 DEF TypeInv, TypeOK
  <2> QED
    BY <2>1, <2>2, <2>3, <2>4 DEF TypeInv, TypeOK, Upload, Rows
<1>5. CASE ChunkInsert
  <2>1. up' \in [Uploads -> Upload]
    BY <1>4, <1>5 DEF ChunkInsert
  <2> QED
    BY <1>5, <2>1 DEF ChunkInsert, Unlock, msgVars, readVars, TypeInv, TypeOK, LockTyped, Steps
<1>6. CASE ChunkInsertFails
  <2>1. up' \in [Uploads -> Upload]
    BY <1>4, <1>6 DEF ChunkInsertFails, TypeInv, TypeOK
  <2>2. cu \in Uploads /\ ci \in Idx
    BY <1>6 DEF ChunkInsertFails, TypeInv, LockTyped, Steps
  <2>3. dir' \in [Uploads -> Directory]
    BY <1>6, <2>2, DirTypes DEF ChunkInsertFails, TypeInv, TypeOK
  <2>4. faults' \in 0..MaxFaults
    BY <1>6, FilesAssumption DEF ChunkInsertFails, Fault, MayFail, TypeInv, TypeOK
  <2> QED
    BY <1>6, <2>1, <2>3, <2>4
    DEF ChunkInsertFails, Unlock, msgVars, readVars, TypeInv, TypeOK, LockTyped, Steps
<1> QED
  BY <1>1, <1>2, <1>3, <1>5, <1>6

LEMMA CompleteTypes ==
  ASSUME TypeInv, FilesAssumption,
         CompleteMark \/ CompleteFails \/ \E u \in Uploads : CompleteVerify(u)
  PROVE  TypeInv'
<1>1. CASE CompleteMark
  <2>1. cu \in Uploads
    BY <1>1 DEF CompleteMark, TypeInv, LockTyped, Steps
  <2>2. up' \in [Uploads -> Upload]
    BY <1>1, <2>1, RowTypes DEF CompleteMark, TypeInv, TypeOK
  <2> QED
    BY <1>1, <2>2 DEF CompleteMark, Unlock, msgVars, readVars, TypeInv, TypeOK, LockTyped, Steps
<1>2. CASE CompleteFails
  <2>1. faults' \in 0..MaxFaults
    BY <1>2, FilesAssumption DEF CompleteFails, Fault, MayFail, TypeInv, TypeOK
  <2> QED
    BY <1>2, <2>1 DEF CompleteFails, Unlock, msgVars, readVars, TypeInv, TypeOK, LockTyped, Steps
<1>3. CASE \E u \in Uploads : CompleteVerify(u)
  BY <1>3 DEF CompleteVerify, msgVars, readVars, TypeInv, TypeOK, LockTyped, Steps
<1> QED
  BY <1>1, <1>2, <1>3

LEMMA CleanupTypes ==
  ASSUME TypeInv, FilesAssumption,
         \/ CleanupSelect \/ CleanupRemove \/ CleanupReadDir \/ CleanupEnd \/ CleanupFails
         \/ \E u \in Uploads : CleanupDelete(u) \/ CleanupScan(u)
  PROVE  TypeInv'
<1>1. CASE CleanupSelect \/ CleanupReadDir \/ CleanupEnd
  <2>1. todo' \subseteq Uploads
    <3>1. CASE CleanupSelect
      BY <3>1 DEF CleanupSelect
    <3>2. CASE CleanupReadDir
      BY <3>2 DEF CleanupReadDir
    <3>3. CASE CleanupEnd
      BY <3>3 DEF CleanupEnd, Unlock
    <3> QED
      BY <1>1, <3>1, <3>2, <3>3
  <2>2. /\ UNCHANGED <<up, used, dir, live, sent, prepared, faults, reader, served, revived>>
        /\ UNCHANGED booting \/ booting' = FALSE
        /\ at' \in {"purge", "scan", "free"}
        /\ UNCHANGED <<cu, ci, cx>> \/ (cu' = None /\ ci' = 0 /\ cx' = None)
    BY <1>1 DEF CleanupSelect, CleanupReadDir, CleanupEnd, Unlock, msgVars, readVars
  <2>3. LockTyped'
    BY <2>2 DEF LockTyped, Steps
  <2>4. cu' \in Uploads \cup {None} /\ ci' \in Int /\ cx' \in Contents \cup {None}
    BY <2>2 DEF TypeInv, TypeOK
  <2>5. booting' \in BOOLEAN
    BY <2>2, Zenon DEF TypeInv, TypeOK
  <2> QED
    BY <2>1, <2>2, <2>3, <2>4, <2>5 DEF TypeInv, TypeOK
<1>2. CASE CleanupRemove
  <2>1. cu \in Uploads
    BY <1>2 DEF CleanupRemove, TypeInv, LockTyped, Steps
  <2>2. dir' \in [Uploads -> Directory]
    BY <1>2, <2>1, DirTypes DEF CleanupRemove, TypeInv, TypeOK
  <2> QED
    BY <1>2, <2>2 DEF CleanupRemove, msgVars, readVars, TypeInv, TypeOK, LockTyped, Steps
<1>3. CASE CleanupFails
  <2>1. dir' \in [Uploads -> Directory]
    <3>1. CASE at = "remove"
      <4>1. PICK gone \in SUBSET Idx :
              dir' = [dir EXCEPT ![cu].files = [i \in Idx |-> IF i \in gone THEN None ELSE @[i]]]
        BY <1>3, <3>1 DEF CleanupFails
      <4>2. cu \in Uploads
        BY <3>1 DEF TypeInv, LockTyped, Steps
      <4>3. dir[cu] \in Directory
        BY <4>2 DEF TypeInv, TypeOK
      <4>4. [i \in Idx |-> IF i \in gone THEN None ELSE dir[cu].files[i]]
              \in [Idx -> Contents \cup {None}]
        BY <4>3 DEF Directory
      <4> QED
        BY <4>1, <4>2, <4>3, <4>4 DEF Directory, TypeInv, TypeOK
    <3>2. CASE at # "remove"
      BY <1>3, <3>2 DEF CleanupFails, TypeInv, TypeOK
    <3> QED
      BY <3>1, <3>2
  <2>2. faults' \in 0..MaxFaults
    BY <1>3, FilesAssumption DEF CleanupFails, Fault, MayFail, TypeInv, TypeOK
  <2> QED
    BY <1>3, <2>1, <2>2 DEF CleanupFails, Unlock, msgVars, readVars, TypeInv, TypeOK, LockTyped, Steps
<1>4. ASSUME NEW u \in Uploads, CleanupDelete(u)
      PROVE  TypeInv'
  <2>1. up' \in [Uploads -> Upload]
    BY <1>4, NewRows DEF CleanupDelete, TypeInv, TypeOK
  <2> QED
    BY <1>4, <2>1 DEF CleanupDelete, msgVars, readVars, TypeInv, TypeOK, LockTyped, Steps
<1>5. ASSUME NEW u \in Uploads, CleanupScan(u)
      PROVE  TypeInv'
  <2>1. dir' \in [Uploads -> Directory]
    BY <1>5, SweptType DEF CleanupScan, TypeInv, TypeOK
  <2> QED
    BY <1>5, <2>1 DEF CleanupScan, msgVars, readVars, TypeInv, TypeOK, LockTyped, Steps
<1> QED
  BY <1>1, <1>2, <1>3, <1>4, <1>5

LEMMA MessageTypes ==
  ASSUME TypeInv,
         \/ \E m \in Messages, fs \in (SUBSET Uploads) \ {{}} : PrepareMessage(m, fs)
         \/ \E p \in prepared : Publish(p)
         \/ \E p \in live : DeleteMessage(p)
  PROVE  TypeInv'
<1>1. ASSUME NEW m \in Messages, NEW fs \in (SUBSET Uploads) \ {{}}, PrepareMessage(m, fs)
      PROVE  TypeInv'
  BY <1>1 DEF PrepareMessage, lockVars, readVars, TypeInv, TypeOK, LockTyped, Steps
<1>2. ASSUME NEW p \in prepared, Publish(p)
      PROVE  TypeInv'
  <2>1. p.msg \in Messages
    BY DEF TypeInv, TypeOK
  <2>2. up' \in [Uploads -> Upload]
    <3>1. ASSUME NEW u \in Uploads
          PROVE  [up[u] EXCEPT !.published = TRUE, !.links = @ \cup {p.msg}] \in Upload
      <4>1. up[u] \in Upload
        BY DEF TypeInv, TypeOK
      <4> QED
        BY <2>1, <4>1 DEF Upload
    <3>2. \/ up' = up
          \/ up' = [u \in Uploads |-> IF u \in p.files
                     THEN [up[u] EXCEPT !.published = TRUE, !.links = @ \cup {p.msg}]
                     ELSE up[u]]
      BY <1>2 DEF Publish
    <3>3. ASSUME NEW u \in Uploads
          PROVE  (IF u \in p.files
                    THEN [up[u] EXCEPT !.published = TRUE, !.links = @ \cup {p.msg}]
                    ELSE up[u]) \in Upload
      BY <3>1 DEF TypeInv, TypeOK
    <3> QED
      BY <3>2, <3>3 DEF TypeInv, TypeOK
  <2>3. /\ live' \in {live, live \cup {p}} /\ sent' \in {sent, sent \cup {p.msg}}
        /\ prepared' = prepared \ {p}
        /\ UNCHANGED <<used, dir, at, cu, ci, cx, todo, booting, faults, reader, served, revived>>
    BY <1>2 DEF Publish, lockVars, readVars
  <2> QED
    BY <2>1, <2>2, <2>3 DEF TypeInv, TypeOK, LockTyped, Steps
<1>3. ASSUME NEW p \in live, DeleteMessage(p)
      PROVE  TypeInv'
  <2>1. up' \in [Uploads -> Upload]
    <3>1. ASSUME NEW u \in Uploads
          PROVE  [up[u] EXCEPT !.state = "deleted", !.reserved = 0, !.key = FALSE] \in Upload
      <4>1. up[u] \in Upload
        BY DEF TypeInv, TypeOK
      <4> QED
        BY <4>1 DEF Upload
    <3> QED
      BY <1>3, <3>1 DEF DeleteMessage, TypeInv, TypeOK
  <2> QED
    BY <1>3, <2>1 DEF DeleteMessage, lockVars, readVars, TypeInv, TypeOK, LockTyped, Steps
<1> QED
  BY <1>1, <1>2, <1>3

LEMMA OtherTypes ==
  ASSUME TypeInv, FilesAssumption,
         \/ Restart
         \/ \E u \in Uploads : Expire(u)
         \/ \E r \in Readers : (\E u \in Uploads : Grant(r, u)) \/ \E i \in Idx : Download(r, i)
  PROVE  TypeInv'
<1>1. CASE Restart
  <2>1. dir' \in [Uploads -> Directory]
    <3>1. CASE at = "insert"
      <4>1. cu \in Uploads /\ ci \in Idx
        BY <3>1 DEF TypeInv, LockTyped, Steps
      <4>2. dir' \in {dir, [dir EXCEPT ![cu].files[ci] = None]}
        BY <1>1, <3>1 DEF Restart
      <4>3. None \in Contents \cup {None} /\ dir \in [Uploads -> Directory]
        BY DEF TypeInv, TypeOK
      <4>4. [dir EXCEPT ![cu].files[ci] = None] \in [Uploads -> Directory]
        BY <4>1, <4>3, DirTypes
      <4> QED
        BY <4>2, <4>3, <4>4
    <3>2. CASE at # "insert"
      BY <1>1, <3>2 DEF Restart, TypeInv, TypeOK
    <3> QED
      BY <3>1, <3>2
  <2>2. faults' \in 0..MaxFaults
    BY <1>1, FilesAssumption DEF Restart, Fault, MayFail, TypeInv, TypeOK
  <2> QED
    BY <1>1, <2>1, <2>2 DEF Restart, Unlock, TypeInv, TypeOK, LockTyped, Steps
<1>2. ASSUME NEW u \in Uploads, Expire(u)
      PROVE  TypeInv'
  <2>1. up' \in [Uploads -> Upload]
    BY <1>2, RowTypes DEF Expire, TypeInv, TypeOK
  <2> QED
    BY <1>2, <2>1 DEF Expire, msgVars, lockVars, readVars, TypeInv, TypeOK, LockTyped, Steps
<1>3. ASSUME NEW r \in Readers, NEW u \in Uploads, Grant(r, u)
      PROVE  TypeInv'
  BY <1>3 DEF Grant, msgVars, lockVars, TypeInv, TypeOK, LockTyped, Steps
<1>4. ASSUME NEW r \in Readers, NEW i \in Idx, Download(r, i)
      PROVE  TypeInv'
  <2>1. reader[r] \in Uploads /\ reader' \in [Readers -> Uploads \cup {None}]
    BY <1>4 DEF Download, TypeInv, TypeOK
  <2>2. dir[reader[r]] \in Directory
    BY <2>1 DEF TypeInv, TypeOK
  <2>3. dir[reader[r]].files[i] \in Contents \cup {None}
    BY <2>2 DEF Directory
  <2>4. served' \subseteq [file : Uploads, idx : Idx, data : Contents]
    BY <1>4, <2>1, <2>3 DEF Download, TypeInv, TypeOK
  <2> QED
    BY <1>4, <2>1, <2>4 DEF Download, msgVars, lockVars, TypeInv, TypeOK, LockTyped, Steps
<1> QED
  BY <1>1, <1>2, <1>3, <1>4

LEMMA TypeStep ==
  ASSUME TypeInv, FilesAssumption, [Next]_vars PROVE TypeInv'
<1>1. CASE UNCHANGED vars
  BY <1>1 DEF vars, msgVars, lockVars, readVars, TypeInv, TypeOK, LockTyped
<1>2. CASE Next
  BY <1>2, CreateTypes, ChunkBeginTypes, ChunkTypes, CompleteTypes, CleanupTypes, MessageTypes,
     OtherTypes DEF Next, Holder
<1> QED
  BY <1>1, <1>2

\* In every instance the types hold.
THEOREM TypeInvHolds == Spec => []TypeInv
<1>1. Init => TypeInv
  BY TypeInit, FilesAssumption
<1>2. TypeInv /\ [Next]_vars => TypeInv'
  BY TypeStep, FilesAssumption
<1> QED
  BY <1>1, <1>2, PTL DEF Spec

-----------------------------------------------------------------------------
(* The inductive invariant.                                                *)

\* Rows stand only for ids that were given out, which are never given out again;
\* an upload has no links before it is ready, and is published once it has one.
RowsSound ==
  \A u \in Uploads :
    /\ Stored(u) => u \in used
    /\ up[u].state \in {"none", "uploading"} => up[u].links = {}
    /\ up[u].links # {} => up[u].published

\* A message is prepared and committed once.
Sent ==
  /\ \A p, q \in prepared : p.msg = q.msg => p = q
  /\ \A p, q \in live : p.msg = q.msg => p = q
  /\ \A p \in live : p.msg \in sent
  /\ \A p \in prepared : p.msg \notin sent

\* The files of an upload hold what was declared, or nothing.
Settled(u) == \A i \in Idx : dir[u].files[i] \in {None, Declared[i]}

\* What the holder of the mutex relies on between two of its steps: nobody else
\* ends the upload it writes to, or writes what it has verified.
Holding ==
  /\ at \in {"mkdir", "temp", "rename", "insert"} => up[cu].state = "uploading"
  /\ at = "mark" => Settled(cu) /\ cu \in used

\* From its verification on nothing but what was declared is in an upload's files.
VerifiedSettled == \A u \in Uploads : up[u].state \in {"ready", "deleted"} => Settled(u)

\* A download reads the files it was granted, also long after the upload is gone:
\* the id is not used again, and no chunk is written to it any more.
GrantedSettled ==
  \A r \in Readers : reader[r] # None =>
    reader[r] \in used /\ up[reader[r]].state # "uploading" /\ Settled(reader[r])

\* What a live message refers to is ready and linked to it.
Attached == \A p \in live : \A u \in p.files : up[u].state = "ready" /\ p.msg \in up[u].links

FilesInv ==
  /\ RowsSound /\ Sent /\ Holding /\ VerifiedSettled /\ GrantedSettled
  /\ Attached /\ ServedAsDeclared

LEMMA InvInit == ASSUME Init, FilesAssumption PROVE FilesInv
<1>1. RowsSound
  BY NewRows DEF Init, RowsSound, Stored
<1>2. Sent /\ Attached /\ ServedAsDeclared /\ Holding
  BY DEF Init, Sent, Attached, ServedAsDeclared, Holding
<1>3. VerifiedSettled
  BY NewRows DEF Init, VerifiedSettled
<1>4. GrantedSettled
  BY DEF Init, GrantedSettled
<1> QED
  BY <1>1, <1>2, <1>3, <1>4 DEF FilesInv

\* A step that keeps state, links and publication of the rows, and takes files of
\* settled uploads away at most.
LEMMA Frame ==
  ASSUME TypeInv, FilesInv, UNCHANGED <<used, live, sent, prepared, served>>,
         \A r \in Readers : reader'[r] # None => reader'[r] = reader[r],
         \A u \in Uploads : /\ up'[u].state = up[u].state
                            /\ up'[u].links = up[u].links
                            /\ up'[u].published = up[u].published,
         \A u \in Uploads : up[u].state # "uploading" =>
           \A i \in Idx : dir'[u].files[i] \in {dir[u].files[i], None},
         Holding'
  PROVE  FilesInv'
<1>1. RowsSound'
  BY DEF FilesInv, RowsSound, Stored
<1>2. Sent'
  BY DEF FilesInv, Sent
<1>3. ASSUME NEW u \in Uploads, up[u].state # "uploading", Settled(u)
      PROVE  Settled(u)'
  BY <1>3 DEF Settled
<1>4. VerifiedSettled'
  <2>1. ASSUME NEW u \in Uploads, up'[u].state \in {"ready", "deleted"}
        PROVE  Settled(u)'
    BY <1>3, <2>1 DEF FilesInv, VerifiedSettled
  <2> QED
    BY <2>1 DEF VerifiedSettled
<1>5. GrantedSettled'
  <2>1. ASSUME NEW r \in Readers, reader'[r] # None
        PROVE  reader'[r] \in used' /\ up'[reader'[r]].state # "uploading" /\ Settled(reader[r])'
    <3>1. reader'[r] = reader[r] /\ reader[r] \in Uploads
      BY <2>1 DEF TypeInv, TypeOK
    <3>2. reader[r] \in used /\ up[reader[r]].state # "uploading" /\ Settled(reader[r])
      BY <2>1, <3>1 DEF FilesInv, GrantedSettled
    <3> QED
      BY <1>3, <3>1, <3>2
  <2> QED
    BY <2>1 DEF GrantedSettled, Settled
<1>6. Attached'
  BY DEF FilesInv, Attached, TypeInv, TypeOK
<1>7. ServedAsDeclared'
  BY DEF FilesInv, ServedAsDeclared
<1> QED
  BY <1>1, <1>2, <1>4, <1>5, <1>6, <1>7 DEF FilesInv

-----------------------------------------------------------------------------
(* Steps keep the invariant.                                               *)

\* An id is new, so that nothing refers to it, neither a message nor a download.
LEMMA CreateStep ==
  ASSUME TypeInv, FilesInv, NEW u \in Uploads, CreateInsert(u)
  PROVE  FilesInv'
<1>1. /\ u \notin used /\ up[u].state = "none"
      /\ UNCHANGED <<dir, live, sent, prepared, reader, served>>
      /\ used' = used \cup {u} /\ at' = "mkdir" /\ cu' = u
  BY DEF CreateInsert, msgVars, readVars, FilesInv, RowsSound, Stored
<1>2. up'[u] = Fresh /\ \A v \in Uploads : v # u => up'[v] = up[v]
  BY DEF CreateInsert, TypeInv, TypeOK
<1>3. RowsSound'
  BY <1>1, <1>2, NewRows DEF FilesInv, RowsSound, Stored
<1>4. Sent' /\ ServedAsDeclared'
  BY <1>1 DEF FilesInv, Sent, ServedAsDeclared
<1>5. Holding'
  BY <1>1, <1>2, NewRows DEF Holding
<1>6. VerifiedSettled'
  BY <1>1, <1>2, NewRows DEF FilesInv, VerifiedSettled, Settled
<1>7. GrantedSettled'
  <2>1. ASSUME NEW r \in Readers, reader[r] # None
        PROVE  reader[r] \in Uploads /\ reader[r] # u
    BY <1>1, <2>1 DEF FilesInv, GrantedSettled, TypeInv, TypeOK
  <2> QED
    BY <1>1, <1>2, <2>1 DEF FilesInv, GrantedSettled, Settled
<1>8. Attached'
  <2>1. ASSUME NEW p \in live, NEW v \in p.files
        PROVE  v \in Uploads /\ v # u
    BY <1>1, <2>1 DEF FilesInv, Attached, TypeInv, TypeOK
  <2> QED
    BY <1>1, <1>2, <2>1 DEF FilesInv, Attached
<1> QED
  BY <1>3, <1>4, <1>5, <1>6, <1>7, <1>8 DEF FilesInv

\* What is taken away has no message and no download yet: it is not ready.
LEMMA DropStep ==
  ASSUME TypeInv, FilesInv, NEW u \in Uploads,
         up[u].state # "ready" \/ ~up[u].published,
         \A r \in Readers : reader'[r] = reader[r],
         up' = [up EXCEPT ![u] = Absent],
         UNCHANGED <<used, dir, live, sent, prepared, served>>,
         Holding'
  PROVE  FilesInv'
<1>2. up'[u] = Absent /\ \A v \in Uploads : v # u => up'[v] = up[v]
  BY DEF TypeInv, TypeOK
<1>3. RowsSound'
  BY <1>2, NewRows DEF FilesInv, RowsSound, Stored
<1>4. Sent' /\ ServedAsDeclared'
  BY DEF FilesInv, Sent, ServedAsDeclared
<1>6. VerifiedSettled'
  BY <1>2, NewRows DEF FilesInv, VerifiedSettled, Settled
<1>7. GrantedSettled'
  <2>1. ASSUME NEW r \in Readers, reader[r] # None
        PROVE  reader[r] \in Uploads
    BY <2>1 DEF TypeInv, TypeOK
  <2> QED
    BY <1>2, <2>1, NewRows DEF FilesInv, GrantedSettled, Settled
<1>8. Attached'
  <2>1. ASSUME NEW p \in live, NEW v \in p.files
        PROVE  v \in Uploads /\ v # u
    <3>1. v \in Uploads /\ up[v].state = "ready" /\ p.msg \in up[v].links
      BY <2>1 DEF FilesInv, Attached, TypeInv, TypeOK
    <3>2. up[v].published
      BY <3>1 DEF FilesInv, RowsSound
    <3> QED
      BY <3>1, <3>2
  <2> QED
    BY <1>2, <2>1 DEF FilesInv, Attached
<1> QED
  BY <1>3, <1>4, <1>6, <1>7, <1>8 DEF FilesInv

LEMMA MkdirStep ==
  ASSUME TypeInv, FilesInv, CreateMkdir \/ CreateFails
  PROVE  FilesInv'
<1>1. cu \in Uploads /\ up[cu].state = "uploading"
  BY DEF CreateMkdir, CreateFails, TypeInv, LockTyped, Steps, FilesInv, Holding
<1>2. Holding'
  BY DEF CreateMkdir, CreateFails, Unlock, Holding
<1>3. CASE CreateMkdir
  <2>1. \A v \in Uploads : dir'[v].files = dir[v].files
    BY <1>1, <1>3 DEF CreateMkdir, TypeInv, TypeOK, Directory
  <2> QED
    BY <1>2, <1>3, <2>1, Frame DEF CreateMkdir, msgVars, readVars
<1>4. CASE CreateFails /\ up' = up
  BY <1>2, <1>4, Frame DEF CreateFails, msgVars, readVars
<1>5. CASE CreateFails /\ up' = [up EXCEPT ![cu] = Absent]
  <2>1. UNCHANGED <<used, dir, live, sent, prepared, served, reader>>
    BY <1>5 DEF CreateFails, msgVars, readVars
  <2> QED
    BY <1>1, <1>2, <1>5, <2>1, DropStep
<1> QED
  BY <1>3, <1>4, <1>5 DEF CreateFails

\* The rows of chunks are nothing the invariant speaks of.
LEMMA RowsOnly ==
  ASSUME up \in [Uploads -> Upload], NEW u \in Uploads, NEW r,
         up' = [up EXCEPT ![u].rows = r]
  PROVE  \A v \in Uploads : /\ up'[v].state = up[v].state
                            /\ up'[v].links = up[v].links
                            /\ up'[v].published = up[v].published
<1>1. up[u] \in Upload
  OBVIOUS
<1> QED
  BY <1>1 DEF Upload

LEMMA ChunkBeginStep ==
  ASSUME TypeInv, FilesInv, NEW u \in Uploads, NEW i \in Idx, NEW x \in Contents, ChunkBegin(u, i, x)
  PROVE  FilesInv'
<1>1. \A v \in Uploads : /\ up'[v].state = up[v].state
                         /\ up'[v].links = up[v].links
                         /\ up'[v].published = up[v].published
  BY RowsOnly DEF ChunkBegin, TypeInv, TypeOK
<1>2. Holding'
  <2>1. up[u].state = "uploading"
    BY DEF ChunkBegin, Writable
  <2>2. (at' = "temp" /\ cu' = u) \/ at' = "free"
    BY DEF ChunkBegin, Unlock
  <2> QED
    BY <1>1, <2>1, <2>2 DEF Holding
<1> QED
  BY <1>1, <1>2, Frame DEF ChunkBegin, msgVars, readVars

\* A chunk is written to an upload that is not ready yet.
LEMMA ChunkStep ==
  ASSUME TypeInv, FilesInv,
         ChunkTemp \/ ChunkRename \/ ChunkFails \/ ChunkInsert \/ ChunkInsertFails
  PROVE  FilesInv'
<1>1. cu \in Uploads /\ ci \in Idx /\ up[cu].state = "uploading"
  BY DEF ChunkTemp, ChunkRename, ChunkFails, ChunkInsert, ChunkInsertFails,
         TypeInv, LockTyped, Steps, FilesInv, Holding
<1>2. \A v \in Uploads : /\ up'[v].state = up[v].state
                         /\ up'[v].links = up[v].links
                         /\ up'[v].published = up[v].published
  <2>1. CASE up' = up
    BY <2>1
  <2>2. CASE up' = [up EXCEPT ![cu].rows[ci] = cx]
    <3>1. up[cu] \in Upload
      BY <1>1 DEF TypeInv, TypeOK
    <3> QED
      BY <1>1, <2>2, <3>1 DEF TypeInv, TypeOK, Upload
  <2> QED
    BY <2>1, <2>2 DEF ChunkTemp, ChunkRename, ChunkFails, ChunkInsert, ChunkInsertFails
<1>3. \A v \in Uploads : v # cu => dir'[v] = dir[v]
  BY <1>1 DEF ChunkTemp, ChunkRename, ChunkFails, ChunkInsert, ChunkInsertFails, TypeInv, TypeOK
<1>4. Holding'
  <2>1. (at' \in {"rename", "insert"} /\ cu' = cu) \/ at' = "free"
    BY DEF ChunkTemp, ChunkRename, ChunkFails, ChunkInsert, ChunkInsertFails, Unlock
  <2> QED
    BY <1>1, <1>2, <2>1 DEF Holding
<1>5. UNCHANGED <<used, live, sent, prepared, served, reader>>
  BY DEF ChunkTemp, ChunkRename, ChunkFails, ChunkInsert, ChunkInsertFails, msgVars, readVars
<1> QED
  BY <1>1, <1>2, <1>3, <1>4, <1>5, Frame

\* An upload becomes ready with the files that were verified.
LEMMA CompleteStep ==
  ASSUME TypeInv, FilesInv,
         CompleteMark \/ CompleteFails \/ \E u \in Uploads : CompleteVerify(u)
  PROVE  FilesInv'
<1>1. CASE CompleteMark
  <2>1. cu \in Uploads /\ Settled(cu) /\ cu \in used
    BY <1>1 DEF CompleteMark, TypeInv, LockTyped, Steps, FilesInv, Holding
  <2>2. /\ UNCHANGED <<used, dir, live, sent, prepared, served, reader>>
        /\ at' = "free"
    BY <1>1 DEF CompleteMark, Unlock, msgVars, readVars
  <2>3. /\ \A v \in Uploads : v # cu => up'[v] = up[v]
        /\ up'[cu].state = "ready" /\ up'[cu].links = up[cu].links
        /\ up'[cu].published = up[cu].published
    <3>1. up[cu] \in Upload
      BY <2>1 DEF TypeInv, TypeOK
    <3> QED
      BY <1>1, <2>1, <3>1 DEF CompleteMark, TypeInv, TypeOK, Upload
  <2>4. RowsSound'
    <3>1. ASSUME NEW u \in Uploads
          PROVE  /\ Stored(u)' => u \in used'
                 /\ up'[u].state \in {"none", "uploading"} => up'[u].links = {}
                 /\ up'[u].links # {} => up'[u].published
      <4>1. CASE u = cu
        BY <2>1, <2>2, <2>3, <4>1 DEF FilesInv, RowsSound, Stored
      <4>2. CASE u # cu
        BY <2>2, <2>3, <4>2 DEF FilesInv, RowsSound, Stored
      <4> QED
        BY <4>1, <4>2
    <3> QED
      BY <3>1 DEF RowsSound
  <2>5. Sent' /\ ServedAsDeclared' /\ Holding'
    BY <2>2 DEF FilesInv, Sent, ServedAsDeclared, Holding
  <2>6. VerifiedSettled'
    BY <2>1, <2>2, <2>3 DEF FilesInv, VerifiedSettled, Settled
  <2>7. GrantedSettled'
    <3>1. ASSUME NEW r \in Readers, reader[r] # None
          PROVE  reader[r] \in Uploads
      BY <3>1 DEF TypeInv, TypeOK
    <3> QED
      BY <2>1, <2>2, <2>3, <3>1 DEF FilesInv, GrantedSettled, Settled
  <2>8. Attached'
    <3>1. ASSUME NEW p \in live, NEW v \in p.files
          PROVE  v \in Uploads /\ up[v].state = "ready" /\ p.msg \in up[v].links
      BY <3>1 DEF FilesInv, Attached, TypeInv, TypeOK
    <3> QED
      BY <2>2, <2>3, <3>1 DEF Attached
  <2> QED
    BY <2>4, <2>5, <2>6, <2>7, <2>8 DEF FilesInv
<1>2. CASE CompleteFails
  <2>1. Holding'
    BY <1>2 DEF CompleteFails, Unlock, Holding
  <2> QED
    BY <1>2, <2>1, Frame DEF CompleteFails, msgVars, readVars
<1>3. ASSUME NEW u \in Uploads, CompleteVerify(u)
      PROVE  FilesInv'
  <2>1. dir[u].files = Declared /\ u \in used
    BY <1>3 DEF CompleteVerify, Verified, FilesInv, RowsSound
  <2>2. Settled(u)
    BY <2>1 DEF Settled
  <2>3. UNCHANGED dir /\ at' = "mark" /\ cu' = u /\ used' = used
    BY <1>3 DEF CompleteVerify
  <2>4. Holding'
    BY <2>1, <2>2, <2>3 DEF Holding, Settled
  <2> QED
    BY <1>3, <2>4, Frame DEF CompleteVerify, msgVars, readVars
<1> QED
  BY <1>1, <1>2, <1>3

LEMMA CleanupStep ==
  ASSUME TypeInv, FilesInv,
         \/ CleanupSelect \/ CleanupRemove \/ CleanupReadDir \/ CleanupEnd \/ CleanupFails
         \/ \E u \in Uploads : CleanupDelete(u) \/ CleanupScan(u)
  PROVE  FilesInv'
<1>1. Holding'
  BY DEF CleanupSelect, CleanupRemove, CleanupReadDir, CleanupEnd, CleanupFails, CleanupDelete,
         CleanupScan, Unlock, Holding
<1>2. CASE CleanupSelect \/ CleanupReadDir \/ CleanupEnd
  <2>1. UNCHANGED <<up, dir, used, live, sent, prepared, served, reader>>
    BY <1>2 DEF CleanupSelect, CleanupReadDir, CleanupEnd, msgVars, readVars
  <2> QED
    BY <1>1, <2>1, Frame
<1>3. CASE CleanupRemove
  <2>1. cu \in Uploads
    BY <1>3 DEF CleanupRemove, TypeInv, LockTyped, Steps
  <2>2. dir'[cu] = NoDir /\ \A v \in Uploads : v # cu => dir'[v] = dir[v]
    BY <1>3, <2>1 DEF CleanupRemove, TypeInv, TypeOK
  <2>3. \A v \in Uploads, i \in Idx : dir'[v].files[i] \in {dir[v].files[i], None}
    BY <2>2 DEF NoDir, NoRows
  <2> QED
    BY <1>1, <1>3, <2>3, Frame DEF CleanupRemove, msgVars, readVars
<1>4. CASE CleanupFails
  <2>1. \A v \in Uploads, i \in Idx : dir'[v].files[i] \in {dir[v].files[i], None}
    <3>1. CASE at = "remove"
      <4>1. PICK gone \in SUBSET Idx :
              dir' = [dir EXCEPT ![cu].files = [i \in Idx |-> IF i \in gone THEN None ELSE @[i]]]
        BY <1>4, <3>1 DEF CleanupFails
      <4>2. cu \in Uploads /\ dir[cu] \in Directory
        BY <3>1 DEF TypeInv, TypeOK, LockTyped, Steps
      <4>3. \A v \in Uploads : v # cu => dir'[v] = dir[v]
        BY <4>1, <4>2 DEF TypeInv, TypeOK
      <4>4. dir'[cu].files = [i \in Idx |-> IF i \in gone THEN None ELSE dir[cu].files[i]]
        BY <4>1, <4>2 DEF TypeInv, TypeOK, Directory
      <4> QED
        BY <4>3, <4>4
    <3>2. CASE at # "remove"
      BY <1>4, <3>2 DEF CleanupFails
    <3> QED
      BY <3>1, <3>2
  <2> QED
    BY <1>1, <1>4, <2>1, Frame DEF CleanupFails, msgVars, readVars
<1>5. ASSUME NEW u \in Uploads, CleanupDelete(u)
      PROVE  FilesInv'
  <2>1. UNCHANGED <<used, dir, live, sent, prepared, served, reader>>
    BY <1>5 DEF CleanupDelete, msgVars, readVars
  <2>2. CASE up' = up
    BY <1>1, <2>1, <2>2, Frame
  <2>3. CASE (~up[u].published \/ up[u].state = "deleted") /\ up' = [up EXCEPT ![u] = Absent]
    BY <1>1, <2>1, <2>3, DropStep
  <2> QED
    BY <1>5, <2>2, <2>3 DEF CleanupDelete
<1>6. ASSUME NEW u \in Uploads, CleanupScan(u)
      PROVE  FilesInv'
  <2>1. dir'[u] = Swept(u) /\ \A v \in Uploads : v # u => dir'[v] = dir[v]
    BY <1>6 DEF CleanupScan, TypeInv, TypeOK
  <2>2. \A i \in Idx : Swept(u).files[i] \in {dir[u].files[i], None}
    <3>1. CASE Stored(u)
      <4>1. dir[u] \in Directory
        BY DEF TypeInv, TypeOK
      <4>2. Swept(u).files = [i \in Idx |-> IF up[u].rows[i] = None THEN None ELSE dir[u].files[i]]
        BY <3>1, <4>1 DEF Swept, Directory
      <4> QED
        BY <4>2
    <3>2. CASE ~Stored(u)
      BY <3>2 DEF Swept, NoDir, NoRows
    <3> QED
      BY <3>1, <3>2
  <2> QED
    BY <1>1, <1>6, <2>1, <2>2, Frame DEF CleanupScan, msgVars, readVars
<1> QED
  BY <1>2, <1>3, <1>4, <1>5, <1>6

LEMMA PrepareStep ==
  ASSUME TypeInv, FilesInv, NEW m \in Messages, NEW fs \in SUBSET Uploads, PrepareMessage(m, fs)
  PROVE  FilesInv'
<1>1. /\ UNCHANGED <<up, dir, used, live, sent, served, reader, at, cu>>
      /\ prepared' = prepared \cup {[msg |-> m, files |-> fs]}
      /\ m \notin sent /\ \A p \in prepared : p.msg # m
  BY DEF PrepareMessage, lockVars, readVars
<1>2. Sent'
  BY <1>1 DEF FilesInv, Sent
<1>3. RowsSound' /\ Holding' /\ VerifiedSettled' /\ GrantedSettled'
  BY <1>1 DEF FilesInv, RowsSound, Stored, Holding, VerifiedSettled, GrantedSettled, Settled
<1>4. Attached' /\ ServedAsDeclared'
  BY <1>1 DEF FilesInv, Attached, ServedAsDeclared
<1> QED
  BY <1>2, <1>3, <1>4 DEF FilesInv

\* A message is committed only if all its files are ready then.
LEMMA PublishStep ==
  ASSUME TypeInv, FilesInv, NEW p \in prepared, Publish(p)
  PROVE  FilesInv'
<1>1. /\ UNCHANGED <<used, dir, at, cu, served, reader>>
      /\ prepared' = prepared \ {p} /\ p.files \subseteq Uploads
  BY DEF Publish, lockVars, readVars, TypeInv, TypeOK
<1>2. CASE UNCHANGED <<up, live, sent>>
  <2>1. Sent'
    BY <1>1, <1>2 DEF FilesInv, Sent
  <2>2. RowsSound' /\ Holding' /\ VerifiedSettled' /\ GrantedSettled'
    BY <1>1, <1>2 DEF FilesInv, RowsSound, Stored, Holding, VerifiedSettled, GrantedSettled, Settled
  <2>3. Attached' /\ ServedAsDeclared'
    BY <1>1, <1>2 DEF FilesInv, Attached, ServedAsDeclared
  <2> QED
    BY <2>1, <2>2, <2>3 DEF FilesInv
<1>3. CASE /\ \A u \in p.files : StillPublishable(u)
           /\ up' = [u \in Uploads |-> IF u \in p.files
                        THEN [up[u] EXCEPT !.published = TRUE, !.links = @ \cup {p.msg}]
                        ELSE up[u]]
           /\ live' = live \cup {p} /\ sent' = sent \cup {p.msg}
  <2>1. ASSUME NEW u \in Uploads
        PROVE  /\ up'[u].state = up[u].state
               /\ u \notin p.files => up'[u] = up[u]
               /\ u \in p.files => /\ up'[u].published /\ up'[u].links = up[u].links \cup {p.msg}
                                   /\ up[u].state = "ready"
    <3>1. up[u] \in Upload
      BY DEF TypeInv, TypeOK
    <3>2. CASE u \in p.files
      <4>1. up'[u] = [up[u] EXCEPT !.published = TRUE, !.links = @ \cup {p.msg}]
        BY <1>3, <3>2
      <4> QED
        BY <1>3, <3>1, <3>2, <4>1 DEF StillPublishable, Publishable, Upload
    <3>3. CASE u \notin p.files
      BY <1>3, <3>3
    <3> QED
      BY <3>2, <3>3
  <2>2. RowsSound'
    <3>1. ASSUME NEW u \in Uploads
          PROVE  /\ Stored(u)' => u \in used'
                 /\ up'[u].state \in {"none", "uploading"} => up'[u].links = {}
                 /\ up'[u].links # {} => up'[u].published
      <4>1. CASE u \in p.files
        BY <1>1, <2>1, <4>1 DEF FilesInv, RowsSound, Stored
      <4>2. CASE u \notin p.files
        BY <1>1, <2>1, <4>2 DEF FilesInv, RowsSound, Stored
      <4> QED
        BY <4>1, <4>2
    <3> QED
      BY <3>1 DEF RowsSound
  <2>3. Sent'
    BY <1>1, <1>3 DEF FilesInv, Sent
  <2>4. Holding' /\ VerifiedSettled' /\ GrantedSettled'
    <3>1. at \in Steps => cu \in Uploads
      BY DEF TypeInv, LockTyped
    <3>2. Holding'
      BY <1>1, <2>1, <3>1 DEF FilesInv, Holding, Settled, Steps
    <3>3. VerifiedSettled'
      BY <1>1, <2>1 DEF FilesInv, VerifiedSettled, Settled
    <3>4. ASSUME NEW r \in Readers, reader[r] # None
          PROVE  reader[r] \in Uploads
      BY <3>4 DEF TypeInv, TypeOK
    <3>5. GrantedSettled'
      BY <1>1, <2>1, <3>4 DEF FilesInv, GrantedSettled, Settled
    <3> QED
      BY <3>2, <3>3, <3>5
  <2>5. Attached'
    <3>1. ASSUME NEW q \in live', NEW u \in q.files
          PROVE  up'[u].state = "ready" /\ q.msg \in up'[u].links
      <4>1. CASE q = p
        BY <1>1, <2>1, <3>1, <4>1
      <4>2. CASE q \in live
        <5>1. u \in Uploads /\ up[u].state = "ready" /\ q.msg \in up[u].links
          BY <3>1, <4>2 DEF FilesInv, Attached, TypeInv, TypeOK
        <5>2. up[u].links \subseteq up'[u].links
          BY <2>1, <5>1
        <5> QED
          BY <2>1, <5>1, <5>2
      <4> QED
        BY <1>3, <3>1, <4>1, <4>2
    <3> QED
      BY <3>1 DEF Attached
  <2>6. ServedAsDeclared'
    BY <1>1 DEF FilesInv, ServedAsDeclared
  <2> QED
    BY <2>2, <2>3, <2>4, <2>5, <2>6 DEF FilesInv
<1> QED
  BY <1>2, <1>3 DEF Publish

\* A deletion takes an upload along only if no other live message refers to it.
LEMMA DeleteStep ==
  ASSUME TypeInv, FilesInv, NEW p \in live, DeleteMessage(p)
  PROVE  FilesInv'
<1>1. /\ UNCHANGED <<used, dir, at, cu, served, reader, sent, prepared>>
      /\ live' = live \ {p}
  BY DEF DeleteMessage, lockVars, readVars
<1>2. ASSUME NEW u \in Uploads
      PROVE  /\ up'[u].links = up[u].links /\ up'[u].published = up[u].published
             /\ Revoked(u, p.msg) => up'[u].state = "deleted"
             /\ ~Revoked(u, p.msg) => up'[u].state = up[u].state
  <2>1. up[u] \in Upload
    BY DEF TypeInv, TypeOK
  <2>2. CASE Revoked(u, p.msg)
    <3>1. up'[u] = [up[u] EXCEPT !.state = "deleted", !.reserved = 0, !.key = FALSE]
      BY <2>2 DEF DeleteMessage
    <3> QED
      BY <2>1, <2>2, <3>1 DEF Upload
  <2>3. CASE ~Revoked(u, p.msg)
    BY <2>3 DEF DeleteMessage
  <2> QED
    BY <2>2, <2>3
<1>3. ASSUME NEW u \in Uploads, Revoked(u, p.msg)
      PROVE  up[u].state \in {"ready", "deleted"} /\ u \in used
  <2>1. p.msg \in up[u].links /\ up[u] \in Upload
    BY <1>3 DEF Revoked, TypeInv, TypeOK
  <2> QED
    BY <2>1 DEF FilesInv, RowsSound, Stored, Upload
<1>4. RowsSound'
  BY <1>1, <1>2, <1>3 DEF FilesInv, RowsSound, Stored
<1>5. Sent' /\ ServedAsDeclared'
  BY <1>1 DEF FilesInv, Sent, ServedAsDeclared
<1>6. Holding'
  <2>1. at \in Steps => cu \in Uploads
    BY DEF TypeInv, LockTyped
  <2>2. ASSUME at \in {"mkdir", "temp", "rename", "insert"}
        PROVE  up'[cu].state = "uploading"
    <3>1. cu \in Uploads /\ up[cu].state = "uploading"
      BY <2>1, <2>2 DEF FilesInv, Holding, Steps
    <3>2. ~Revoked(cu, p.msg)
      BY <1>3, <3>1
    <3> QED
      BY <1>2, <3>1, <3>2
  <2> QED
    BY <1>1, <2>2 DEF FilesInv, Holding, Settled
<1>7. VerifiedSettled'
  BY <1>1, <1>2, <1>3 DEF FilesInv, VerifiedSettled, Settled
<1>8. GrantedSettled'
  <2>1. ASSUME NEW r \in Readers, reader[r] # None
        PROVE  /\ reader[r] \in Uploads /\ reader[r] \in used
               /\ up[reader[r]].state # "uploading" /\ Settled(reader[r])
    BY <2>1 DEF FilesInv, GrantedSettled, TypeInv, TypeOK
  <2> QED
    BY <1>1, <1>2, <2>1 DEF GrantedSettled, Settled
<1>9. Attached'
  <2>1. ASSUME NEW q \in live, q # p, NEW u \in q.files
        PROVE  up'[u].state = "ready" /\ q.msg \in up'[u].links
    <3>1. u \in Uploads /\ up[u].state = "ready" /\ q.msg \in up[u].links
      BY <2>1 DEF FilesInv, Attached, TypeInv, TypeOK
    <3>2. q.msg # p.msg
      BY <2>1 DEF FilesInv, Sent
    <3>3. q.msg \in LiveLinks(u)
      BY <2>1, <3>1 DEF LiveLinks
    <3>4. ~Revoked(u, p.msg)
      BY <3>2, <3>3 DEF Revoked
    <3> QED
      BY <1>2, <3>1, <3>4
  <2> QED
    BY <1>1, <2>1 DEF Attached
<1> QED
  BY <1>4, <1>5, <1>6, <1>7, <1>8, <1>9 DEF FilesInv

LEMMA GrantStep ==
  ASSUME TypeInv, FilesInv, NEW r \in Readers, NEW u \in Uploads, Grant(r, u)
  PROVE  FilesInv'
<1>1. /\ UNCHANGED <<up, used, dir, live, sent, prepared, at, cu, served>>
      /\ reader' = [reader EXCEPT ![r] = u] /\ up[u].state = "ready"
  BY DEF Grant, Accessible, msgVars, lockVars
<1>2. Settled(u) /\ u \in used
  BY <1>1 DEF FilesInv, VerifiedSettled, RowsSound, Stored
<1>3. GrantedSettled'
  BY <1>1, <1>2 DEF FilesInv, GrantedSettled, Settled, TypeInv, TypeOK
<1>4. RowsSound' /\ Sent' /\ Holding' /\ VerifiedSettled' /\ Attached' /\ ServedAsDeclared'
  BY <1>1 DEF FilesInv, RowsSound, Stored, Sent, Holding, VerifiedSettled, Settled,
              Attached, ServedAsDeclared
<1> QED
  BY <1>3, <1>4 DEF FilesInv

LEMMA DownloadStep ==
  ASSUME TypeInv, FilesInv, NEW r \in Readers, NEW i \in Idx, Download(r, i)
  PROVE  FilesInv'
<1>1. /\ UNCHANGED <<up, used, dir, live, sent, prepared, at, cu>>
      /\ reader[r] # None /\ reader' = [reader EXCEPT ![r] = None]
  BY DEF Download, msgVars, lockVars
<1>2. dir[reader[r]].files[i] \in {None, Declared[i]}
  BY <1>1 DEF FilesInv, GrantedSettled, Settled
<1>3. ServedAsDeclared'
  BY <1>2 DEF Download, FilesInv, ServedAsDeclared
<1>4. GrantedSettled'
  BY <1>1 DEF FilesInv, GrantedSettled, Settled, TypeInv, TypeOK
<1>5. RowsSound' /\ Sent' /\ Holding' /\ VerifiedSettled' /\ Attached'
  BY <1>1 DEF FilesInv, RowsSound, Stored, Sent, Holding, VerifiedSettled, Settled, Attached
<1> QED
  BY <1>3, <1>4, <1>5 DEF FilesInv

LEMMA ExpireStep ==
  ASSUME TypeInv, FilesInv, NEW u \in Uploads, Expire(u)
  PROVE  FilesInv'
<1>1. \A v \in Uploads : /\ up'[v].state = up[v].state
                         /\ up'[v].links = up[v].links
                         /\ up'[v].published = up[v].published
  <2>1. up[u] \in Upload
    BY DEF TypeInv, TypeOK
  <2> QED
    BY <2>1 DEF Expire, TypeInv, TypeOK, Upload
<1>2. UNCHANGED <<at, cu, dir, used, live, sent, prepared, served, reader>>
  BY DEF Expire, msgVars, lockVars, readVars
<1>3. Holding'
  <2>1. at \in Steps => cu \in Uploads
    BY DEF TypeInv, LockTyped
  <2> QED
    BY <1>1, <1>2, <2>1 DEF FilesInv, Holding, Settled, Steps
<1> QED
  BY <1>1, <1>2, <1>3, Frame

\* A restart drops what was prepared and granted.
LEMMA RestartStep ==
  ASSUME TypeInv, FilesInv, Restart
  PROVE  FilesInv'
<1>1. /\ UNCHANGED <<up, used, live, sent, served>> /\ prepared' = {} /\ at' = "free"
      /\ reader' = [r \in Readers |-> None]
  BY DEF Restart, Unlock
<1>2. \A v \in Uploads : up[v].state # "uploading" => dir'[v] = dir[v]
  <2>1. CASE at = "insert"
    <3>1. cu \in Uploads /\ up[cu].state = "uploading"
      BY <2>1 DEF TypeInv, LockTyped, Steps, FilesInv, Holding
    <3> QED
      BY <2>1, <3>1 DEF Restart, TypeInv, TypeOK
  <2>2. CASE at # "insert"
    BY <2>2 DEF Restart
  <2> QED
    BY <2>1, <2>2
<1>3. VerifiedSettled'
  BY <1>1, <1>2 DEF FilesInv, VerifiedSettled, Settled
<1>4. Sent' /\ GrantedSettled' /\ Holding'
  BY <1>1 DEF FilesInv, Sent, GrantedSettled, Holding
<1>5. RowsSound' /\ Attached' /\ ServedAsDeclared'
  BY <1>1 DEF FilesInv, RowsSound, Stored, Attached, ServedAsDeclared
<1> QED
  BY <1>3, <1>4, <1>5 DEF FilesInv

LEMMA InvStep ==
  ASSUME TypeInv, FilesInv, [Next]_vars PROVE FilesInv'
<1>1. CASE UNCHANGED vars
  BY <1>1 DEF vars, msgVars, lockVars, readVars, FilesInv, RowsSound, Stored, Sent, Holding,
              VerifiedSettled, GrantedSettled, Settled, Attached, ServedAsDeclared
<1>2. CASE Next
  BY <1>2, CreateStep, MkdirStep, ChunkBeginStep, ChunkStep, CompleteStep, CleanupStep, PrepareStep,
     PublishStep, DeleteStep, GrantStep, DownloadStep, ExpireStep, RestartStep DEF Next, Holder
<1> QED
  BY <1>1, <1>2

\* In every instance the invariant holds.
THEOREM FilesInvHolds == Spec => []FilesInv
<1>1. Init => FilesInv
  BY InvInit, FilesAssumption
<1>2. TypeInv /\ FilesInv /\ [Next]_vars => FilesInv'
  BY InvStep
<1> QED
  BY <1>1, <1>2, TypeInvHolds, PTL DEF Spec

-----------------------------------------------------------------------------
(* Whole uploads and their keys.                                           *)

\* All files of an upload are there with what was declared, and all their rows.
Whole(u) == dir[u].files = Declared /\ \A i \in Idx : up[u].rows[i] # None

\* From its verification to the removal of its row an upload is whole, and it has its key
\* until its last message is deleted.  What cleanup removes from the disk has no row.
WholeInv ==
  /\ \A u \in Uploads : up[u].state \in {"ready", "deleted"} => Whole(u)
  /\ \A u \in Uploads : up[u].state \in {"uploading", "ready"} => up[u].key \/ u \in revived
  /\ at = "mark" => Stored(cu) /\ Whole(cu)
  /\ at = "remove" => ~Stored(cu)

LEMMA WholeInit == ASSUME Init PROVE WholeInv
<1>1. at = "free" /\ \A u \in Uploads : up[u].state = "none"
  BY NewRows DEF Init
<1> QED
  BY <1>1 DEF WholeInv

\* A step that makes no upload ready, touches no whole one, and takes no key.
LEMMA WholeFrame ==
  ASSUME WholeInv, revived \subseteq revived',
         \A u \in Uploads : up'[u].state \in {"ready", "deleted"} =>
           /\ up[u].state \in {"ready", "deleted"} /\ up'[u].rows = up[u].rows
           /\ dir'[u].files = dir[u].files,
         \A u \in Uploads : up'[u].state \in {"uploading", "ready"} =>
           up'[u].key \/ (up[u].state \in {"uploading", "ready"} /\ up'[u].key = up[u].key),
         at' = "mark" => (Stored(cu) /\ Whole(cu))',
         at' = "remove" => ~Stored(cu)'
  PROVE  WholeInv'
<1>1. \A u \in Uploads : up'[u].state \in {"ready", "deleted"} => Whole(u)'
  BY DEF WholeInv, Whole
<1>2. \A u \in Uploads : up'[u].state \in {"uploading", "ready"} => up'[u].key \/ u \in revived'
  BY DEF WholeInv
<1> QED
  BY <1>1, <1>2 DEF WholeInv

LEMMA WholeCreate ==
  ASSUME TypeInv, FilesInv, WholeInv,
         CreateMkdir \/ CreateFails \/ \E u \in Uploads : CreateInsert(u)
  PROVE  WholeInv'
<1>1. ASSUME NEW u \in Uploads, CreateInsert(u)
      PROVE  WholeInv'
  <2>1. up'[u] = Fresh /\ \A v \in Uploads : v # u => up'[v] = up[v]
    BY <1>1 DEF CreateInsert, TypeInv, TypeOK
  <2>2. Fresh.key /\ Fresh.state = "uploading"
    BY NewRows DEF Fresh, Absent
  <2>3. at' = "mkdir" /\ UNCHANGED <<dir, revived>>
    BY <1>1 DEF CreateInsert, readVars
  <2> QED
    BY <2>1, <2>2, <2>3, WholeFrame
<1>2. CASE CreateMkdir \/ CreateFails
  <2>1. cu \in Uploads /\ at' = "free" /\ UNCHANGED revived
    BY <1>2 DEF CreateMkdir, CreateFails, Unlock, readVars, TypeInv, LockTyped, Steps
  <2>2. \A v \in Uploads : dir'[v].files = dir[v].files
    BY <1>2, <2>1 DEF CreateMkdir, CreateFails, TypeInv, TypeOK, Directory
  <2>3. \A v \in Uploads : up'[v] = up[v] \/ up'[v] = Absent
    BY <1>2, <2>1 DEF CreateMkdir, CreateFails, TypeInv, TypeOK
  <2> QED
    BY <2>1, <2>2, <2>3, NewRows, WholeFrame
<1> QED
  BY <1>1, <1>2

LEMMA WholeChunk ==
  ASSUME TypeInv, FilesInv, WholeInv,
         \/ ChunkTemp \/ ChunkRename \/ ChunkFails \/ ChunkInsert \/ ChunkInsertFails
         \/ \E u \in Uploads, i \in Idx, x \in Contents : ChunkBegin(u, i, x)
  PROVE  WholeInv'
<1>1. ASSUME NEW u \in Uploads, up[u].state = "uploading",
             \A v \in Uploads : v # u => up'[v] = up[v] /\ dir'[v] = dir[v],
             up'[u].state = "uploading", up'[u].key = up[u].key,
             at' \in {"temp", "rename", "insert", "free"}, UNCHANGED revived
      PROVE  WholeInv'
  BY <1>1, WholeFrame
<1>2. ASSUME NEW u \in Uploads, NEW i \in Idx, NEW x \in Contents, ChunkBegin(u, i, x)
      PROVE  WholeInv'
  <2>1. up[u].state = "uploading" /\ up[u] \in Upload
    BY <1>2 DEF ChunkBegin, Writable, TypeInv, TypeOK
  <2>2. /\ \A v \in Uploads : v # u => up'[v] = up[v]
        /\ up'[u].state = up[u].state /\ up'[u].key = up[u].key
    BY <1>2, <2>1 DEF ChunkBegin, TypeInv, TypeOK, Upload
  <2>3. UNCHANGED <<dir, revived>> /\ at' \in {"temp", "free"}
    BY <1>2 DEF ChunkBegin, Unlock, readVars
  <2> QED
    BY <1>1, <2>1, <2>2, <2>3
<1>3. CASE ChunkTemp \/ ChunkRename \/ ChunkFails \/ ChunkInsert \/ ChunkInsertFails
  <2>1. cu \in Uploads /\ ci \in Idx /\ up[cu].state = "uploading" /\ up[cu] \in Upload
    BY <1>3 DEF ChunkTemp, ChunkRename, ChunkFails, ChunkInsert, ChunkInsertFails,
                TypeInv, TypeOK, LockTyped, Steps, FilesInv, Holding
  <2>2. /\ \A v \in Uploads : v # cu => up'[v] = up[v]
        /\ up'[cu].state = up[cu].state /\ up'[cu].key = up[cu].key
    <3>1. CASE up' = up
      BY <3>1
    <3>2. CASE up' = [up EXCEPT ![cu].rows[ci] = cx]
      BY <2>1, <3>2 DEF TypeInv, TypeOK, Upload
    <3> QED
      BY <1>3, <3>1, <3>2 DEF ChunkTemp, ChunkRename, ChunkFails, ChunkInsert, ChunkInsertFails
  <2>3. \A v \in Uploads : v # cu => dir'[v] = dir[v]
    BY <1>3, <2>1 DEF ChunkTemp, ChunkRename, ChunkFails, ChunkInsert, ChunkInsertFails, TypeInv, TypeOK
  <2>4. at' \in {"rename", "insert", "free"} /\ UNCHANGED revived
    BY <1>3 DEF ChunkTemp, ChunkRename, ChunkFails, ChunkInsert, ChunkInsertFails, Unlock, readVars
  <2> QED
    BY <1>1, <2>1, <2>2, <2>3, <2>4
<1> QED
  BY <1>2, <1>3

\* What was verified is marked; without its key if it was revoked.
LEMMA WholeComplete ==
  ASSUME TypeInv, FilesInv, WholeInv, FilesAssumption,
         CompleteMark \/ CompleteFails \/ \E u \in Uploads : CompleteVerify(u)
  PROVE  WholeInv'
<1>1. CASE CompleteMark
  <2>1. cu \in Uploads /\ Stored(cu) /\ Whole(cu) /\ up[cu] \in Upload
    BY <1>1 DEF CompleteMark, TypeInv, TypeOK, LockTyped, Steps, WholeInv
  <2>2. /\ \A v \in Uploads : v # cu => up'[v] = up[v]
        /\ up'[cu].state = "ready" /\ up'[cu].key = up[cu].key /\ up'[cu].rows = up[cu].rows
    BY <1>1, <2>1 DEF CompleteMark, TypeInv, TypeOK, Upload
  <2>3. /\ UNCHANGED dir /\ at' = "free" /\ revived \subseteq revived'
        /\ up[cu].state = "deleted" => cu \in revived'
    BY <1>1 DEF CompleteMark, Unlock
  <2>4. \A u \in Uploads : up'[u].state \in {"ready", "deleted"} => Whole(u)'
    BY <2>1, <2>2, <2>3 DEF WholeInv, Whole
  <2>5. ASSUME NEW u \in Uploads, up'[u].state \in {"uploading", "ready"}
        PROVE  up'[u].key \/ u \in revived'
    <3>1. CASE u # cu
      BY <2>2, <2>3, <2>5, <3>1 DEF WholeInv
    <3>2. CASE u = cu
      <4>1. up[cu].state \in {"uploading", "ready", "deleted"}
        BY <2>1 DEF Stored, Upload
      <4> QED
        BY <2>1, <2>2, <2>3, <3>2, <4>1 DEF WholeInv
    <3> QED
      BY <3>1, <3>2
  <2> QED
    BY <2>3, <2>4, <2>5 DEF WholeInv
<1>2. CASE CompleteFails
  BY <1>2, WholeFrame DEF CompleteFails, Unlock, readVars
<1>3. ASSUME NEW u \in Uploads, CompleteVerify(u)
      PROVE  WholeInv'
  <2>1. UNCHANGED <<up, dir, revived>> /\ at' = "mark" /\ cu' = u
    BY <1>3 DEF CompleteVerify, readVars
  <2>2. Stored(u) /\ Whole(u)
    <3>1. Stored(u) /\ dir[u].files = Declared /\ Received(up[u].rows) = Idx
      BY <1>3 DEF CompleteVerify, Verified
    <3> QED
      BY <3>1 DEF Received, Whole
  <2>3. (Stored(cu) /\ Whole(cu))'
    BY <2>1, <2>2 DEF Stored, Whole
  <2> QED
    BY <2>1, <2>3, WholeFrame
<1> QED
  BY <1>1, <1>2, <1>3

\* Cleanup removes files of uploads that have no row, and the sweep leaves whole ones alone.
LEMMA WholeCleanup ==
  ASSUME TypeInv, FilesInv, WholeInv, FilesAssumption,
         \/ CleanupSelect \/ CleanupRemove \/ CleanupReadDir \/ CleanupEnd \/ CleanupFails
         \/ \E u \in Uploads : CleanupDelete(u) \/ CleanupScan(u)
  PROVE  WholeInv'
<1>1. CASE CleanupSelect \/ CleanupReadDir \/ CleanupEnd
  <2>1. UNCHANGED <<up, dir, revived>> /\ at' \notin {"mark", "remove"}
    BY <1>1 DEF CleanupSelect, CleanupReadDir, CleanupEnd, Unlock, readVars
  <2> QED
    BY <2>1, WholeFrame
<1>2. CASE CleanupRemove \/ CleanupFails
  <2>1. UNCHANGED <<up, revived>> /\ at' \notin {"mark", "remove"}
    BY <1>2 DEF CleanupRemove, CleanupFails, Unlock, readVars
  <2>2. CASE at = "remove"
    <3>1. cu \in Uploads /\ ~Stored(cu)
      BY <2>2 DEF TypeInv, LockTyped, Steps, WholeInv
    <3>2. \A v \in Uploads : v # cu => dir'[v] = dir[v]
      BY <1>2, <2>2, <3>1 DEF CleanupRemove, CleanupFails, TypeInv, TypeOK
    <3>3. up[cu].state = "none"
      BY <3>1 DEF Stored
    <3> QED
      BY <2>1, <3>2, <3>3, WholeFrame
  <2>3. CASE at # "remove"
    <3>1. UNCHANGED dir
      BY <1>2, <2>3 DEF CleanupRemove, CleanupFails
    <3> QED
      BY <2>1, <3>1, WholeFrame
  <2> QED
    BY <2>2, <2>3
<1>3. ASSUME NEW u \in Uploads, CleanupDelete(u)
      PROVE  WholeInv'
  <2>1. UNCHANGED <<dir, revived>>
    BY <1>3 DEF CleanupDelete, readVars
  <2>2. CASE up' = [up EXCEPT ![u] = Absent] /\ at' = "remove" /\ cu' = u
    <3>1. up'[u] = Absent /\ \A v \in Uploads : v # u => up'[v] = up[v]
      BY <2>2 DEF TypeInv, TypeOK
    <3>2. ~Stored(cu)'
      BY <2>2, <3>1, NewRows DEF Stored
    <3> QED
      BY <2>1, <2>2, <3>1, <3>2, NewRows, WholeFrame
  <2>3. CASE UNCHANGED <<up, at, cu>>
    <3>1. at' = "purge"
      BY <1>3, <2>3 DEF CleanupDelete
    <3> QED
      BY <2>1, <2>3, <3>1, WholeFrame
  <2> QED
    BY <1>3, <2>2, <2>3 DEF CleanupDelete
<1>4. ASSUME NEW u \in Uploads, CleanupScan(u)
      PROVE  WholeInv'
  <2>1. UNCHANGED <<up, revived>> /\ at' = "scan"
    BY <1>4 DEF CleanupScan, readVars
  <2>2. dir'[u] = Swept(u) /\ \A v \in Uploads : v # u => dir'[v] = dir[v]
    BY <1>4 DEF CleanupScan, TypeInv, TypeOK
  <2>3. ASSUME up[u].state \in {"ready", "deleted"}
        PROVE  Swept(u).files = dir[u].files
    <3>1. Whole(u) /\ Stored(u) /\ dir[u] \in Directory
      BY <2>3 DEF WholeInv, Stored, TypeInv, TypeOK
    <3>2. Swept(u).files = [i \in Idx |-> IF up[u].rows[i] = None THEN None ELSE dir[u].files[i]]
      BY <3>1 DEF Swept, Directory
    <3>3. \A i \in Idx : Swept(u).files[i] = dir[u].files[i]
      BY <3>1, <3>2 DEF Whole
    <3>4. dir[u].files \in [Idx -> Contents \cup {None}]
      BY <3>1 DEF Directory
    <3> QED
      BY <3>2, <3>3, <3>4
  <2> QED
    BY <2>1, <2>2, <2>3, WholeFrame
<1> QED
  BY <1>1, <1>2, <1>3, <1>4

\* Messages, downloads and time neither make uploads ready nor take files.
LEMMA WholeMessages ==
  ASSUME TypeInv, FilesInv, WholeInv,
         \/ \E p \in prepared : Publish(p)
         \/ \E p \in live : DeleteMessage(p)
         \/ \E u \in Uploads : Expire(u)
  PROVE  WholeInv'
<1>1. ASSUME UNCHANGED <<dir, revived, at, cu>>,
             \A u \in Uploads :
               /\ up'[u].rows = up[u].rows
               /\ \/ up'[u].state = up[u].state /\ up'[u].key = up[u].key
                  \/ up[u].state \in {"ready", "deleted"} /\ up'[u].state = "deleted"
      PROVE  WholeInv'
  <2>1. at \in Steps => cu \in Uploads
    BY DEF TypeInv, LockTyped
  <2>2. at = "mark" => (Stored(cu) /\ Whole(cu))'
    BY <1>1, <2>1 DEF WholeInv, Stored, Whole, Steps
  <2>3. at = "remove" => ~Stored(cu)'
    BY <1>1, <2>1 DEF WholeInv, Stored, Steps
  <2> QED
    BY <1>1, <2>2, <2>3, WholeFrame
<1>2. ASSUME NEW p \in prepared, Publish(p)
      PROVE  WholeInv'
  <2>1. ASSUME NEW u \in Uploads
        PROVE  up'[u].rows = up[u].rows /\ up'[u].state = up[u].state /\ up'[u].key = up[u].key
    <3>1. up[u] \in Upload
      BY DEF TypeInv, TypeOK
    <3>2. \/ up'[u] = up[u]
          \/ up'[u] = [up[u] EXCEPT !.published = TRUE, !.links = @ \cup {p.msg}]
      BY <1>2 DEF Publish
    <3> QED
      BY <3>1, <3>2 DEF Upload
  <2> QED
    BY <1>1, <1>2, <2>1 DEF Publish, lockVars, readVars
<1>3. ASSUME NEW p \in live, DeleteMessage(p)
      PROVE  WholeInv'
  <2>1. ASSUME NEW u \in Uploads
        PROVE  /\ up'[u].rows = up[u].rows
               /\ \/ up'[u].state = up[u].state /\ up'[u].key = up[u].key
                  \/ up[u].state \in {"ready", "deleted"} /\ up'[u].state = "deleted"
    <3>1. up[u] \in Upload
      BY DEF TypeInv, TypeOK
    <3>2. CASE Revoked(u, p.msg)
      <4>1. up'[u] = [up[u] EXCEPT !.state = "deleted", !.reserved = 0, !.key = FALSE]
        BY <1>3, <3>2 DEF DeleteMessage
      <4>2. up[u].state \in {"ready", "deleted"}
        BY <3>1, <3>2 DEF Revoked, FilesInv, RowsSound, Upload
      <4> QED
        BY <3>1, <4>1, <4>2 DEF Upload
    <3>3. CASE ~Revoked(u, p.msg)
      BY <1>3, <3>3 DEF DeleteMessage
    <3> QED
      BY <3>2, <3>3
  <2> QED
    BY <1>1, <1>3, <2>1 DEF DeleteMessage, lockVars, readVars
<1>4. ASSUME NEW u \in Uploads, Expire(u)
      PROVE  WholeInv'
  <2>1. up[u] \in Upload
    BY DEF TypeInv, TypeOK
  <2>2. \A v \in Uploads : up'[v].rows = up[v].rows /\ up'[v].state = up[v].state /\ up'[v].key = up[v].key
    BY <1>4, <2>1 DEF Expire, TypeInv, TypeOK, Upload
  <2> QED
    BY <1>1, <1>4, <2>2 DEF Expire, lockVars, readVars
<1> QED
  BY <1>2, <1>3, <1>4

LEMMA WholeStep ==
  ASSUME TypeInv, FilesInv, WholeInv, FilesAssumption, [Next]_vars PROVE WholeInv'
<1>1. ASSUME UNCHANGED <<up, dir, revived, at, cu>>
      PROVE  WholeInv'
  BY <1>1 DEF WholeInv, Whole, Stored
<1>2. CASE UNCHANGED vars
  BY <1>1, <1>2 DEF vars, lockVars, readVars
<1>3. ASSUME \/ \E m \in Messages, fs \in (SUBSET Uploads) \ {{}} : PrepareMessage(m, fs)
             \/ \E r \in Readers : (\E u \in Uploads : Grant(r, u)) \/ \E i \in Idx : Download(r, i)
      PROVE  WholeInv'
  <2>1. UNCHANGED <<up, dir, revived, at, cu>>
    BY <1>3 DEF PrepareMessage, Grant, Download, lockVars, readVars
  <2> QED
    BY <1>1, <2>1
<1>4. CASE Restart
  <2>1. UNCHANGED <<up, revived>> /\ at' = "free"
    BY <1>4 DEF Restart, Unlock
  <2>2. \A v \in Uploads : up[v].state # "uploading" => dir'[v] = dir[v]
    <3>1. CASE at = "insert"
      <4>1. cu \in Uploads /\ up[cu].state = "uploading"
        BY <3>1 DEF TypeInv, LockTyped, Steps, FilesInv, Holding
      <4> QED
        BY <1>4, <3>1, <4>1 DEF Restart, TypeInv, TypeOK
    <3>2. CASE at # "insert"
      BY <1>4, <3>2 DEF Restart
    <3> QED
      BY <3>1, <3>2
  <2> QED
    BY <2>1, <2>2, WholeFrame
<1> QED
  BY <1>2, <1>3, <1>4, WholeCreate, WholeChunk, WholeComplete, WholeCleanup, WholeMessages
  DEF Next, Holder

\* What a live message refers to stays downloadable, files and key, for any number of uploads,
\* messages, deletions, cleanups and crashes (publish, OnDelete, complete, cleanup); only an
\* upload that was revoked and completed again has lost its key.
THEOREM AttachmentsKeptHolds == Spec => []AttachmentsKept
<1>1. Init => WholeInv
  BY WholeInit
<1>2. TypeInv /\ FilesInv /\ WholeInv /\ [Next]_vars => WholeInv'
  BY WholeStep, FilesAssumption
<1>3. TypeInv /\ FilesInv /\ WholeInv => AttachmentsKept
  <2> SUFFICES ASSUME TypeInv, FilesInv, WholeInv, NEW p \in live, NEW u \in p.files
               PROVE  Accessible(u) /\ dir[u].files = Declared /\ (up[u].key \/ u \in revived)
    BY DEF AttachmentsKept
  <2>1. u \in Uploads /\ up[u].state = "ready" /\ p.msg \in up[u].links
    BY DEF FilesInv, Attached, TypeInv, TypeOK
  <2>2. up[u].published /\ p.msg \in LiveLinks(u)
    BY <2>1 DEF FilesInv, RowsSound, LiveLinks
  <2>3. Accessible(u)
    BY <2>1, <2>2 DEF Accessible
  <2> QED
    BY <2>1, <2>3 DEF WholeInv, Whole
<1> QED
  BY <1>1, <1>2, <1>3, TypeInvHolds, FilesInvHolds, PTL DEF Spec

\* A download gets what was declared or nothing, although it reads the file without the
\* mutex and long after its access check (complete, download).
THEOREM ServedAsDeclaredHolds == Spec => []ServedAsDeclared
<1>1. FilesInv => ServedAsDeclared
  BY DEF FilesInv
<1> QED
  BY <1>1, FilesInvHolds, PTL

=============================================================================
