----------------------------- MODULE RoomFiles ------------------------------
(***************************************************************************)
(* The files of one data room as files.service.ts keeps them: file and     *)
(* version rows, the stored contents, the room's storageUsedBytes and the  *)
(* storage warning tracker.  upload, addVersion and remove write these in  *)
(* several statements, each an action here, and requests run concurrently. *)
(*                                                                         *)
(* A version row is known by its file and number, which the schema makes   *)
(* unique.  isLocked, which no code sets, and the audit rows are left out. *)
(***************************************************************************)
EXTENDS Integers, Sequences, FiniteSets, FiniteSetsExt

CONSTANTS
  Requests,                          \* the slots a request in flight occupies
  Sizes,                             \* sizes an upload may have
  LimitBytes,                        \* storageLimitGb of the room
  WarningPercent, CriticalPercent,   \* storage.warningPercent and criticalPercent
  MaxBatch,                          \* bound: files in one upload
  MaxBlobs                           \* bound: contents ever stored

ASSUME RequestsAssumption == IsFiniteSet(Requests)
ASSUME SizesAssumption == Sizes \subseteq Nat
ASSUME LimitAssumption == LimitBytes \in Nat \ {0}
ASSUME PercentAssumption == WarningPercent \in Nat /\ CriticalPercent \in Nat
ASSUME FileBoundsAssumption == MaxBatch \in Nat \ {0} /\ MaxBlobs \in Nat

VARIABLES
  files,     \* the File rows; an id is a position: deleted, size, current
  versions,  \* the FileVersion rows: file, number, blob, size
  blobs,     \* the contents stored: they are 1 .. blobs
  used,      \* storageUsedBytes
  notified,  \* highestStorageThresholdNotified
  req,       \* what each request in flight holds between two awaits
  told,      \* history: the highest level mailed that use has not fallen below since
  serial,    \* history: no two requests were ever in flight together, none was cut short
  torn       \* history: two requests worked on one file, or one was cut short mid-write

vars == <<files, versions, blobs, used, notified, req, told, serial, torn>>
rows == <<files, versions>>

Idle == [pc |-> "idle"]
Ids == DOMAIN files
Live == {f \in Ids : ~files[f].deleted}
Busy == {r \in Requests : req[r].pc # "idle"}

\* The pcs at which a request works on a file row it has read.
Holding == {"mark", "latest", "insert", "point"}
Handled == {req[r].file : r \in {q \in Requests : req[q].pc \in Holding}}

Begin(r, held) ==
  /\ req[r] = Idle
  /\ req' = [req EXCEPT ![r] = held]
  /\ serial' = (serial /\ Busy = {})

Continue(r, held) ==
  /\ req' = [req EXCEPT ![r] = held]
  /\ UNCHANGED serial

Init ==
  /\ files = <<>> /\ versions = {} /\ blobs = 0
  /\ used = 0 /\ notified = 0
  /\ req = [r \in Requests |-> Idle]
  /\ told = 0 /\ serial = TRUE /\ torn = FALSE

-----------------------------------------------------------------------------
(* Contents *)

SamePath == 1  \* mutant of NewPath: the path without its UUID

\* LocalStorageProvider.save: every content gets a path of its own.
NewPath == blobs + 1

Save == blobs < MaxBlobs /\ blobs' = blobs + 1

-----------------------------------------------------------------------------
(* upload: a loop over the files of the request *)

\* left is how many files of the batch follow this one.
UploadSave(r, size, left) ==
  /\ Save
  /\ \/ Begin(r, [pc |-> "create", size |-> size, blob |-> NewPath, left |-> left])
     \/ /\ req[r].pc = "next" /\ left = req[r].left - 1
        /\ Continue(r, [pc |-> "create", size |-> size, blob |-> NewPath,
                        left |-> left])
  /\ UNCHANGED <<rows, used, notified, told, torn>>

\* The transaction: the file, its version 1, and the pointer between them.
UploadCreate(r) ==
  /\ req[r].pc = "create"
  /\ files' = Append(files, [deleted |-> FALSE, size |-> req[r].size, current |-> 1])
  /\ versions' = versions \cup
       {[file |-> Len(files) + 1, number |-> 1, blob |-> req[r].blob,
         size |-> req[r].size]}
  /\ Continue(r, [pc |-> "count", delta |-> req[r].size, left |-> req[r].left])
  /\ UNCHANGED <<blobs, used, notified, told, torn>>

-----------------------------------------------------------------------------
(* remove *)

RemoveRead(r, f) ==
  /\ f \in Live
  /\ Begin(r, [pc |-> "mark", file |-> f, size |-> files[f].size])
  /\ torn' = (torn \/ f \in Handled)
  /\ UNCHANGED <<rows, blobs, used, notified, told>>

\* The update is by id alone: it succeeds on a row removed meanwhile.
RemoveMark(r) ==
  /\ req[r].pc = "mark"
  /\ files' = [files EXCEPT ![req[r].file].deleted = TRUE]
  /\ Continue(r, [pc |-> "count", delta |-> -req[r].size, left |-> 0])
  /\ UNCHANGED <<versions, blobs, used, notified, told, torn>>

-----------------------------------------------------------------------------
(* addVersion *)

\* Reads the file row and stores the content, which touches nothing shared.
VersionSave(r, f, size) ==
  /\ f \in Live
  /\ Save
  /\ Begin(r, [pc |-> "latest", file |-> f, size |-> size, blob |-> NewPath,
               old |-> files[f].size])
  /\ torn' = (torn \/ f \in Handled)
  /\ UNCHANGED <<rows, used, notified, told>>

Numbers(f) == {v.number : v \in {w \in versions : w.file = f}}

NextNumberSkipping(f) == Max(Numbers(f)) + 2  \* mutant of NextNumber

\* (latestVersion?.versionNumber ?? 0) + 1: a file row has its version 1.
NextNumber(f) == Max(Numbers(f)) + 1

VersionLatest(r) ==
  /\ req[r].pc = "latest"
  /\ Continue(r, [pc |-> "insert", file |-> req[r].file, size |-> req[r].size,
                  blob |-> req[r].blob, old |-> req[r].old,
                  number |-> NextNumber(req[r].file)])
  /\ UNCHANGED <<rows, blobs, used, notified, told, torn>>

TakenNever(f, number) == FALSE  \* mutant of Taken: no unique constraint

\* @@unique([fileId, versionNumber])
Taken(f, number) == number \in Numbers(f)

\* A number taken meanwhile fails the insert and with it the request, which
\* leaves its content stored and unreferenced.
VersionInsert(r) ==
  LET q == req[r] IN
  /\ q.pc = "insert"
  /\ IF Taken(q.file, q.number)
     THEN UNCHANGED versions /\ Continue(r, Idle)
     ELSE /\ versions' = versions \cup {[file |-> q.file, number |-> q.number,
                                         blob |-> q.blob, size |-> q.size]}
          /\ Continue(r, [pc |-> "point", file |-> q.file, number |-> q.number,
                          size |-> q.size, old |-> q.old])
  /\ UNCHANGED <<files, blobs, used, notified, told, torn>>

FullDelta(size, old) == size  \* mutant of VersionDelta

\* The room grows by the difference to the size read before the await.
VersionDelta(size, old) == size - old

VersionPointSizeOnly(r) ==  \* mutant of VersionPoint
  /\ req[r].pc = "point"
  /\ files' = [files EXCEPT ![req[r].file].size = req[r].size]
  /\ Continue(r, [pc |-> "count", delta |-> VersionDelta(req[r].size, req[r].old),
                  left |-> 0])
  /\ UNCHANGED <<versions, blobs, used, notified, told, torn>>

VersionPoint(r) ==
  /\ req[r].pc = "point"
  /\ files' = [files EXCEPT ![req[r].file].current = req[r].number,
                            ![req[r].file].size = req[r].size]
  /\ Continue(r, [pc |-> "count", delta |-> VersionDelta(req[r].size, req[r].old),
                  left |-> 0])
  /\ UNCHANGED <<versions, blobs, used, notified, told, torn>>

-----------------------------------------------------------------------------
(* storageUsedBytes and checkStorageThreshold *)

Percent(bytes) == (bytes * 100) \div LimitBytes

CrossedRaw(bytes) == Percent(bytes)  \* mutant of Crossed

\* The warning level in use.
Crossed(bytes) ==
  IF Percent(bytes) >= 100 THEN 100
  ELSE IF Percent(bytes) >= CriticalPercent THEN CriticalPercent
  ELSE IF Percent(bytes) >= WarningPercent THEN WarningPercent ELSE 0

\* One atomic increment or decrement; then the next file, or the check.
Count(r) ==
  /\ req[r].pc = "count"
  /\ used' = used + req[r].delta
  /\ told' = Min({told, Crossed(used')})
  /\ Continue(r, IF req[r].left > 0 THEN [pc |-> "next", left |-> req[r].left]
                                    ELSE [pc |-> "check"])
  /\ UNCHANGED <<rows, blobs, notified, torn>>

TrackUpward(level, before) == level > before  \* mutant of ShouldTrack

ShouldTrack(level, before) == level # before

CheckRead(r) ==
  /\ req[r].pc = "check"
  /\ Continue(r,
       IF ShouldTrack(Crossed(used), notified)
       THEN [pc |-> "track", level |-> Crossed(used), before |-> notified]
       ELSE Idle)
  /\ UNCHANGED <<rows, blobs, used, notified, told, torn>>

MailEitherWay(level, before) == level # before /\ level > 0  \* mutant of ShouldMail

ShouldMail(level, before) == level > before /\ level > 0

Track(r) ==
  /\ req[r].pc = "track"
  /\ notified' = req[r].level
  /\ Continue(r, IF ShouldMail(req[r].level, req[r].before)
                 THEN [pc |-> "mail", level |-> req[r].level] ELSE Idle)
  /\ UNCHANGED <<rows, blobs, used, told, torn>>

\* notifyStorageThreshold, to all recipients at once.
Mail(r) ==
  /\ req[r].pc = "mail"
  /\ told' = Min({Max({told, req[r].level}), Crossed(used)})
  /\ Continue(r, Idle)
  /\ UNCHANGED <<rows, blobs, used, notified, torn>>

-----------------------------------------------------------------------------
\* A database error, an unsupported file later in the batch, or the end of
\* the process: what was written stays.
Abort(r) ==
  /\ r \in Busy
  /\ req' = [req EXCEPT ![r] = Idle]
  /\ serial' = FALSE
  /\ torn' = (torn \/ req[r].pc \in {"point", "count"})
  /\ UNCHANGED <<rows, blobs, used, notified, told>>

\* list, update (a name, a folder) and listVersions write none of this state.
Elsewhere == UNCHANGED vars

Step(r) ==
  \/ \E size \in Sizes, left \in 0 .. MaxBatch - 1 : UploadSave(r, size, left)
  \/ UploadCreate(r)
  \/ \E f \in Ids : RemoveRead(r, f)
  \/ RemoveMark(r)
  \/ \E f \in Ids, size \in Sizes : VersionSave(r, f, size)
  \/ VersionLatest(r)
  \/ VersionInsert(r)
  \/ VersionPoint(r)
  \/ Count(r)
  \/ CheckRead(r)
  \/ Track(r)
  \/ Mail(r)
  \/ Abort(r)

Next == (\E r \in Requests : Step(r)) \/ Elsewhere

Spec == Init /\ [][Next]_vars

-----------------------------------------------------------------------------
Levels == {0, WarningPercent, CriticalPercent, 100}
FileRows == [deleted : BOOLEAN, size : Nat, current : Nat]
VersionRows == [file : Nat, number : Nat, blob : Nat, size : Nat]

Request ==
  {Idle} \cup [pc : {"create"}, size : Nat, blob : Nat, left : Nat]
    \cup [pc : {"next"}, left : Nat]
    \cup [pc : {"mark"}, file : Nat, size : Nat]
    \cup [pc : {"latest"}, file : Nat, size : Nat, blob : Nat, old : Nat]
    \cup [pc : {"insert"}, file : Nat, size : Nat, blob : Nat, old : Nat, number : Nat]
    \cup [pc : {"point"}, file : Nat, number : Nat, size : Nat, old : Nat]
    \cup [pc : {"count"}, delta : Int, left : Nat]
    \cup {[pc |-> "check"]}
    \cup [pc : {"track"}, level : Levels, before : Levels]
    \cup [pc : {"mail"}, level : Levels]

\* The shape of every row and request; requests refer only to rows that exist.
TypeOK ==
  /\ files \in Seq(FileRows)
  /\ versions \subseteq VersionRows
  /\ blobs \in Nat /\ used \in Int /\ notified \in Levels
  /\ req \in [Requests -> Request]
  /\ \A r \in Requests : req[r].pc \in Holding => req[r].file \in Ids
  /\ told \in Levels /\ serial \in BOOLEAN /\ torn \in BOOLEAN

\* A version row never points at a content that is missing or another's: the
\* content is stored before the row, under a path nothing else uses, and a
\* request cut short between the two leaves only the content.
VersionHasContent ==
  /\ \A v \in versions : v.blob \in 1 .. blobs
  /\ \A v, w \in versions : v.blob = w.blob => v = w

\* However additions race for the next number, the versions of a file are
\* numbered 1, 2, 3, ... with one row each (:225-242).
VersionsNumbered ==
  /\ \A v, w \in versions : v.file = w.file /\ v.number = w.number => v = w
  /\ \A f \in Ids : \A n \in Numbers(f) \cup {1} : 1 .. n \subseteq Numbers(f)

\* A file shows its newest version, unless the request that added it has yet
\* to point the file at it, or two requests met on one file (:244-247).
CurrentIsNewest ==
  ~torn => \A f \in Ids :
    \/ files[f].current = Max(Numbers(f))
    \/ \E r \in Requests : req[r].pc = "point" /\ req[r].file = f

\* The books balance: as long as no two requests met on one file and none was
\* cut short mid-write, the room's counter and what the requests in flight
\* still owe it come to the size of the live files.  Concurrent requests on
\* different files are part of it, since every change is an increment
\* (:129-132, :186-189, :249-252).
LedgerBalances ==
  LET Owed(r) == IF req[r].pc = "count" THEN req[r].delta ELSE 0
      Size(f) == files[f].size
  IN  ~torn => used + MapThenSumSet(Owed, Requests) = MapThenSumSet(Size, Live)

\* Requests one after the other keep the warnings in step with use: once the
\* last has ended, the tracker stands at the level in use, and every upward
\* crossing has been mailed (:397-409).
WarningsKeepUp ==
  serial /\ Busy = {} => notified = Crossed(used) /\ told = Crossed(used)

\* Requests one after the other mail a level once for each upward crossing.
OncePerCrossingSerial ==
  [][\A r \in Requests : serial /\ Mail(r) => req[r].level > told]_vars

\* Every interleaving and every cut of the handlers is, seen from the rows, a
\* run of the promise in FileStore.
Store == INSTANCE FileStore WITH
  Contents <- 1 .. MaxBlobs,
  versions <- {[file |-> v.file, number |-> v.number, blob |-> v.blob] : v \in versions},
  current <- [f \in Ids |-> files[f].current],
  removed <- {f \in Ids : files[f].deleted}

ImplementsFileStore == Store!Spec

-----------------------------------------------------------------------------
(* What the properties above need to be inductive.                         *)

Carrying == {r \in Requests : req[r].pc \in {"create", "latest", "insert"}}

\* A content a request has stored and not yet recorded is that request's alone.
ContentCarried ==
  /\ \A r \in Carrying : /\ req[r].blob \in 1 .. blobs
                          /\ \A v \in versions : v.blob # req[r].blob
  /\ \A r, q \in Carrying : r # q => req[r].blob # req[q].blob

ContentInv == VersionHasContent /\ ContentCarried /\ blobs <= MaxBlobs

\* A number about to be inserted follows one that is there; a number about to
\* become current is there; a file has a highest number.
NumbersCarried ==
  /\ \A v \in versions : v.file \in Ids
  /\ \A f \in Ids : /\ files[f].current \in Numbers(f)
                    /\ \E top \in Numbers(f) : \A n \in Numbers(f) : n <= top
  /\ \A r \in Requests :
       /\ req[r].pc = "insert" => \E n \in Numbers(req[r].file) : req[r].number = n + 1
       /\ req[r].pc = "point" => req[r].number \in Numbers(req[r].file)

NumberInv == VersionsNumbered /\ NumbersCarried

-----------------------------------------------------------------------------
(* What a comment says, and concurrent requests do not keep.               *)

\* "Fires exactly once per upward threshold crossing" (:381).
OncePerCrossing ==
  [][\A r \in Requests : Mail(r) => req[r].level > told]_vars
=============================================================================
