-------------------------- MODULE RoomFilesProofs ---------------------------
(***************************************************************************)
(* What RoomFiles guarantees for every number of requests in flight, every *)
(* size, limit and percentage: contents and numbers of versions, that the  *)
(* handlers implement FileStore, that a file shows its newest version      *)
(* unless two requests met on it, that the storage warnings of requests in *)
(* turn keep up with what is stored, and that the counter of the room      *)
(* balances with its files.                                                *)
(***************************************************************************)
EXTENDS RoomFiles, FiniteSetTheorems, WellFoundedInduction, TLAPS

LEMMA LevelCrossed == ASSUME NEW bytes PROVE Crossed(bytes) \in Levels
BY DEF Crossed, Levels

LEMMA MinOfTwo ==
  ASSUME NEW a \in Int, NEW b \in Int
  PROVE  Min({a, b}) \in {a, b}
<1>1. \E x \in {a, b} : \A y \in {a, b} : x <= y
  OBVIOUS
<1> QED BY <1>1 DEF Min

LEMMA MaxOfTwo ==
  ASSUME NEW a \in Int, NEW b \in Int
  PROVE  Max({a, b}) \in {a, b}
<1>1. \E x \in {a, b} : \A y \in {a, b} : x >= y
  OBVIOUS
<1> QED BY <1>1 DEF Max

LEMMA LevelsAreInts == Levels \subseteq Nat
BY PercentAssumption DEF Levels

LEMMA LevelOfTwo ==
  ASSUME NEW a \in Levels, NEW b \in Levels
  PROVE  Min({a, b}) \in Levels /\ Max({a, b}) \in Levels
<1>1. a \in Int /\ b \in Int
  BY LevelsAreInts
<1> QED BY <1>1, MinOfTwo, MaxOfTwo

LEMMA FileRow ==
  ASSUME TypeOK, NEW f \in Ids
  PROVE  /\ f \in Nat /\ f \in 1 .. Len(files) /\ Ids = 1 .. Len(files)
         /\ Len(files) \in Nat /\ files[f] \in FileRows
<1>1. files \in Seq(FileRows)
  BY DEF TypeOK
<1>2. Ids = 1 .. Len(files) /\ Len(files) \in Nat
  BY <1>1 DEF Ids
<1> QED BY <1>1, <1>2

\* A file row replaced leaves the others where they are.
LEMMA RowReplaced ==
  ASSUME TypeOK, NEW f \in Ids, NEW row \in FileRows,
         files' = [files EXCEPT ![f] = row]
  PROVE  files' \in Seq(FileRows) /\ Ids' = Ids
<1>1. files \in Seq(FileRows) /\ f \in DOMAIN files
  BY DEF TypeOK, Ids
<1>2. files' \in Seq(FileRows)
  BY <1>1
<1>3. DOMAIN files' = DOMAIN files
  BY <1>1
<1> QED BY <1>2, <1>3 DEF Ids

\* Begin and Continue write only a request's own slot.
LEMMA Slots ==
  ASSUME TypeOK, NEW r \in Requests, NEW held, Begin(r, held) \/ Continue(r, held)
  PROVE  /\ req'[r] = held
         /\ \A q \in Requests : q # r => req'[q] = req[q]
         /\ held \in Request => req' \in [Requests -> Request]
         /\ serial' \in BOOLEAN
BY DEF TypeOK, Begin, Continue

-----------------------------------------------------------------------------
(* Type correctness *)

LEMMA InitTypes == Init => TypeOK
<1> SUFFICES ASSUME Init PROVE TypeOK
  OBVIOUS
<1>1. files \in Seq(FileRows) /\ versions \subseteq VersionRows
  BY DEF Init
<1>2. blobs \in Nat /\ used \in Int
  BY DEF Init
<1>6. serial \in BOOLEAN /\ torn \in BOOLEAN
  BY Zenon DEF Init
<1>3. notified \in Levels /\ told \in Levels
  BY DEF Init, Levels
<1>4. req \in [Requests -> Request]
  BY DEF Init, Request
<1>5. \A r \in Requests : req[r].pc \in Holding => req[r].file \in Ids
  BY DEF Init, Idle, Holding
<1> QED BY <1>1, <1>2, <1>3, <1>4, <1>5, <1>6 DEF TypeOK

\* A step that moves a request on to a held value of the right shape.
LEMMA SlotTypes ==
  ASSUME TypeOK, NEW r \in Requests, NEW held \in Request,
         Begin(r, held) \/ Continue(r, held), Ids \subseteq Ids',
         held.pc \in Holding => held.file \in Ids
  PROVE  /\ req' \in [Requests -> Request]
         /\ \A q \in Requests : req'[q].pc \in Holding => req'[q].file \in Ids'
         /\ serial' \in BOOLEAN
BY Slots DEF TypeOK

\* What a request holds at each pc.
LEMMA HeldTypes ==
  ASSUME TypeOK, NEW r \in Requests
  PROVE  /\ req[r].pc = "create" =>
              req[r].size \in Nat /\ req[r].blob \in Nat /\ req[r].left \in Nat
         /\ req[r].pc = "next" => req[r].left \in Nat
         /\ req[r].pc = "mark" => req[r].file \in Ids /\ req[r].size \in Nat
         /\ req[r].pc \in {"latest", "insert"} =>
              /\ req[r].file \in Ids /\ req[r].size \in Nat
              /\ req[r].blob \in Nat /\ req[r].old \in Nat
         /\ req[r].pc = "insert" => req[r].number \in Nat
         /\ req[r].pc = "point" =>
              /\ req[r].file \in Ids /\ req[r].size \in Nat
              /\ req[r].old \in Nat /\ req[r].number \in Nat
         /\ req[r].pc = "count" => req[r].delta \in Int /\ req[r].left \in Nat
         /\ req[r].pc = "track" => req[r].level \in Levels /\ req[r].before \in Levels
         /\ req[r].pc = "mail" => req[r].level \in Levels
<1>1. req[r] \in Request
  BY DEF TypeOK
<1>2. req[r].pc \in Holding => req[r].file \in Ids
  BY DEF TypeOK
<1> QED BY <1>1, <1>2 DEF Request, Idle, Holding

\* The next number of a file follows its highest.
LEMMA NextFollowsTop ==
  ASSUME TypeOK, NumbersCarried, NEW f \in Ids
  PROVE  \E top \in Numbers(f) : /\ top \in Nat /\ NextNumber(f) = top + 1
                                 /\ \A n \in Numbers(f) : n \in Nat /\ n <= top
<1>1. \A n \in Numbers(f) : n \in Nat
  BY DEF TypeOK, VersionRows, Numbers
<1>2. PICK top \in Numbers(f) : \A n \in Numbers(f) : n <= top
  BY DEF NumbersCarried
<1>3. Max(Numbers(f)) = top
  BY <1>1, <1>2 DEF Max
<1> QED BY <1>1, <1>2, <1>3 DEF NextNumber

LEMMA StepTypes ==
  ASSUME TypeOK, NumbersCarried, [Next]_vars
  PROVE  TypeOK'
<1> USE LevelsAreInts
<1>1. ASSUME NEW r \in Requests, NEW size \in Sizes, NEW left \in 0 .. MaxBatch - 1,
             UploadSave(r, size, left)
      PROVE  TypeOK'
  <2> DEFINE held == [pc |-> "create", size |-> size, blob |-> NewPath, left |-> left]
  <2>1. /\ size \in Nat /\ left \in Nat /\ NewPath \in Nat
    BY SizesAssumption, FileBoundsAssumption DEF TypeOK, NewPath
  <2>2. held \in Request /\ held.pc \notin Holding
    BY <2>1 DEF Request, Holding
  <2>3. Begin(r, held) \/ Continue(r, held)
    BY <1>1 DEF UploadSave
  <2>4. UNCHANGED <<files, versions, used, notified, told, torn>> /\ blobs' = blobs + 1
    BY <1>1 DEF UploadSave, Save, rows
  <2> HIDE DEF held
  <2>5. Ids' = Ids
    BY <2>4 DEF Ids
  <2> QED BY <2>2, <2>3, <2>4, <2>5, SlotTypes DEF TypeOK
<1>2. ASSUME NEW r \in Requests, UploadCreate(r)
      PROVE  TypeOK'
  <2> DEFINE held == [pc |-> "count", delta |-> req[r].size, left |-> req[r].left]
             row == [deleted |-> FALSE, size |-> req[r].size, current |-> 1]
             version == [file |-> Len(files) + 1, number |-> 1, blob |-> req[r].blob,
                         size |-> req[r].size]
  <2>1. /\ req[r].size \in Nat /\ req[r].left \in Nat /\ req[r].blob \in Nat
    BY <1>2, HeldTypes DEF UploadCreate
  <2>2. held \in Request /\ held.pc \notin Holding
    BY <2>1 DEF Request, Holding
  <2>3. row \in FileRows
    BY <2>1 DEF FileRows
  <2>4. version \in VersionRows
    BY <2>1 DEF VersionRows, TypeOK
  <2>5. /\ files' = Append(files, row) /\ versions' = versions \cup {version}
        /\ Begin(r, held) \/ Continue(r, held)
        /\ UNCHANGED <<blobs, used, notified, told, torn>>
    BY <1>2 DEF UploadCreate
  <2> HIDE DEF held, row, version
  <2>6. files' \in Seq(FileRows) /\ Ids \subseteq Ids'
    BY <2>3, <2>5 DEF TypeOK, Ids
  <2>7. versions' \subseteq VersionRows
    BY <2>4, <2>5 DEF TypeOK
  <2> QED BY <2>2, <2>5, <2>6, <2>7, SlotTypes DEF TypeOK
<1>3. ASSUME NEW r \in Requests, NEW f \in Ids, RemoveRead(r, f)
      PROVE  TypeOK'
  <2> DEFINE held == [pc |-> "mark", file |-> f, size |-> files[f].size]
  <2>1. f \in Nat /\ files[f].size \in Nat
    BY FileRow DEF FileRows
  <2>2. held \in Request /\ held.file \in Ids
    BY <2>1 DEF Request
  <2>3. /\ Begin(r, held) \/ Continue(r, held)
        /\ UNCHANGED <<files, versions, blobs, used, notified, told>>
    BY <1>3 DEF RemoveRead, rows
  <2> HIDE DEF held
  <2>4. torn' \in BOOLEAN
    BY <1>3, Zenon DEF RemoveRead
  <2>5. Ids' = Ids
    BY <2>3 DEF Ids
  <2> QED BY <2>2, <2>3, <2>4, <2>5, SlotTypes DEF TypeOK
<1>4. ASSUME NEW r \in Requests, RemoveMark(r)
      PROVE  TypeOK'
  <2> DEFINE held == [pc |-> "count", delta |-> -req[r].size, left |-> 0]
  <2>1. req[r].size \in Nat /\ req[r].file \in Ids
    BY <1>4, HeldTypes DEF RemoveMark
  <2>2. held \in Request /\ held.pc \notin Holding
    BY <2>1 DEF Request, Holding
  <2>3. /\ Begin(r, held) \/ Continue(r, held)
        /\ UNCHANGED <<versions, blobs, used, notified, told, torn>>
        /\ files' = [files EXCEPT ![req[r].file].deleted = TRUE]
    BY <1>4 DEF RemoveMark
  <2> HIDE DEF held
  <2> DEFINE row == [files[req[r].file] EXCEPT !.deleted = TRUE]
  <2>4. row \in FileRows
    BY <2>1, FileRow DEF FileRows
  <2>5. files' = [files EXCEPT ![req[r].file] = row]
    BY <2>3
  <2> HIDE DEF row
  <2>6. files' \in Seq(FileRows) /\ Ids' = Ids
    BY <2>1, <2>4, <2>5, RowReplaced
  <2> QED BY <2>2, <2>3, <2>6, SlotTypes DEF TypeOK
<1>5. ASSUME NEW r \in Requests, NEW f \in Ids, NEW size \in Sizes,
             VersionSave(r, f, size)
      PROVE  TypeOK'
  <2> DEFINE held == [pc |-> "latest", file |-> f, size |-> size, blob |-> NewPath,
                      old |-> files[f].size]
  <2>1. /\ f \in Nat /\ files[f].size \in Nat /\ size \in Nat /\ NewPath \in Nat
    BY SizesAssumption, FileRow DEF TypeOK, FileRows, NewPath
  <2>2. held \in Request /\ held.file \in Ids
    BY <2>1 DEF Request
  <2>3. /\ Begin(r, held) \/ Continue(r, held)
        /\ UNCHANGED <<files, versions, used, notified, told>>
        /\ blobs' = blobs + 1
    BY <1>5 DEF VersionSave, rows, Save
  <2> HIDE DEF held
  <2>4. torn' \in BOOLEAN
    BY <1>5, Zenon DEF VersionSave
  <2>5. Ids' = Ids
    BY <2>3 DEF Ids
  <2> QED BY <2>2, <2>3, <2>4, <2>5, SlotTypes DEF TypeOK
<1>6. ASSUME NEW r \in Requests, VersionLatest(r)
      PROVE  TypeOK'
  <2> DEFINE held == [pc |-> "insert", file |-> req[r].file, size |-> req[r].size,
                      blob |-> req[r].blob, old |-> req[r].old,
                      number |-> NextNumber(req[r].file)]
  <2>1. /\ req[r].file \in Ids /\ req[r].size \in Nat
        /\ req[r].blob \in Nat /\ req[r].old \in Nat
    BY <1>6, HeldTypes DEF VersionLatest
  <2>2. NextNumber(req[r].file) \in Nat /\ req[r].file \in Nat
    BY <2>1, NextFollowsTop DEF TypeOK, Ids
  <2>3. held \in Request /\ held.file \in Ids
    BY <2>1, <2>2 DEF Request
  <2>4. /\ Begin(r, held) \/ Continue(r, held)
        /\ UNCHANGED <<files, versions, blobs, used, notified, told, torn>>
    BY <1>6 DEF VersionLatest, rows
  <2> HIDE DEF held
  <2>5. Ids' = Ids
    BY <2>4 DEF Ids
  <2> QED BY <2>3, <2>4, <2>5, SlotTypes DEF TypeOK
<1>7. ASSUME NEW r \in Requests, VersionInsert(r)
      PROVE  TypeOK'
  <2> DEFINE q == req[r]
             held == [pc |-> "point", file |-> q.file, number |-> q.number,
                      size |-> q.size, old |-> q.old]
             version == [file |-> q.file, number |-> q.number, blob |-> q.blob,
                         size |-> q.size]
  <2>1. /\ q.file \in Ids /\ q.size \in Nat /\ q.old \in Nat
        /\ q.blob \in Nat /\ q.number \in Nat
    BY <1>7, HeldTypes DEF VersionInsert
  <2>2. q.file \in Nat
    BY <2>1 DEF TypeOK, Ids
  <2>3. held \in Request /\ held.file \in Ids /\ version \in VersionRows
    BY <2>1, <2>2 DEF Request, VersionRows
  <2>4. Idle \in Request /\ Idle.pc \notin Holding
    BY DEF Request, Idle, Holding
  <2>5. UNCHANGED <<files, blobs, used, notified, told, torn>> /\ Ids' = Ids
    BY <1>7 DEF VersionInsert, Ids
  <2>6. \/ UNCHANGED versions /\ Continue(r, Idle)
        \/ versions' = versions \cup {version} /\ Continue(r, held)
    BY <1>7 DEF VersionInsert
  <2> HIDE DEF held, version, q
  <2>7. versions' \subseteq VersionRows
    BY <2>3, <2>6 DEF TypeOK
  <2> QED BY <2>3, <2>4, <2>5, <2>6, <2>7, SlotTypes DEF TypeOK
<1>8. ASSUME NEW r \in Requests, VersionPoint(r)
      PROVE  TypeOK'
  <2> DEFINE held == [pc |-> "count", delta |-> VersionDelta(req[r].size, req[r].old),
                      left |-> 0]
  <2>1. /\ req[r].size \in Nat /\ req[r].old \in Nat
        /\ req[r].number \in Nat /\ req[r].file \in Ids
    BY <1>8, HeldTypes DEF VersionPoint
  <2>2. held \in Request /\ held.pc \notin Holding
    BY <2>1 DEF Request, Holding, VersionDelta
  <2>3. /\ Begin(r, held) \/ Continue(r, held)
        /\ UNCHANGED <<versions, blobs, used, notified, told, torn>>
        /\ files' = [files EXCEPT ![req[r].file].current = req[r].number,
                                  ![req[r].file].size = req[r].size]
    BY <1>8 DEF VersionPoint
  <2> HIDE DEF held
  <2> DEFINE row == [files[req[r].file] EXCEPT !.current = req[r].number,
                                              !.size = req[r].size]
  <2>4. row \in FileRows
    BY <2>1, FileRow DEF FileRows
  <2>5. files' = [files EXCEPT ![req[r].file] = row]
    BY <2>1, <2>3, FileRow DEF TypeOK
  <2> HIDE DEF row
  <2>6. files' \in Seq(FileRows) /\ Ids' = Ids
    BY <2>1, <2>4, <2>5, RowReplaced
  <2> QED BY <2>2, <2>3, <2>6, SlotTypes DEF TypeOK
<1>9. ASSUME NEW r \in Requests, Count(r)
      PROVE  TypeOK'
  <2> DEFINE held == IF req[r].left > 0 THEN [pc |-> "next", left |-> req[r].left]
                                        ELSE [pc |-> "check"]
  <2>1. req[r].delta \in Int /\ req[r].left \in Nat
    BY <1>9, HeldTypes DEF Count
  <2>2. held \in Request /\ held.pc \notin Holding
    BY <2>1 DEF Request, Holding
  <2>3. /\ Begin(r, held) \/ Continue(r, held)
        /\ UNCHANGED <<files, versions, blobs, notified, torn>>
        /\ used' = used + req[r].delta /\ told' = Min({told, Crossed(used')})
    BY <1>9 DEF Count, rows
  <2> HIDE DEF held
  <2>4. told' \in Levels
    BY <2>3, LevelCrossed, LevelOfTwo DEF TypeOK
  <2>5. Ids' = Ids
    BY <2>3 DEF Ids
  <2> QED BY <2>1, <2>2, <2>3, <2>4, <2>5, SlotTypes DEF TypeOK
<1>10. ASSUME NEW r \in Requests, CheckRead(r)
       PROVE  TypeOK'
  <2> DEFINE held == IF ShouldTrack(Crossed(used), notified)
                     THEN [pc |-> "track", level |-> Crossed(used), before |-> notified]
                     ELSE Idle
  <2>1. Crossed(used) \in Levels /\ notified \in Levels
    BY LevelCrossed DEF TypeOK
  <2>2. held \in Request /\ held.pc \notin Holding
    BY <2>1 DEF Request, Holding, Idle
  <2>3. /\ Begin(r, held) \/ Continue(r, held)
        /\ UNCHANGED <<files, versions, blobs, used, notified, told, torn>>
    BY <1>10 DEF CheckRead, rows
  <2> HIDE DEF held
  <2>4. Ids' = Ids
    BY <2>3 DEF Ids
  <2> QED BY <2>2, <2>3, <2>4, SlotTypes DEF TypeOK
<1>11. ASSUME NEW r \in Requests, Track(r)
       PROVE  TypeOK'
  <2> DEFINE held == IF ShouldMail(req[r].level, req[r].before)
                     THEN [pc |-> "mail", level |-> req[r].level] ELSE Idle
  <2>1. req[r].level \in Levels
    BY <1>11, HeldTypes DEF Track
  <2>2. held \in Request /\ held.pc \notin Holding
    BY <2>1 DEF Request, Holding, Idle
  <2>3. /\ Begin(r, held) \/ Continue(r, held)
        /\ UNCHANGED <<files, versions, blobs, used, told, torn>>
        /\ notified' = req[r].level
    BY <1>11 DEF Track, rows
  <2> HIDE DEF held
  <2>4. Ids' = Ids
    BY <2>3 DEF Ids
  <2> QED BY <2>1, <2>2, <2>3, <2>4, SlotTypes DEF TypeOK
<1>12. ASSUME NEW r \in Requests, Mail(r)
       PROVE  TypeOK'
  <2>1. req[r].level \in Levels
    BY <1>12, HeldTypes DEF Mail
  <2>2. Idle \in Request /\ Idle.pc \notin Holding
    BY DEF Request, Holding, Idle
  <2>3. /\ Begin(r, Idle) \/ Continue(r, Idle)
        /\ UNCHANGED <<files, versions, blobs, used, notified, torn>>
        /\ told' = Min({Max({told, req[r].level}), Crossed(used)})
    BY <1>12 DEF Mail, rows
  <2>4. Max({told, req[r].level}) \in Levels
    BY <2>1, LevelOfTwo DEF TypeOK
  <2>5. told' \in Levels
    BY <2>3, <2>4, LevelCrossed, LevelOfTwo
  <2>6. Ids' = Ids
    BY <2>3 DEF Ids
  <2> QED BY <2>2, <2>3, <2>5, <2>6, SlotTypes DEF TypeOK
<1>13. ASSUME NEW r \in Requests, Abort(r)
       PROVE  TypeOK'
  <2>1. Idle \in Request /\ Idle.pc \notin Holding
    BY DEF Request, Holding, Idle
  <2>2. /\ req' = [req EXCEPT ![r] = Idle]
        /\ UNCHANGED <<files, versions, blobs, used, notified, told>>
    BY <1>13 DEF Abort, rows
  <2>3. serial' \in BOOLEAN /\ torn' \in BOOLEAN
    BY <1>13, Zenon DEF Abort, TypeOK
  <2>4. Ids' = Ids
    BY <2>2 DEF Ids
  <2> QED BY <2>1, <2>2, <2>3, <2>4 DEF TypeOK
<1>14. CASE UNCHANGED vars
  BY <1>14 DEF TypeOK, vars, Ids
<1> QED BY <1>1, <1>2, <1>3, <1>4, <1>5, <1>6, <1>7, <1>8, <1>9, <1>10, <1>11, <1>12,
           <1>13, <1>14 DEF Next, Step, Elsewhere

-----------------------------------------------------------------------------
(* Contents *)

LEMMA InitContents == Init => ContentInv
BY FileBoundsAssumption
   DEF Init, ContentInv, VersionHasContent, ContentCarried, Carrying, Idle

\* No content is stored or recorded; what is carried on was carried before.
LEMMA ContentsKept ==
  ASSUME ContentInv, UNCHANGED <<versions, blobs>>,
         \A q \in Requests : req'[q].pc \in {"create", "latest", "insert"} =>
           /\ req[q].pc \in {"create", "latest", "insert"}
           /\ req'[q].blob = req[q].blob
  PROVE  ContentInv'
BY DEF ContentInv, VersionHasContent, ContentCarried, Carrying

\* A content is stored for the request that stores it.
LEMMA ContentSaved ==
  ASSUME TypeOK, ContentInv, NEW r \in Requests, Save, UNCHANGED versions,
         req'[r].blob = NewPath, \A q \in Requests : q # r => req'[q] = req[q]
  PROVE  ContentInv'
<1>1. blobs \in Nat /\ MaxBlobs \in Nat
  BY FileBoundsAssumption DEF TypeOK
<1>2. blobs' = blobs + 1 /\ blobs' <= MaxBlobs /\ NewPath = blobs + 1
  BY <1>1 DEF Save, NewPath
<1>3. VersionHasContent'
  BY <1>1, <1>2 DEF ContentInv, VersionHasContent
<1>4. ContentCarried'
  BY <1>1, <1>2 DEF ContentInv, VersionHasContent, ContentCarried, Carrying
<1> QED BY <1>2, <1>3, <1>4 DEF ContentInv

\* A content carried is recorded in a version row.
LEMMA ContentRecorded ==
  ASSUME ContentInv, NEW r \in Carrying, NEW version, UNCHANGED blobs,
         versions' = versions \cup {version}, version.blob = req[r].blob,
         req'[r].pc \notin {"create", "latest", "insert"},
         \A q \in Requests : q # r => req'[q] = req[q]
  PROVE  ContentInv'
<1>1. VersionHasContent'
  BY DEF ContentInv, VersionHasContent, ContentCarried
<1>2. ContentCarried'
  BY DEF ContentInv, ContentCarried, Carrying
<1> QED BY <1>1, <1>2 DEF ContentInv

LEMMA ContentStep ==
  ASSUME TypeOK, ContentInv, [Next]_vars
  PROVE  ContentInv'
<1>1. ASSUME NEW r \in Requests, NEW size \in Sizes, NEW left \in 0 .. MaxBatch - 1,
             UploadSave(r, size, left)
      PROVE  ContentInv'
  <2> DEFINE held == [pc |-> "create", size |-> size, blob |-> NewPath, left |-> left]
  <2>1. (Begin(r, held) \/ Continue(r, held)) /\ Save /\ UNCHANGED versions
    BY <1>1 DEF UploadSave, rows
  <2>2. held.blob = NewPath
    OBVIOUS
  <2> HIDE DEF held
  <2> QED BY <2>1, <2>2, Slots, ContentSaved
<1>2. ASSUME NEW r \in Requests, UploadCreate(r)
      PROVE  ContentInv'
  <2> DEFINE version == [file |-> Len(files) + 1, number |-> 1, blob |-> req[r].blob,
                         size |-> req[r].size]
             held == [pc |-> "count", delta |-> req[r].size, left |-> req[r].left]
  <2>1. Continue(r, held) /\ UNCHANGED blobs /\ versions' = versions \cup {version}
    BY <1>2 DEF UploadCreate
  <2>2. r \in Carrying
    BY <1>2 DEF UploadCreate, Carrying
  <2>3. version.blob = req[r].blob /\ held.pc = "count"
    OBVIOUS
  <2> HIDE DEF version, held
  <2> QED BY <2>1, <2>2, <2>3, Slots, ContentRecorded
<1>3. ASSUME NEW r \in Requests, NEW f \in Ids, NEW size \in Sizes,
             VersionSave(r, f, size)
      PROVE  ContentInv'
  <2> DEFINE held == [pc |-> "latest", file |-> f, size |-> size, blob |-> NewPath,
                      old |-> files[f].size]
  <2>1. Begin(r, held) /\ Save /\ UNCHANGED versions
    BY <1>3 DEF VersionSave, rows
  <2>2. held.blob = NewPath
    OBVIOUS
  <2> HIDE DEF held
  <2> QED BY <2>1, <2>2, Slots, ContentSaved
<1>4. ASSUME NEW r \in Requests, VersionInsert(r)
      PROVE  ContentInv'
  <2> DEFINE q == req[r]
             held == [pc |-> "point", file |-> q.file, number |-> q.number,
                      size |-> q.size, old |-> q.old]
             version == [file |-> q.file, number |-> q.number, blob |-> q.blob,
                         size |-> q.size]
  <2>1. UNCHANGED blobs /\ r \in Carrying
    BY <1>4 DEF VersionInsert, Carrying
  <2>2. \/ UNCHANGED versions /\ Continue(r, Idle)
        \/ versions' = versions \cup {version} /\ Continue(r, held)
    BY <1>4 DEF VersionInsert
  <2>3. version.blob = req[r].blob /\ held.pc = "point" /\ Idle.pc = "idle"
    BY DEF Idle
  <2> HIDE DEF version, held, q
  <2> QED BY <2>1, <2>2, <2>3, Slots, ContentRecorded, ContentsKept
<1>5. ASSUME NEW r \in Requests, VersionLatest(r)
      PROVE  ContentInv'
  <2> DEFINE held == [pc |-> "insert", file |-> req[r].file, size |-> req[r].size,
                      blob |-> req[r].blob, old |-> req[r].old,
                      number |-> NextNumber(req[r].file)]
  <2>1. Continue(r, held) /\ UNCHANGED <<versions, blobs>> /\ req[r].pc = "latest"
    BY <1>5 DEF VersionLatest, rows
  <2>2. held.blob = req[r].blob
    OBVIOUS
  <2> HIDE DEF held
  <2> QED BY <2>1, <2>2, Slots, ContentsKept
<1>6. ASSUME NEW r \in Requests, NEW f \in Ids, RemoveRead(r, f)
      PROVE  ContentInv'
  BY <1>6, Slots, ContentsKept DEF RemoveRead, rows
<1>7. ASSUME NEW r \in Requests,
             RemoveMark(r) \/ VersionPoint(r) \/ Count(r) \/ CheckRead(r)
               \/ Track(r) \/ Mail(r)
      PROVE  ContentInv'
  <2>1. UNCHANGED <<versions, blobs>>
    BY <1>7 DEF RemoveMark, VersionPoint, Count, CheckRead, Track, Mail, rows
  <2>2. PICK held : Continue(r, held) /\ held.pc \notin {"create", "latest", "insert"}
    BY <1>7 DEF RemoveMark, VersionPoint, Count, CheckRead, Track, Mail, Idle
  <2> QED BY <2>1, <2>2, Slots, ContentsKept
<1>8. ASSUME NEW r \in Requests, Abort(r)
      PROVE  ContentInv'
  BY <1>8, ContentsKept DEF Abort, rows, TypeOK, Idle
<1>9. CASE UNCHANGED vars
  BY <1>9, ContentsKept DEF vars
<1> QED BY <1>1, <1>2, <1>3, <1>4, <1>5, <1>6, <1>7, <1>8, <1>9 DEF Next, Step, Elsewhere

-----------------------------------------------------------------------------
(* Numbers of versions *)

LEMMA InitNumbers == Init => NumberInv
BY DEF Init, NumberInv, VersionsNumbered, NumbersCarried, Ids, Idle

\* What the version rows and the pointers of the files owe each other.
RowsNumbered ==
  /\ VersionsNumbered
  /\ \A v \in versions : v.file \in Ids
  /\ \A f \in Ids : /\ files[f].current \in Numbers(f)
                    /\ \E top \in Numbers(f) : \A n \in Numbers(f) : n <= top

RequestNumbered(held) ==
  /\ held.pc = "insert" => \E n \in Numbers(held.file) : held.number = n + 1
  /\ held.pc = "point" => held.number \in Numbers(held.file)

LEMMA NumberParts ==
  /\ NumberInv <=> RowsNumbered /\ \A r \in Requests : RequestNumbered(req[r])
  /\ RowsNumbered' /\ (\A r \in Requests : RequestNumbered(req[r])') => NumberInv'
BY DEF NumberInv, RowsNumbered, RequestNumbered, NumbersCarried

LEMMA RowsKept ==
  ASSUME RowsNumbered, UNCHANGED versions, Ids' = Ids,
         \A f \in Ids : files'[f].current \in Numbers(f)
  PROVE  RowsNumbered'
BY DEF RowsNumbered, VersionsNumbered, Numbers

\* A version row adds its number to its file and to no other.
LEMMA NumberAdded ==
  ASSUME NEW version, versions' = versions \cup {version}
  PROVE  \A g : Numbers(g)' = IF g = version.file THEN Numbers(g) \cup {version.number}
                                                 ELSE Numbers(g)
BY DEF Numbers

\* A number goes to a file only when it is free there and follows another, or
\* is the first of a new file.
LEMMA RowAdded ==
  ASSUME TypeOK, RowsNumbered, NEW version \in VersionRows,
         versions' = versions \cup {version}, version.number \notin Numbers(version.file),
         Ids \subseteq Ids', version.file \in Ids',
         \/ version.file \in Ids /\ \E n \in Numbers(version.file) : version.number = n + 1
         \/ version.file \notin Ids /\ version.number = 1,
         Ids' \subseteq Ids \cup {version.file},
         \A f \in Ids : files'[f].current = files[f].current,
         version.file \notin Ids => files'[version.file].current = version.number
  PROVE  RowsNumbered'
<1> DEFINE g == version.file
<1>1. version.number \in Nat /\ \A f : \A n \in Numbers(f) : n \in Nat
  BY DEF TypeOK, VersionRows, Numbers
<1>2. \A f : Numbers(f)' = IF f = g THEN Numbers(f) \cup {version.number} ELSE Numbers(f)
  BY NumberAdded
<1>3. g \notin Ids => Numbers(g) = {}
  BY DEF RowsNumbered, Numbers
<1>4. \A v, w \in versions' : v.file = w.file /\ v.number = w.number => v = w
  BY DEF RowsNumbered, VersionsNumbered, Numbers
<1>5. ASSUME NEW f \in Ids', NEW n \in Numbers(f)' \cup {1}
      PROVE  1 .. n \subseteq Numbers(f)'
  <2>1. CASE f # g
    BY <1>2, <1>5, <2>1 DEF RowsNumbered, VersionsNumbered
  <2>2. CASE f = g /\ g \notin Ids
    BY <1>1, <1>2, <1>3, <1>5, <2>2
  <2>3. CASE f = g /\ g \in Ids
    <3>1. PICK m \in Numbers(g) : version.number = m + 1
      BY <2>3
    <3>2. 1 .. m \subseteq Numbers(g) /\ 1 .. 1 \subseteq Numbers(g)
      BY <2>3 DEF RowsNumbered, VersionsNumbered
    <3>3. m \in Nat /\ Numbers(f)' = Numbers(g) \cup {m + 1}
      BY <1>1, <1>2, <2>3, <3>1
    <3>4. CASE n = m + 1
      BY <3>2, <3>3, <3>4
    <3>5. CASE n \in Numbers(g) \cup {1}
      BY <2>3, <3>3, <3>5 DEF RowsNumbered, VersionsNumbered
    <3> QED BY <1>5, <3>3, <3>4, <3>5
  <2> QED BY <2>1, <2>2, <2>3
<1>6. \A v \in versions' : v.file \in Ids'
  BY DEF RowsNumbered
<1>7. ASSUME NEW f \in Ids'
      PROVE  /\ files'[f].current \in Numbers(f)'
             /\ \E top \in Numbers(f)' : \A n \in Numbers(f)' : n <= top
  <2>1. CASE f # g
    BY <1>2, <1>7, <2>1 DEF RowsNumbered
  <2>2. CASE f = g /\ g \notin Ids
    BY <1>1, <1>2, <1>3, <2>2
  <2>3. CASE f = g /\ g \in Ids
    <3>1. PICK top \in Numbers(g) : \A n \in Numbers(g) : n <= top
      BY <2>3 DEF RowsNumbered
    <3>2. top \in Nat
      BY <1>1
    <3>3. files'[f].current \in Numbers(f)'
      BY <1>2, <2>3 DEF RowsNumbered
    <3>4. CASE top >= version.number
      BY <1>1, <1>2, <2>3, <3>1, <3>2, <3>3, <3>4
    <3>5. CASE version.number > top
      <4>1. Numbers(f)' = Numbers(g) \cup {version.number}
        BY <1>2, <2>3
      <4>2. \A n \in Numbers(f)' : n <= version.number
        <5>1. \A n \in Numbers(g) : n \in Nat /\ n <= top
          BY <1>1, <3>1
        <5>2. version.number \in Nat
          BY <1>1
        <5>3. \A n \in Nat : n <= top => n <= version.number
          BY <3>2, <3>5, <5>2
        <5>4. version.number <= version.number
          BY <5>2
        <5> QED BY <4>1, <5>1, <5>3, <5>4
      <4> QED BY <3>3, <4>1, <4>2
    <3> QED BY <1>1, <3>2, <3>4, <3>5
  <2> QED BY <2>1, <2>2, <2>3
<1>8. VersionsNumbered'
  BY <1>4, <1>5 DEF VersionsNumbered
<1> QED BY <1>6, <1>7, <1>8 DEF RowsNumbered

\* Numbers are only ever added, so what other requests hold stays true.
LEMMA RequestsKept ==
  ASSUME NEW r \in Requests, \A f : Numbers(f) \subseteq Numbers(f)',
         \A q \in Requests : RequestNumbered(req[q]),
         \A q \in Requests : q # r => req'[q] = req[q],
         RequestNumbered(req[r])'
  PROVE  \A q \in Requests : RequestNumbered(req[q])'
BY DEF RequestNumbered

LEMMA NumberStep ==
  ASSUME TypeOK, TypeOK', NumberInv, [Next]_vars
  PROVE  NumberInv'
<1> USE NumberParts
<1>0. NumbersCarried
  BY DEF NumberInv
<1>1. ASSUME UNCHANGED versions, UNCHANGED files PROVE RowsNumbered'
  BY <1>1, RowsKept DEF Ids, RowsNumbered
<1>2. ASSUME NEW r \in Requests, NEW held, Begin(r, held) \/ Continue(r, held),
             UNCHANGED versions, RowsNumbered', RequestNumbered(held)
      PROVE  NumberInv'
  <2>1. \A f : Numbers(f)' = Numbers(f)
    BY <1>2 DEF Numbers
  <2>2. req'[r] = held /\ \A q \in Requests : q # r => req'[q] = req[q]
    BY <1>2, Slots
  <2>3. RequestNumbered(req[r])'
    BY <1>2, <2>1, <2>2 DEF RequestNumbered
  <2> QED BY <1>2, <2>1, <2>2, <2>3, RequestsKept
<1>3. ASSUME NEW r \in Requests, UploadCreate(r)
      PROVE  NumberInv'
  <2> DEFINE version == [file |-> Len(files) + 1, number |-> 1, blob |-> req[r].blob,
                         size |-> req[r].size]
             row == [deleted |-> FALSE, size |-> req[r].size, current |-> 1]
             held == [pc |-> "count", delta |-> req[r].size, left |-> req[r].left]
  <2>1. /\ Continue(r, held) /\ files' = Append(files, row)
        /\ versions' = versions \cup {version}
    BY <1>3 DEF UploadCreate
  <2>2. /\ version.file = Len(files) + 1 /\ version.number = 1
        /\ row.current = 1 /\ held.pc = "count"
    OBVIOUS
  <2>3. version \in versions'
    BY <2>1
  <2> HIDE DEF version, row, held
  <2>4. version \in VersionRows
    BY <2>3 DEF TypeOK
  <2>5. /\ files \in Seq(FileRows) /\ files' \in Seq(FileRows) /\ Len(files) \in Nat
        /\ Ids = 1 .. Len(files)
    BY DEF TypeOK, Ids
  <2>6. Len(files') = Len(files) + 1
    BY <2>1, <2>5
  <2>7. Ids' = 1 .. Len(files) + 1
    BY <2>5, <2>6 DEF Ids
  <2>8. \A f \in Ids : files'[f] = files[f]
    BY <2>1, <2>5
  <2>9. files'[version.file].current = 1
    BY <2>1, <2>2, <2>5
  <2>10. version.file \notin Ids /\ version.file \in Ids' /\ Ids \subseteq Ids'
           /\ Ids' \subseteq Ids \cup {version.file}
    BY <2>2, <2>5, <2>7
  <2>11. Numbers(version.file) = {}
    BY <2>10 DEF RowsNumbered, Numbers
  <2>12. RowsNumbered'
    BY <2>1, <2>2, <2>4, <2>8, <2>9, <2>10, <2>11, RowAdded
  <2>13. \A f : Numbers(f) \subseteq Numbers(f)'
    BY <2>1, NumberAdded
  <2>14. req'[r] = held /\ \A q \in Requests : q # r => req'[q] = req[q]
    BY <2>1, Slots
  <2>15. RequestNumbered(req[r])'
    BY <2>2, <2>14 DEF RequestNumbered
  <2> QED BY <2>12, <2>13, <2>14, <2>15, RequestsKept
<1>4. ASSUME NEW r \in Requests, VersionInsert(r)
      PROVE  NumberInv'
  <2> DEFINE q == req[r]
             held == [pc |-> "point", file |-> q.file, number |-> q.number,
                      size |-> q.size, old |-> q.old]
             version == [file |-> q.file, number |-> q.number, blob |-> q.blob,
                         size |-> q.size]
  <2>1. CASE Taken(q.file, q.number)
    <3>1. Continue(r, Idle) /\ UNCHANGED <<files, versions>>
      BY <1>4, <2>1 DEF VersionInsert
    <3>2. RequestNumbered(Idle)
      BY DEF RequestNumbered, Idle
    <3> QED BY <1>1, <1>2, <3>1, <3>2
  <2>2. CASE ~Taken(q.file, q.number)
    <3>1. Continue(r, held) /\ versions' = versions \cup {version} /\ UNCHANGED files
      BY <1>4, <2>2 DEF VersionInsert
    <3>2. /\ version.file = q.file /\ version.number = q.number
          /\ held.pc = "point" /\ held.number = q.number /\ held.file = q.file
      OBVIOUS
    <3>3. version \in versions'
      BY <3>1
    <3>4. q.file \in Ids /\ \E n \in Numbers(q.file) : q.number = n + 1
      BY <1>4, HeldTypes DEF VersionInsert, RequestNumbered
    <3>5. q.number \notin Numbers(q.file)
      BY <2>2 DEF Taken
    <3> HIDE DEF version, held, q
    <3>6. version \in VersionRows
      BY <3>3 DEF TypeOK
    <3>7. Ids' = Ids /\ \A f \in Ids : files'[f] = files[f]
      BY <3>1 DEF Ids
    <3>8. RowsNumbered'
      BY <3>1, <3>2, <3>4, <3>5, <3>6, <3>7, RowAdded
    <3>9. \A f : Numbers(f) \subseteq Numbers(f)'
      BY <3>1, NumberAdded
    <3>10. req'[r] = held /\ \A p \in Requests : p # r => req'[p] = req[p]
      BY <3>1, Slots
    <3>11. RequestNumbered(req[r])'
      BY <3>1, <3>2, <3>10, NumberAdded DEF RequestNumbered
    <3> QED BY <3>8, <3>9, <3>10, <3>11, RequestsKept
  <2> QED BY <2>1, <2>2
<1>5. ASSUME NEW r \in Requests, VersionPoint(r)
      PROVE  NumberInv'
  <2> DEFINE held == [pc |-> "count", delta |-> VersionDelta(req[r].size, req[r].old),
                      left |-> 0]
  <2>1. /\ Continue(r, held) /\ UNCHANGED versions
        /\ files' = [files EXCEPT ![req[r].file].current = req[r].number,
                                  ![req[r].file].size = req[r].size]
    BY <1>5 DEF VersionPoint
  <2>2. RequestNumbered(held)
    BY DEF RequestNumbered
  <2> HIDE DEF held
  <2>3. req[r].file \in Ids /\ req[r].number \in Numbers(req[r].file)
    BY <1>5, HeldTypes DEF VersionPoint, RequestNumbered
  <2>4. Ids' = Ids
    BY <2>1 DEF Ids, TypeOK
  <2>5. \A f \in Ids : files[f] \in FileRows
    BY FileRow
  <2>6. \A f \in Ids : files'[f].current = IF f = req[r].file THEN req[r].number
                                                           ELSE files[f].current
    BY <2>1, <2>3, <2>5 DEF FileRows, Ids
  <2>7. RowsNumbered'
    BY <2>1, <2>3, <2>4, <2>6, RowsKept DEF RowsNumbered
  <2> QED BY <1>2, <2>1, <2>2, <2>7
<1>6. ASSUME NEW r \in Requests, RemoveMark(r)
      PROVE  NumberInv'
  <2> DEFINE held == [pc |-> "count", delta |-> -req[r].size, left |-> 0]
  <2>1. /\ Continue(r, held) /\ UNCHANGED versions
        /\ files' = [files EXCEPT ![req[r].file].deleted = TRUE]
    BY <1>6 DEF RemoveMark
  <2>2. RequestNumbered(held)
    BY DEF RequestNumbered
  <2> HIDE DEF held
  <2>3. Ids' = Ids
    BY <2>1 DEF Ids, TypeOK
  <2>4. \A f \in Ids : files[f] \in FileRows
    BY FileRow
  <2>5. \A f \in Ids : files'[f].current = files[f].current
    BY <2>1, <2>4 DEF FileRows, Ids
  <2>6. RowsNumbered'
    BY <2>1, <2>3, <2>5, RowsKept DEF RowsNumbered
  <2> QED BY <1>2, <2>1, <2>2, <2>6
<1>7. ASSUME NEW r \in Requests, VersionLatest(r)
      PROVE  NumberInv'
  <2> DEFINE held == [pc |-> "insert", file |-> req[r].file, size |-> req[r].size,
                      blob |-> req[r].blob, old |-> req[r].old,
                      number |-> NextNumber(req[r].file)]
  <2>1. Continue(r, held) /\ UNCHANGED <<files, versions>>
    BY <1>7 DEF VersionLatest, rows
  <2>2. \E n \in Numbers(req[r].file) : NextNumber(req[r].file) = n + 1
    BY <1>0, <1>7, HeldTypes, NextFollowsTop DEF VersionLatest
  <2>3. RequestNumbered(held)
    BY <2>2 DEF RequestNumbered
  <2> HIDE DEF held
  <2> QED BY <1>1, <1>2, <2>1, <2>3
<1>8. ASSUME NEW r \in Requests,
             \/ \E size \in Sizes, left \in 0 .. MaxBatch - 1 : UploadSave(r, size, left)
             \/ \E f \in Ids : RemoveRead(r, f)
             \/ \E f \in Ids, size \in Sizes : VersionSave(r, f, size)
             \/ Count(r) \/ CheckRead(r) \/ Track(r) \/ Mail(r)
      PROVE  NumberInv'
  <2>1. UNCHANGED <<files, versions>>
    BY <1>8 DEF UploadSave, RemoveRead, VersionSave, Count, CheckRead, Track, Mail, rows
  <2>2. ASSUME NEW held, held.pc \notin {"insert", "point"},
               Begin(r, held) \/ Continue(r, held)
        PROVE  NumberInv'
    BY <1>1, <1>2, <2>1, <2>2 DEF RequestNumbered
  <2>3. CASE \E size \in Sizes, left \in 0 .. MaxBatch - 1 : UploadSave(r, size, left)
    BY <2>2, <2>3 DEF UploadSave
  <2>4. CASE \E f \in Ids : RemoveRead(r, f)
    BY <2>2, <2>4 DEF RemoveRead
  <2>5. CASE \E f \in Ids, size \in Sizes : VersionSave(r, f, size)
    BY <2>2, <2>5 DEF VersionSave
  <2>6. CASE Count(r)
    BY <2>2, <2>6 DEF Count
  <2>7. CASE CheckRead(r)
    BY <2>2, <2>7 DEF CheckRead, Idle
  <2>8. CASE Track(r)
    BY <2>2, <2>8 DEF Track, Idle
  <2>9. CASE Mail(r)
    BY <2>2, <2>9 DEF Mail, Idle
  <2> QED BY <1>8, <2>3, <2>4, <2>5, <2>6, <2>7, <2>8, <2>9
<1>9. ASSUME NEW r \in Requests, Abort(r)
      PROVE  NumberInv'
  <2>1. UNCHANGED <<files, versions>> /\ req' = [req EXCEPT ![r] = Idle]
    BY <1>9 DEF Abort, rows
  <2>2. \A f : Numbers(f)' = Numbers(f)
    BY <2>1 DEF Numbers
  <2>3. req'[r] = Idle /\ \A q \in Requests : q # r => req'[q] = req[q]
    BY <2>1 DEF TypeOK
  <2>4. RequestNumbered(req[r])'
    BY <2>3 DEF RequestNumbered, Idle
  <2> QED BY <1>1, <2>1, <2>2, <2>3, <2>4, RequestsKept
<1>10. CASE UNCHANGED vars
  BY <1>10 DEF vars, NumberInv, VersionsNumbered, NumbersCarried, Numbers, Ids
<1> QED BY <1>3, <1>4, <1>5, <1>6, <1>7, <1>8, <1>9, <1>10 DEF Next, Step, Elsewhere

-----------------------------------------------------------------------------
(* The promise of FileStore *)

\* The numbers of a file are the same in both.
LEMMA SameNumbers == \A f : Store!Numbers(f) = Numbers(f)
<1> DEFINE shown == {[file |-> v.file, number |-> v.number, blob |-> v.blob] : v \in versions}
<1> SUFFICES ASSUME NEW f PROVE Store!Numbers(f) = Numbers(f)
  OBVIOUS
<1>1. ASSUME NEW n \in Numbers(f) PROVE n \in Store!Numbers(f)
  <2>1. PICK v \in versions : v.file = f /\ v.number = n
    BY <1>1 DEF Numbers
  <2>2. [file |-> v.file, number |-> v.number, blob |-> v.blob] \in shown
    OBVIOUS
  <2> QED BY <2>1, <2>2 DEF Store!Numbers
<1>2. ASSUME NEW n \in Store!Numbers(f) PROVE n \in Numbers(f)
  <2>1. PICK w \in shown : w.file = f /\ w.number = n
    BY <1>2 DEF Store!Numbers
  <2>2. PICK v \in versions : w = [file |-> v.file, number |-> v.number, blob |-> v.blob]
    BY <2>1
  <2> QED BY <2>1, <2>2 DEF Numbers
<1> QED BY <1>1, <1>2

\* A content carried is fresh to the promise.
LEMMA CarriedIsFresh ==
  ASSUME TypeOK, ContentInv, NEW r \in Carrying
  PROVE  \E blob \in 1 .. MaxBlobs : blob = req[r].blob /\ Store!Fresh(blob)
<1>1. req[r].blob \in 1 .. blobs /\ \A v \in versions : v.blob # req[r].blob
  BY DEF ContentInv, ContentCarried
<1>2. blobs \in Nat /\ MaxBlobs \in Nat /\ blobs <= MaxBlobs
  BY FileBoundsAssumption DEF TypeOK, ContentInv
<1>3. req[r].blob \in 1 .. MaxBlobs
  BY <1>1, <1>2
<1>4. PICK blob \in 1 .. MaxBlobs : blob = req[r].blob
  BY <1>3
<1>5. Store!Fresh(blob)
  BY <1>1, <1>4 DEF Store!Fresh
<1> QED BY <1>4, <1>5

LEMMA InitImplements == Init => Store!Init
<1> SUFFICES ASSUME Init PROVE Store!Init
  OBVIOUS
<1>1. versions = {} /\ files = <<>> /\ Ids = {}
  BY DEF Init, Ids
<1>2. [f \in Ids |-> files[f].current] = <<>>
  BY <1>1
<1> QED BY <1>1, <1>2 DEF Store!Init

LEMMA StepImplements ==
  ASSUME TypeOK, TypeOK', ContentInv, NumberInv, [Next]_vars
  PROVE  [Store!Next]_(Store!vars)
<1>1. ASSUME UNCHANGED <<files, versions>>
      PROVE  UNCHANGED Store!vars
  BY <1>1 DEF Store!vars, Ids
<1>2. ASSUME NEW r \in Requests, UploadCreate(r)
      PROVE  Store!Next
  <2> DEFINE version == [file |-> Len(files) + 1, number |-> 1, blob |-> req[r].blob,
                         size |-> req[r].size]
             row == [deleted |-> FALSE, size |-> req[r].size, current |-> 1]
             shown == [f \in Ids |-> files[f].current]
  <2>1. files' = Append(files, row) /\ versions' = versions \cup {version}
    BY <1>2 DEF UploadCreate
  <2>2. /\ version.file = Len(files) + 1 /\ version.number = 1
        /\ version.blob = req[r].blob /\ row.current = 1 /\ ~row.deleted
    OBVIOUS
  <2>3. PICK blob \in 1 .. MaxBlobs : blob = req[r].blob /\ Store!Fresh(blob)
    BY <1>2, CarriedIsFresh DEF UploadCreate, Carrying
  <2> HIDE DEF version, row
  <2>4. /\ files \in Seq(FileRows) /\ files' \in Seq(FileRows) /\ Len(files) \in Nat
        /\ Ids = 1 .. Len(files)
    BY DEF TypeOK, Ids
  <2>5. Ids' = 1 .. Len(files) + 1
    BY <2>1, <2>4 DEF Ids
  <2>6. /\ \A f \in Ids : files'[f] = files[f]
        /\ files'[Len(files) + 1] = row
    BY <2>1, <2>4
  <2>7. \A f \in 1 .. Len(files) : files[f].current \in Nat
    BY <2>4, FileRow DEF FileRows
  <2>8. shown \in Seq(Nat) /\ Len(shown) = Len(files)
    BY <2>4, <2>7
  <2>9. shown' = Append(shown, 1)
    BY <2>2, <2>4, <2>5, <2>6, <2>8
  <2>10. {f \in Ids : files[f].deleted}' = {f \in Ids : files[f].deleted}
    BY <2>2, <2>4, <2>5, <2>6
  <2>11. {[file |-> v.file, number |-> v.number, blob |-> v.blob] : v \in versions'}
           = {[file |-> v.file, number |-> v.number, blob |-> v.blob] : v \in versions}
               \cup {[file |-> Len(shown) + 1, number |-> 1, blob |-> blob]}
    BY <2>1, <2>2, <2>3, <2>8
  <2>12. Store!Upload(blob)
    BY <2>3, <2>9, <2>10, <2>11 DEF Store!Upload
  <2> QED BY <2>12 DEF Store!Next
<1>3. ASSUME NEW r \in Requests, VersionInsert(r)
      PROVE  [Store!Next]_(Store!vars)
  <2> DEFINE q == req[r]
             version == [file |-> q.file, number |-> q.number, blob |-> q.blob,
                         size |-> q.size]
  <2>1. CASE Taken(q.file, q.number)
    BY <1>1, <1>3, <2>1 DEF VersionInsert
  <2>2. CASE ~Taken(q.file, q.number)
    <3>1. versions' = versions \cup {version} /\ UNCHANGED files
      BY <1>3, <2>2 DEF VersionInsert
    <3>2. /\ version.file = q.file /\ version.number = q.number
          /\ version.blob = q.blob
      OBVIOUS
    <3>3. PICK blob \in 1 .. MaxBlobs : blob = q.blob /\ Store!Fresh(blob)
      BY <1>3, CarriedIsFresh DEF VersionInsert, Carrying
    <3>4. PICK f \in Ids : f = q.file
      BY <1>3, HeldTypes DEF VersionInsert
    <3>5. PICK last \in Numbers(f) : q.number = last + 1
      BY <1>3, <3>4, NumberParts DEF VersionInsert, RequestNumbered
    <3>6. last + 1 \notin Numbers(f)
      BY <2>2, <3>4, <3>5 DEF Taken
    <3> HIDE DEF version
    <3>7. {[file |-> v.file, number |-> v.number, blob |-> v.blob] : v \in versions'}
            = {[file |-> v.file, number |-> v.number, blob |-> v.blob] : v \in versions}
                \cup {[file |-> f, number |-> last + 1, blob |-> blob]}
      BY <3>1, <3>2, <3>3, <3>4, <3>5
    <3>8. UNCHANGED <<[g \in Ids |-> files[g].current], {g \in Ids : files[g].deleted}>>
      BY <3>1 DEF Ids
    <3>9. Store!AddVersion(f, last, blob)
      BY <3>3, <3>6, <3>7, <3>8, SameNumbers DEF Store!AddVersion
    <3> QED BY <3>9, SameNumbers DEF Store!Next, Store!Files
  <2> QED BY <2>1, <2>2
<1>4. ASSUME NEW r \in Requests, VersionPoint(r)
      PROVE  Store!Next
  <2> DEFINE q == req[r]
  <2>1. /\ UNCHANGED versions
        /\ files' = [files EXCEPT ![q.file].current = q.number, ![q.file].size = q.size]
    BY <1>4 DEF VersionPoint
  <2>2. PICK g \in Ids : g = q.file /\ \E n \in Numbers(g) : n = q.number
    BY <1>4, HeldTypes, NumberParts DEF VersionPoint, RequestNumbered
  <2>3. PICK number \in Numbers(g) : number = q.number
    BY <2>2
  <2>4. Ids' = Ids
    BY <2>1 DEF Ids, TypeOK
  <2>5. \A f \in Ids : files[f] \in FileRows
    BY FileRow
  <2>6. \A f \in Ids : /\ files'[f].current = IF f = g THEN number ELSE files[f].current
                       /\ files'[f].deleted = files[f].deleted
    BY <2>1, <2>2, <2>3, <2>5 DEF FileRows, Ids
  <2>7. [f \in Ids |-> files[f].current]'
          = [[f \in Ids |-> files[f].current] EXCEPT ![g] = number]
    BY <2>2, <2>4, <2>6
  <2>8. {f \in Ids : files[f].deleted}' = {f \in Ids : files[f].deleted}
    BY <2>4, <2>6
  <2>9. Store!MakeCurrent(g, number)
    BY <2>1, <2>7, <2>8 DEF Store!MakeCurrent
  <2> QED BY <2>9, SameNumbers DEF Store!Next, Store!Files
<1>5. ASSUME NEW r \in Requests, RemoveMark(r)
      PROVE  Store!Next
  <2>1. UNCHANGED versions /\ files' = [files EXCEPT ![req[r].file].deleted = TRUE]
    BY <1>5 DEF RemoveMark
  <2>2. PICK g \in Ids : g = req[r].file
    BY <1>5, HeldTypes DEF RemoveMark
  <2>3. Ids' = Ids
    BY <2>1 DEF Ids, TypeOK
  <2>4. \A f \in Ids : files[f] \in FileRows
    BY FileRow
  <2>5. \A f \in Ids : /\ files'[f].current = files[f].current
                       /\ f # g => files'[f].deleted = files[f].deleted
    BY <2>1, <2>2, <2>4 DEF FileRows, Ids
  <2>6. files'[g].deleted
    BY <2>1, <2>2, <2>4 DEF FileRows, Ids
  <2>7. [f \in Ids |-> files[f].current]' = [f \in Ids |-> files[f].current]
    BY <2>3, <2>5
  <2>8. {f \in Ids : files[f].deleted}' = {f \in Ids : files[f].deleted} \cup {g}
    BY <2>2, <2>3, <2>5, <2>6
  <2>9. Store!Remove(g)
    BY <2>1, <2>7, <2>8 DEF Store!Remove
  <2> QED BY <2>9 DEF Store!Next, Store!Files
<1>6. ASSUME NEW r \in Requests,
             \/ \E size \in Sizes, left \in 0 .. MaxBatch - 1 : UploadSave(r, size, left)
             \/ \E f \in Ids : RemoveRead(r, f)
             \/ \E f \in Ids, size \in Sizes : VersionSave(r, f, size)
             \/ VersionLatest(r) \/ Count(r) \/ CheckRead(r) \/ Track(r) \/ Mail(r)
             \/ Abort(r)
      PROVE  UNCHANGED Store!vars
  BY <1>1, <1>6 DEF UploadSave, RemoveRead, VersionSave, VersionLatest, Count, CheckRead,
                    Track, Mail, Abort, rows
<1>7. CASE UNCHANGED vars
  BY <1>1, <1>7 DEF vars
<1> QED BY <1>2, <1>3, <1>4, <1>5, <1>6, <1>7 DEF Next, Step, Elsewhere

-----------------------------------------------------------------------------
(* The theorems *)

IInv == TypeOK /\ ContentInv /\ NumberInv

LEMMA Inductive == Spec => []IInv
<1>1. Init => IInv
  BY InitTypes, InitContents, InitNumbers DEF IInv
<1>2. IInv /\ [Next]_vars => IInv'
  <2> SUFFICES ASSUME IInv, [Next]_vars PROVE IInv'
    OBVIOUS
  <2>1. TypeOK'
    BY StepTypes DEF IInv, NumberInv
  <2>2. ContentInv'
    BY ContentStep DEF IInv
  <2>3. NumberInv'
    BY <2>1, NumberStep DEF IInv
  <2> QED BY <2>1, <2>2, <2>3 DEF IInv
<1> QED BY <1>1, <1>2, PTL DEF Spec

\* Every row and request in flight keeps its shape.  The numbers are needed:
\* that the next number is one at all follows from a file having a highest.
THEOREM TypeCorrect == Spec => []TypeOK
<1>1. IInv => TypeOK
  BY DEF IInv
<1> QED BY <1>1, Inductive, PTL

\* A version row always has a content, and no other row has the same
\* (:64-127, :217-242).
THEOREM VersionsKeepContent == Spec => []VersionHasContent
<1>1. IInv => VersionHasContent
  BY DEF IInv, ContentInv
<1> QED BY <1>1, Inductive, PTL

\* However many additions race, a file's versions are numbered without a gap
\* and without a duplicate (:225-242).
THEOREM NumbersWithoutGaps == Spec => []VersionsNumbered
<1>1. IInv => VersionsNumbered
  BY DEF IInv, NumberInv
<1> QED BY <1>1, Inductive, PTL

\* The handlers, interleaved and cut short in every way, keep the promise of
\* FileStore: every step of theirs is one of its steps or none.
THEOREM FilesImplementStore == Spec => ImplementsFileStore
<1>1. Init => Store!Init
  BY InitImplements
<1>2. IInv /\ IInv' /\ [Next]_vars => [Store!Next]_(Store!vars)
  BY StepImplements DEF IInv
<1> QED BY <1>1, <1>2, Inductive, PTL DEF Spec, ImplementsFileStore, Store!Spec
-----------------------------------------------------------------------------
(* The version a file shows *)

\* No two requests work on one file.
Alone ==
  \A r, s \in Requests :
    r # s /\ req[r].pc \in Holding /\ req[s].pc \in Holding => req[r].file # req[s].file

\* A number about to be inserted is above all others of its file, and one about to
\* become current is the highest.
OnTop(held) ==
  /\ held.pc = "insert" => \A n \in Numbers(held.file) : n < held.number
  /\ held.pc = "point" => \A n \in Numbers(held.file) : n <= held.number

Newest(f) ==
  \/ \A n \in Numbers(f) : n <= files[f].current
  \/ \E r \in Requests : req[r].pc = "point" /\ req[r].file = f

NewestInv ==
  ~torn => Alone /\ (\A r \in Requests : OnTop(req[r])) /\ \A f \in Ids : Newest(f)

LEMMA InitNewest == Init => NewestInv
BY DEF Init, NewestInv, Alone, OnTop, Newest, Ids, Idle, Holding

\* A request goes on, with the file it has or one nobody works on.
LEMMA HeldNewest ==
  ASSUME NewestInv, ~torn' => ~torn,
         UNCHANGED versions, Ids' = Ids, \A f \in Ids : files'[f].current = files[f].current,
         NEW r \in Requests, NEW held, req'[r] = held,
         \A q \in Requests : q # r => req'[q] = req[q],
         ~torn' => req[r].pc # "point" /\ OnTop(held),
         ~torn' /\ held.pc \in Holding =>
           \/ req[r].pc \in Holding /\ held.file = req[r].file
           \/ held.file \notin Handled
  PROVE  NewestInv'
<1> SUFFICES ASSUME ~torn' PROVE Alone' /\ (\A q \in Requests : OnTop(req[q])') /\ \A f \in Ids' : Newest(f)'
  BY DEF NewestInv
<1>1. Alone /\ (\A q \in Requests : OnTop(req[q])) /\ \A f \in Ids : Newest(f)
  BY DEF NewestInv
<1>2. \A f : Numbers(f)' = Numbers(f)
  BY DEF Numbers
<1>3. Alone'
  BY <1>1 DEF Alone, Handled
<1>4. \A q \in Requests : OnTop(req[q])'
  BY <1>1, <1>2 DEF OnTop
<1>5. ASSUME NEW f \in Ids' PROVE Newest(f)'
  BY <1>1, <1>2 DEF Newest
<1> QED BY <1>3, <1>4, <1>5

LEMMA CreatedNewest ==
  ASSUME TypeOK, TypeOK', NumberInv, NewestInv, NEW r \in Requests, UploadCreate(r)
  PROVE  NewestInv'
<1> DEFINE version == [file |-> Len(files) + 1, number |-> 1, blob |-> req[r].blob,
                       size |-> req[r].size]
           row == [deleted |-> FALSE, size |-> req[r].size, current |-> 1]
           held == [pc |-> "count", delta |-> req[r].size, left |-> req[r].left]
<1> SUFFICES ASSUME ~torn' PROVE Alone' /\ (\A q \in Requests : OnTop(req[q])') /\ \A f \in Ids' : Newest(f)'
  BY DEF NewestInv
<1>1. /\ Continue(r, held) /\ files' = Append(files, row)
      /\ versions' = versions \cup {version} /\ ~torn /\ req[r].pc = "create"
  BY DEF UploadCreate
<1>2. version.file = Len(files) + 1 /\ version.number = 1 /\ row.current = 1 /\ held.pc = "count"
  OBVIOUS
<1> HIDE DEF version, row, held
<1>3. files \in Seq(FileRows) /\ Len(files) \in Nat /\ Ids = 1 .. Len(files)
  BY DEF TypeOK, Ids
<1> PICK g : g = version.file
  OBVIOUS
<1>4. /\ Ids' = Ids \cup {g} /\ g \notin Ids
      /\ files'[g].current = 1 /\ \A f \in Ids : files'[f] = files[f]
  BY <1>1, <1>2, <1>3 DEF Ids
<1>5. Numbers(g) = {}
  BY <1>4 DEF NumberInv, NumbersCarried, Numbers
<1>6. /\ \A f \in Ids : Numbers(f)' = Numbers(f)
      /\ Numbers(g)' = {1}
  BY <1>1, <1>2, <1>4, <1>5, NumberAdded
<1>7. req'[r] = held /\ \A q \in Requests : q # r => req'[q] = req[q]
  BY <1>1, Slots
<1>8. \A q \in Requests : req[q].pc \in Holding => req[q].file \in Ids
  BY DEF TypeOK
<1>9. Alone /\ (\A q \in Requests : OnTop(req[q])) /\ \A f \in Ids : Newest(f)
  BY <1>1 DEF NewestInv
<1>10. Alone'
  BY <1>2, <1>7, <1>9 DEF Alone, Holding
<1>11. \A q \in Requests : OnTop(req[q])'
  BY <1>2, <1>6, <1>7, <1>8, <1>9 DEF OnTop, Holding
<1>12. ASSUME NEW f \in Ids' PROVE Newest(f)'
  <2>1. CASE f = g
    BY <1>4, <1>6, <2>1 DEF Newest
  <2>2. CASE f \in Ids
    BY <1>1, <1>4, <1>6, <1>7, <1>9, <2>2 DEF Newest
  <2> QED BY <1>4, <2>1, <2>2
<1> QED BY <1>10, <1>11, <1>12

\* Nobody else works on the file, so nobody's number is passed.
LEMMA InsertedNewest ==
  ASSUME TypeOK, TypeOK', NewestInv, NEW r \in Requests, VersionInsert(r)
  PROVE  NewestInv'
<1> DEFINE q == req[r]
           held == [pc |-> "point", file |-> q.file, number |-> q.number,
                    size |-> q.size, old |-> q.old]
           version == [file |-> q.file, number |-> q.number, blob |-> q.blob,
                       size |-> q.size]
<1>1. q.pc = "insert" /\ UNCHANGED <<files, torn>> /\ Ids' = Ids
  BY DEF VersionInsert, Ids
<1>2. CASE Taken(q.file, q.number)
  <2>1. Continue(r, Idle) /\ UNCHANGED versions
    BY <1>2 DEF VersionInsert
  <2>2. req'[r] = Idle /\ \A p \in Requests : p # r => req'[p] = req[p]
    BY <2>1, Slots
  <2>3. OnTop(Idle) /\ Idle.pc \notin Holding
    BY DEF OnTop, Idle, Holding
  <2> QED BY <1>1, <2>1, <2>2, <2>3, HeldNewest
<1>3. CASE ~Taken(q.file, q.number)
  <2> SUFFICES ASSUME ~torn' PROVE Alone' /\ (\A p \in Requests : OnTop(req[p])') /\ \A f \in Ids' : Newest(f)'
    BY DEF NewestInv
  <2>1. Continue(r, held) /\ versions' = versions \cup {version}
    BY <1>3 DEF VersionInsert
  <2>2. /\ version.file = q.file /\ version.number = q.number
        /\ held.pc = "point" /\ held.number = q.number /\ held.file = q.file
    OBVIOUS
  <2> HIDE DEF version, held
  <2>3. req'[r] = held /\ \A p \in Requests : p # r => req'[p] = req[p]
    BY <2>1, Slots
  <2>4. \A f : Numbers(f)' = IF f = q.file THEN Numbers(f) \cup {q.number} ELSE Numbers(f)
    BY <2>1, <2>2, NumberAdded
  <2>5. Alone /\ (\A p \in Requests : OnTop(req[p])) /\ \A f \in Ids : Newest(f)
    BY <1>1 DEF NewestInv
  <2>6. q.number \in Nat /\ \A f : \A n \in Numbers(f) : n \in Nat
    BY <1>1, HeldTypes DEF TypeOK, VersionRows, Numbers
  <2>7. Alone'
    BY <1>1, <2>2, <2>3, <2>5 DEF Alone, Holding
  <2>8. PICK g : g = q.file
    OBVIOUS
  <2>9. \A n \in Numbers(g)' : n <= q.number
    BY <1>1, <2>4, <2>5, <2>6, <2>8 DEF OnTop
  <2>10. ASSUME NEW p \in Requests, p # r PROVE OnTop(req[p])'
    <3>1. req[p].pc \in {"insert", "point"} => req[p].file # q.file
      BY <1>1, <2>5, <2>10 DEF Alone, Holding
    <3> QED BY <2>3, <2>4, <2>5, <2>10, <3>1 DEF OnTop
  <2>11. ASSUME NEW f \in Ids' PROVE Newest(f)'
    <3>1. CASE f = q.file
      BY <2>2, <2>3, <3>1 DEF Newest
    <3>2. CASE f # q.file
      BY <1>1, <2>3, <2>4, <2>5, <3>2 DEF Newest
    <3> QED BY <3>1, <3>2
  <2>12. OnTop(req[r])'
    BY <2>2, <2>3, <2>8, <2>9 DEF OnTop
  <2> QED BY <2>7, <2>10, <2>11, <2>12
<1> QED BY <1>2, <1>3

LEMMA PointedNewest ==
  ASSUME TypeOK, NewestInv, NEW r \in Requests, VersionPoint(r)
  PROVE  NewestInv'
<1> DEFINE held == [pc |-> "count", delta |-> VersionDelta(req[r].size, req[r].old), left |-> 0]
<1> SUFFICES ASSUME ~torn' PROVE Alone' /\ (\A q \in Requests : OnTop(req[q])') /\ \A f \in Ids' : Newest(f)'
  BY DEF NewestInv
<1>1. /\ Continue(r, held) /\ UNCHANGED versions /\ ~torn /\ req[r].pc = "point"
      /\ files' = [files EXCEPT ![req[r].file].current = req[r].number,
                                ![req[r].file].size = req[r].size]
  BY DEF VersionPoint
<1>2. held.pc = "count"
  OBVIOUS
<1> HIDE DEF held
<1>3. req[r].file \in Ids
  BY <1>1, HeldTypes
<1>4. Ids' = Ids /\ \A f \in Ids : files[f] \in FileRows
  BY <1>1, FileRow DEF Ids, TypeOK
<1>5. \A f \in Ids : files'[f].current = IF f = req[r].file THEN req[r].number
                                                         ELSE files[f].current
  BY <1>1, <1>3, <1>4 DEF FileRows, Ids
<1>6. \A f : Numbers(f)' = Numbers(f)
  BY <1>1 DEF Numbers
<1>7. req'[r] = held /\ \A q \in Requests : q # r => req'[q] = req[q]
  BY <1>1, Slots
<1>8. Alone /\ (\A q \in Requests : OnTop(req[q])) /\ \A f \in Ids : Newest(f)
  BY <1>1 DEF NewestInv
<1>9. Alone' /\ \A q \in Requests : OnTop(req[q])'
  BY <1>2, <1>6, <1>7, <1>8 DEF Alone, OnTop, Holding
<1>10. ASSUME NEW f \in Ids' PROVE Newest(f)'
  <2>1. CASE f = req[r].file
    BY <1>1, <1>4, <1>5, <1>6, <1>8, <2>1 DEF Newest, OnTop
  <2>2. CASE f # req[r].file
    BY <1>4, <1>5, <1>6, <1>7, <1>8, <2>2 DEF Newest
  <2> QED BY <2>1, <2>2
<1> QED BY <1>9, <1>10

LEMMA NewestStep ==
  ASSUME TypeOK, TypeOK', NumberInv, NewestInv, [Next]_vars
  PROVE  NewestInv'
<1>1. ASSUME NEW r \in Requests, NEW held, Begin(r, held) \/ Continue(r, held),
             UNCHANGED <<files, versions>>, ~torn' => ~torn,
             req[r].pc # "point", OnTop(held),
             ~torn' /\ held.pc \in Holding =>
               \/ req[r].pc \in Holding /\ held.file = req[r].file
               \/ held.file \notin Handled
      PROVE  NewestInv'
  <2>1. req'[r] = held /\ \A q \in Requests : q # r => req'[q] = req[q]
    BY <1>1, Slots
  <2>2. Ids' = Ids /\ \A f \in Ids : files'[f].current = files[f].current
    BY <1>1 DEF Ids
  <2> QED BY <1>1, <2>1, <2>2, HeldNewest
<1>2. ASSUME NEW r \in Requests, UploadCreate(r) \/ VersionInsert(r) \/ VersionPoint(r)
      PROVE  NewestInv'
  BY <1>2, CreatedNewest, InsertedNewest, PointedNewest
<1>3. ASSUME NEW r \in Requests, NEW f \in Ids, RemoveRead(r, f) PROVE NewestInv'
  <2> DEFINE held == [pc |-> "mark", file |-> f, size |-> files[f].size]
  <2>1. /\ Begin(r, held) /\ UNCHANGED <<files, versions>>
        /\ torn' = (torn \/ f \in Handled) /\ req[r].pc # "point"
    BY <1>3 DEF RemoveRead, rows, Begin, Idle
  <2>2. OnTop(held) /\ held.file = f
    BY DEF OnTop
  <2> HIDE DEF held
  <2> QED BY <1>1, <2>1, <2>2
<1>4. ASSUME NEW r \in Requests, NEW f \in Ids, NEW size \in Sizes, VersionSave(r, f, size)
      PROVE  NewestInv'
  <2> DEFINE held == [pc |-> "latest", file |-> f, size |-> size, blob |-> NewPath,
                      old |-> files[f].size]
  <2>1. /\ Begin(r, held) /\ UNCHANGED <<files, versions>>
        /\ torn' = (torn \/ f \in Handled) /\ req[r].pc # "point"
    BY <1>4 DEF VersionSave, rows, Begin, Idle
  <2>2. OnTop(held) /\ held.file = f
    BY DEF OnTop
  <2> HIDE DEF held
  <2> QED BY <1>1, <2>1, <2>2
<1>5. ASSUME NEW r \in Requests, VersionLatest(r) PROVE NewestInv'
  <2> DEFINE held == [pc |-> "insert", file |-> req[r].file, size |-> req[r].size,
                      blob |-> req[r].blob, old |-> req[r].old,
                      number |-> NextNumber(req[r].file)]
  <2>1. Continue(r, held) /\ UNCHANGED <<files, versions, torn>> /\ req[r].pc = "latest"
    BY <1>5 DEF VersionLatest, rows
  <2>2. PICK top \in Numbers(req[r].file) :
          /\ top \in Nat /\ NextNumber(req[r].file) = top + 1
          /\ \A n \in Numbers(req[r].file) : n \in Nat /\ n <= top
    BY <2>1, HeldTypes, NextFollowsTop DEF NumberInv
  <2>3. \A n \in Numbers(req[r].file) : n < NextNumber(req[r].file)
    BY <2>2
  <2>4. OnTop(held) /\ held.file = req[r].file
    BY <2>3 DEF OnTop
  <2> HIDE DEF held
  <2> QED BY <1>1, <2>1, <2>4 DEF Holding
<1>6. ASSUME NEW r \in Requests, RemoveMark(r) PROVE NewestInv'
  <2> DEFINE held == [pc |-> "count", delta |-> -req[r].size, left |-> 0]
  <2>1. /\ Continue(r, held) /\ UNCHANGED <<versions, torn>> /\ req[r].pc = "mark"
        /\ files' = [files EXCEPT ![req[r].file].deleted = TRUE]
    BY <1>6 DEF RemoveMark
  <2>2. OnTop(held) /\ held.pc \notin Holding
    BY DEF OnTop, Holding
  <2> HIDE DEF held
  <2>3. req'[r] = held /\ \A q \in Requests : q # r => req'[q] = req[q]
    BY <2>1, Slots
  <2>4. Ids' = Ids /\ \A f \in Ids : files[f] \in FileRows
    BY <2>1, FileRow DEF Ids, TypeOK
  <2>5. \A f \in Ids : files'[f].current = files[f].current
    BY <2>1, <2>4 DEF FileRows, Ids
  <2> QED BY <2>1, <2>2, <2>3, <2>4, <2>5, HeldNewest
<1>7. ASSUME NEW r \in Requests,
             \/ \E size \in Sizes, left \in 0 .. MaxBatch - 1 : UploadSave(r, size, left)
             \/ Count(r) \/ CheckRead(r) \/ Track(r) \/ Mail(r)
      PROVE  NewestInv'
  <2>1. UNCHANGED <<files, versions, torn>>
    BY <1>7 DEF UploadSave, Count, CheckRead, Track, Mail, rows
  <2>0. req[r].pc # "point"
    <3>1. CASE Count(r) \/ CheckRead(r) \/ Track(r) \/ Mail(r)
      BY <3>1, Zenon DEF Count, CheckRead, Track, Mail
    <3>2. CASE \E size \in Sizes, left \in 0 .. MaxBatch - 1 : UploadSave(r, size, left)
      <4>1. req[r] = Idle \/ req[r].pc = "next"
        BY <3>2, Zenon DEF UploadSave, Begin
      <4> QED BY <4>1 DEF Idle
    <3> QED BY <1>7, <3>1, <3>2
  <2>2. ASSUME NEW held, held.pc \notin Holding, Begin(r, held) \/ Continue(r, held)
        PROVE NewestInv'
    <3>1. OnTop(held)
      BY <2>2 DEF OnTop, Holding
    <3> QED BY <1>1, <2>1, <2>0, <2>2, <3>1
  <2>3. CASE \E size \in Sizes, left \in 0 .. MaxBatch - 1 : UploadSave(r, size, left)
    BY <2>2, <2>3 DEF UploadSave, Holding
  <2>4. CASE Count(r)
    BY <2>2, <2>4 DEF Count, Holding
  <2>5. CASE CheckRead(r)
    BY <2>2, <2>5 DEF CheckRead, Idle, Holding
  <2>6. CASE Track(r)
    BY <2>2, <2>6 DEF Track, Idle, Holding
  <2>7. CASE Mail(r)
    BY <2>2, <2>7 DEF Mail, Idle, Holding
  <2> QED BY <1>7, <2>3, <2>4, <2>5, <2>6, <2>7
<1>8. ASSUME NEW r \in Requests, Abort(r) PROVE NewestInv'
  <2>1. /\ UNCHANGED <<files, versions>> /\ req' = [req EXCEPT ![r] = Idle]
        /\ torn' = (torn \/ req[r].pc \in {"point", "count"})
    BY <1>8 DEF Abort, rows
  <2>2. req'[r] = Idle /\ \A q \in Requests : q # r => req'[q] = req[q]
    BY <2>1 DEF TypeOK
  <2>3. OnTop(Idle) /\ Idle.pc \notin Holding
    BY DEF OnTop, Idle, Holding
  <2>4. Ids' = Ids /\ \A f \in Ids : files'[f].current = files[f].current
    BY <2>1 DEF Ids
  <2> QED BY <2>1, <2>2, <2>3, <2>4, HeldNewest
<1>9. CASE UNCHANGED vars
  BY <1>9 DEF vars, NewestInv, Alone, OnTop, Newest, Numbers, Ids
<1> QED BY <1>2, <1>3, <1>4, <1>5, <1>6, <1>7, <1>8, <1>9 DEF Next, Step, Elsewhere

\* As long as no two requests met on one file and none was cut short mid-write, a
\* file shows its newest version, or is about to, for any number of requests that
\* work on different files (:244-247).
THEOREM NewestVersionShown == Spec => []CurrentIsNewest
<1>1. IInv /\ NewestInv => CurrentIsNewest
  <2> SUFFICES ASSUME IInv, NewestInv, ~torn, NEW f \in Ids,
                      \A n \in Numbers(f) : n <= files[f].current
               PROVE  files[f].current = Max(Numbers(f))
    BY DEF CurrentIsNewest, NewestInv, Newest
  <2>1. files[f].current \in Numbers(f) /\ \A n \in Numbers(f) : n \in Nat
    BY DEF IInv, TypeOK, NumberInv, NumbersCarried, VersionRows, Numbers
  <2> QED BY <2>1 DEF Max
<1>2. IInv /\ IInv' /\ NewestInv /\ [Next]_vars => NewestInv'
  BY NewestStep DEF IInv
<1> QED BY <1>1, <1>2, InitNewest, Inductive, PTL DEF Spec

-----------------------------------------------------------------------------
(* Requests one after the other                                            *)

\* Tracker and mails stand at the level in use.
InStep == notified = Crossed(used) /\ told = Crossed(used)

\* The tracker lags behind use, which a batch under way only adds to.
Lagging == told = notified /\ notified <= Crossed(used)

\* The check is due, and what was mailed is what tracker and use both reached.
CheckDue == told = Min({notified, Crossed(used)})

\* Where use, tracker and mails stand at each await of the one request.
WarningStage(q) ==
  /\ q.pc \in Holding => InStep
  /\ q.pc \in {"create", "next", "count"} => Lagging
  /\ q.pc = "count" /\ q.left > 0 => q.delta >= 0
  /\ q.pc = "check" => CheckDue
  /\ q.pc = "track" => /\ CheckDue /\ q.level = Crossed(used)
                       /\ q.before = notified /\ q.level # q.before
  /\ q.pc = "mail" => /\ notified = Crossed(used) /\ q.level = Crossed(used)
                      /\ told < q.level

WarningInv ==
  serial => /\ \A r, q \in Busy : r = q
            /\ Busy = {} => InStep
            /\ \A r \in Busy : WarningStage(req[r])

\* A greater use crosses no lower a level.
LEMMA QuotientGrows ==
  ASSUME NEW a \in Int, NEW b \in Int, NEW d \in Nat \ {0}, a <= b
  PROVE  a \div d <= b \div d
<1> DEFINE p == a \div d
           q == b \div d
<1>1. p \in Int /\ q \in Int /\ d * p <= a /\ b < d * q + d
  OBVIOUS
<1> HIDE DEF p, q
<1>2. ASSUME q < p PROVE FALSE
  <2>1. d * (q + 1) <= d * p
    BY <1>1, <1>2
  <2>2. d * (q + 1) = d * q + d
    BY <1>1
  <2> QED BY <1>1, <2>1, <2>2
<1> QED BY <1>1, <1>2 DEF p, q

LEMMA CrossedGrows ==
  ASSUME NEW a \in Int, NEW b \in Int, a <= b
  PROVE  Crossed(a) <= Crossed(b)
<1>1. Percent(a) \in Int /\ Percent(b) \in Int
  BY LimitAssumption DEF Percent
<1>2. Percent(a) <= Percent(b)
  BY QuotientGrows, LimitAssumption DEF Percent
<1> QED BY <1>1, <1>2, PercentAssumption DEF Crossed

LEMMA SmallerOfTwo ==
  ASSUME NEW a \in Int, NEW b \in Int
  PROVE  /\ a <= b => Min({a, b}) = a
         /\ b <= a => Min({a, b}) = b
         /\ Min({a, b}) <= a /\ Min({a, b}) <= b
<1>1. PICK x \in {a, b} : x = Min({a, b}) /\ \A y \in {a, b} : x <= y
  <2>1. \E x \in {a, b} : \A y \in {a, b} : x <= y
    OBVIOUS
  <2> QED BY <2>1 DEF Min
<1> QED BY <1>1

LEMMA GreaterOfTwo ==
  ASSUME NEW a \in Int, NEW b \in Int, a <= b
  PROVE  Max({a, b}) = b
<1>1. PICK x \in {a, b} : x = Max({a, b}) /\ \A y \in {a, b} : x >= y
  <2>1. \E x \in {a, b} : \A y \in {a, b} : x >= y
    OBVIOUS
  <2> QED BY <2>1 DEF Max
<1> QED BY <1>1

\* While requests come one after the other, the one that moves is the only one.
LEMMA OnlyOne ==
  ASSUME TypeOK, WarningInv, serial', NEW r \in Requests, NEW held,
         Begin(r, held) \/ (Continue(r, held) /\ req[r].pc # "idle")
  PROVE  /\ serial /\ \A q \in Requests : q # r => req[q].pc = "idle"
         /\ req[r].pc = "idle" => InStep
         /\ req[r].pc # "idle" => WarningStage(req[r])
<1>1. CASE Begin(r, held)
  <2>1. serial /\ Busy = {}
    BY <1>1, Zenon DEF Begin
  <2> QED BY <2>1 DEF WarningInv, Busy
<1>2. CASE Continue(r, held) /\ req[r].pc # "idle"
  <2>1. serial /\ r \in Busy
    BY <1>2 DEF Continue, Busy
  <2> QED BY <2>1 DEF WarningInv, Busy
<1> QED BY <1>1, <1>2

LEMMA StageReached ==
  ASSUME TypeOK, WarningInv, NEW r \in Requests, NEW held,
         Begin(r, held) \/ (Continue(r, held) /\ req[r].pc # "idle"),
         serial' => IF held.pc = "idle" THEN InStep' ELSE WarningStage(held)'
  PROVE  WarningInv'
<1> SUFFICES ASSUME serial'
             PROVE  /\ \A p, q \in Busy' : p = q
                    /\ Busy' = {} => InStep'
                    /\ \A q \in Busy' : WarningStage(req[q])'
  BY DEF WarningInv
<1>1. req'[r] = held /\ \A q \in Requests : q # r => req'[q] = req[q]
  BY Slots
<1>2. \A q \in Requests : q # r => req'[q].pc = "idle"
  BY <1>1, OnlyOne
<1>3. Busy' = {q \in Requests : req'[q].pc # "idle"}
  BY DEF Busy
<1>4. Busy' = IF held.pc = "idle" THEN {} ELSE {r}
  BY <1>1, <1>2, <1>3
<1> QED BY <1>1, <1>4 DEF WarningStage

LEMMA CrossedNat == ASSUME NEW bytes PROVE Crossed(bytes) \in Nat
<1>1. Crossed(bytes) \in Levels
  BY LevelCrossed
<1> QED BY <1>1, LevelsAreInts

LEMMA WarningTypes ==
  ASSUME TypeOK
  PROVE  used \in Int /\ notified \in Nat /\ told \in Nat
<1>1. used \in Int /\ notified \in Levels /\ told \in Levels
  BY DEF TypeOK
<1> QED BY <1>1, LevelsAreInts

LEMMA InitWarning == Init => WarningInv
BY SmallerOfTwo, PercentAssumption, LimitAssumption
   DEF Init, WarningInv, Busy, Idle, InStep, Crossed, Percent

\* A read or a write of the file leaves use, tracker and mails where they stand.
LEMMA FileStage ==
  ASSUME TypeOK, WarningInv, NEW r \in Requests, NEW held,
         UNCHANGED <<used, notified, told>>,
         \/ Begin(r, held)
         \/ Continue(r, held) /\ req[r].pc \in Holding \cup {"create", "next"},
         \/ held.pc \in {"idle"} \cup Holding
         \/ held.pc = "create"
         \/ held.pc = "count" /\ (held.left > 0 => held.delta >= 0),
         req[r].pc \in {"create", "next"} => held.pc \in {"create", "count"}
  PROVE  WarningInv'
<1>1. Begin(r, held) \/ (Continue(r, held) /\ req[r].pc # "idle")
  BY DEF Holding
<1>2. serial' => IF held.pc = "idle" THEN InStep' ELSE WarningStage(held)'
  <2> SUFFICES ASSUME serial'
               PROVE  IF held.pc = "idle" THEN InStep' ELSE WarningStage(held)'
    OBVIOUS
  <2>1. /\ req[r].pc = "idle" => InStep
        /\ req[r].pc # "idle" => WarningStage(req[r])
    BY <1>1, OnlyOne
  <2>2. notified \in Int /\ told \in Int
    BY WarningTypes
  <2>3. Crossed(used) = notified => notified <= Crossed(used)
    BY <2>2
  <2>4. InStep => Lagging
    BY <2>3 DEF InStep, Lagging
  <2>5. req[r].pc = "idle" \/ req[r].pc \in Holding \cup {"create", "next"}
    <3>1. req[r] = Idle => req[r].pc = "idle"
      BY DEF Idle
    <3> QED BY <3>1, Zenon DEF Begin
  <2>6. InStep \/ (Lagging /\ req[r].pc \in {"create", "next"})
    BY <2>1, <2>5 DEF WarningStage, Holding
  <2>7. InStep' = InStep /\ Lagging' = Lagging
    BY DEF InStep, Lagging, Crossed, Percent
  <2> QED BY <2>4, <2>6, <2>7 DEF WarningStage, Holding
<1> QED BY <1>1, <1>2, StageReached

LEMMA CountStage ==
  ASSUME TypeOK, WarningInv, NEW r \in Requests, Count(r)
  PROVE  WarningInv'
<1> DEFINE next == IF req[r].left > 0 THEN [pc |-> "next", left |-> req[r].left]
                                      ELSE [pc |-> "check"]
<1>1. PICK held : held = next
  OBVIOUS
<1>2. /\ Continue(r, held) /\ req[r].pc = "count" /\ used' = used + req[r].delta
      /\ told' = Min({told, Crossed(used')}) /\ notified' = notified
  BY <1>1 DEF Count
<1>3. /\ used \in Int /\ notified \in Int /\ req[r].delta \in Int /\ req[r].left \in Nat
  BY <1>2, HeldTypes, WarningTypes
<1>4. serial' => IF held.pc = "idle" THEN InStep' ELSE WarningStage(held)'
  <2> SUFFICES ASSUME serial' PROVE held.pc # "idle" /\ WarningStage(held)'
    OBVIOUS
  <2>1. Lagging /\ (req[r].left > 0 => req[r].delta >= 0)
    BY <1>2, OnlyOne DEF WarningStage
  <2>2. Crossed(used) \in Int /\ Crossed(used') \in Int
    BY CrossedNat
  <2>3. told' = Min({notified, Crossed(used')})
    BY <1>2, <2>1 DEF Lagging
  <2>4. CASE req[r].left > 0
    <3>1. Crossed(used) <= Crossed(used')
      BY <1>2, <1>3, <2>1, <2>4, CrossedGrows
    <3>2. notified <= Crossed(used')
      BY <1>3, <2>1, <2>2, <3>1 DEF Lagging
    <3>3. told' = notified
      BY <1>3, <2>2, <2>3, <3>2, SmallerOfTwo
    <3>4. Lagging'
      BY <1>2, <3>2, <3>3 DEF Lagging, Crossed, Percent
    <3> QED BY <1>1, <2>4, <3>4 DEF WarningStage, Holding
  <2>5. CASE ~(req[r].left > 0)
    <3>1. CheckDue'
      BY <1>2, <2>3 DEF CheckDue, Crossed, Percent
    <3> QED BY <1>1, <2>5, <3>1 DEF WarningStage, Holding
  <2> QED BY <2>4, <2>5
<1> QED BY <1>2, <1>4, StageReached

LEMMA CheckStage ==
  ASSUME TypeOK, WarningInv, NEW r \in Requests, CheckRead(r)
  PROVE  WarningInv'
<1> DEFINE next == IF ShouldTrack(Crossed(used), notified)
                   THEN [pc |-> "track", level |-> Crossed(used), before |-> notified]
                   ELSE Idle
<1>1. PICK held : held = next
  OBVIOUS
<1>2. /\ Continue(r, held) /\ req[r].pc = "check" /\ UNCHANGED <<used, notified, told>>
  BY <1>1 DEF CheckRead
<1>3. notified \in Int /\ Crossed(used) \in Int
  BY CrossedNat, WarningTypes
<1>4. serial' => IF held.pc = "idle" THEN InStep' ELSE WarningStage(held)'
  <2> SUFFICES ASSUME serial'
               PROVE  IF held.pc = "idle" THEN InStep' ELSE WarningStage(held)'
    OBVIOUS
  <2>1. CheckDue
    BY <1>2, OnlyOne DEF WarningStage
  <2>2. CheckDue' = CheckDue /\ InStep' = InStep /\ Crossed(used)' = Crossed(used)
    BY <1>2 DEF CheckDue, InStep, Crossed, Percent
  <2>3. CASE Crossed(used) # notified
    <3>1. /\ held.pc = "track" /\ held.level = Crossed(used) /\ held.before = notified
      BY <1>1, <2>3 DEF ShouldTrack
    <3> QED BY <1>2, <2>1, <2>2, <2>3, <3>1 DEF WarningStage, Holding
  <2>4. CASE Crossed(used) = notified
    <3>1. InStep
      BY <1>3, <2>1, <2>4, SmallerOfTwo DEF CheckDue, InStep
    <3> QED BY <1>1, <2>2, <2>4, <3>1 DEF ShouldTrack, Idle
  <2> QED BY <2>3, <2>4
<1> QED BY <1>2, <1>4, StageReached

LEMMA TrackStage ==
  ASSUME TypeOK, WarningInv, NEW r \in Requests, Track(r)
  PROVE  WarningInv'
<1> DEFINE next == IF ShouldMail(req[r].level, req[r].before)
                   THEN [pc |-> "mail", level |-> req[r].level] ELSE Idle
<1>1. PICK held : held = next
  OBVIOUS
<1>2. /\ Continue(r, held) /\ req[r].pc = "track" /\ UNCHANGED <<used, told>>
      /\ notified' = req[r].level
  BY <1>1 DEF Track
<1>3. notified \in Nat /\ Crossed(used) \in Nat
  BY CrossedNat, WarningTypes
<1>4. notified \in Int /\ Crossed(used) \in Int
  BY <1>3
<1>5. serial' => IF held.pc = "idle" THEN InStep' ELSE WarningStage(held)'
  <2> SUFFICES ASSUME serial'
               PROVE  IF held.pc = "idle" THEN InStep' ELSE WarningStage(held)'
    OBVIOUS
  <2>1. /\ told = Min({notified, Crossed(used)}) /\ req[r].level = Crossed(used)
        /\ req[r].before = notified /\ req[r].level # req[r].before
    BY <1>2, OnlyOne DEF WarningStage, CheckDue
  <2>2. Crossed(used)' = Crossed(used)
    BY <1>2 DEF Crossed, Percent
  <2>3. CASE Crossed(used) > notified
    <3>1. held.pc = "mail" /\ held.level = Crossed(used)
      BY <1>1, <1>3, <2>1, <2>3 DEF ShouldMail
    <3>2. told < Crossed(used)
      <4>1. notified <= Crossed(used)
        BY <1>3, <2>3
      <4>2. Min({notified, Crossed(used)}) = notified
        BY <1>4, <4>1, SmallerOfTwo
      <4>3. told' = notified
        BY <1>2, <2>1, <4>2
      <4> QED BY <1>2, <1>3, <2>3, <4>3
    <3> QED BY <1>2, <2>1, <2>2, <3>1, <3>2 DEF WarningStage, Holding
  <2>4. CASE Crossed(used) < notified
    <3>1. told = Crossed(used)
      <4>1. Crossed(used) <= notified
        BY <1>3, <2>4
      <4>2. Min({notified, Crossed(used)}) = Crossed(used)
        BY <1>4, <4>1, SmallerOfTwo
      <4> QED BY <2>1, <4>2
    <3>2. held = Idle
      BY <1>1, <1>3, <2>1, <2>4 DEF ShouldMail
    <3> QED BY <1>2, <2>1, <2>2, <3>1, <3>2 DEF InStep, Idle
  <2> QED BY <1>3, <2>1, <2>3, <2>4
<1> QED BY <1>2, <1>5, StageReached

LEMMA MailStage ==
  ASSUME TypeOK, WarningInv, NEW r \in Requests, Mail(r)
  PROVE  WarningInv'
<1>1. PICK held : held = Idle
  OBVIOUS
<1>2. /\ Continue(r, held) /\ req[r].pc = "mail" /\ UNCHANGED <<used, notified>>
      /\ told' = Min({Max({told, req[r].level}), Crossed(used)})
  BY <1>1 DEF Mail
<1>3. told \in Int /\ Crossed(used) \in Int
  BY CrossedNat, WarningTypes
<1>4. serial' => InStep'
  <2> SUFFICES ASSUME serial' PROVE InStep'
    OBVIOUS
  <2>1. /\ notified = Crossed(used) /\ req[r].level = Crossed(used) /\ told < req[r].level
    BY <1>2, OnlyOne DEF WarningStage
  <2>2. Max({told, req[r].level}) = Crossed(used)
    BY <1>3, <2>1, GreaterOfTwo
  <2>3. told' = Crossed(used)
    BY <1>2, <1>3, <2>2, SmallerOfTwo
  <2>4. Crossed(used)' = Crossed(used)
    BY <1>2 DEF Crossed, Percent
  <2> QED BY <1>2, <2>1, <2>3, <2>4 DEF InStep
<1> QED BY <1>1, <1>2, <1>4, StageReached DEF Idle

LEMMA WarningStep ==
  ASSUME TypeOK, WarningInv, [Next]_vars
  PROVE  WarningInv'
<1>1. ASSUME NEW r \in Requests, NEW size \in Sizes, NEW left \in 0 .. MaxBatch - 1,
             UploadSave(r, size, left)
      PROVE  WarningInv'
  <2>1. PICK held : held = [pc |-> "create", size |-> size, blob |-> NewPath, left |-> left]
    OBVIOUS
  <2>2. /\ UNCHANGED <<used, notified, told>> /\ held.pc = "create"
        /\ Begin(r, held) \/ (Continue(r, held) /\ req[r].pc = "next")
    BY <1>1, <2>1 DEF UploadSave
  <2> QED BY <2>2, FileStage
<1>2. ASSUME NEW r \in Requests, UploadCreate(r) PROVE WarningInv'
  <2>1. PICK held : held = [pc |-> "count", delta |-> req[r].size, left |-> req[r].left]
    OBVIOUS
  <2>2. /\ UNCHANGED <<used, notified, told>> /\ req[r].pc = "create"
        /\ Continue(r, held) /\ held.pc = "count" /\ held.delta = req[r].size
    BY <1>2, <2>1 DEF UploadCreate
  <2>3. held.delta >= 0
    BY <2>2, HeldTypes
  <2> QED BY <2>2, <2>3, FileStage
<1>3. ASSUME NEW r \in Requests, NEW f \in Ids, RemoveRead(r, f) PROVE WarningInv'
  <2>1. PICK held : held = [pc |-> "mark", file |-> f, size |-> files[f].size]
    OBVIOUS
  <2>2. UNCHANGED <<used, notified, told>> /\ held.pc = "mark" /\ Begin(r, held)
    BY <1>3, <2>1 DEF RemoveRead
  <2>3. req[r].pc = "idle"
    BY <2>2 DEF Begin, Idle
  <2> QED BY <2>2, <2>3, FileStage DEF Holding
<1>4. ASSUME NEW r \in Requests, RemoveMark(r) PROVE WarningInv'
  <2>1. PICK held : held = [pc |-> "count", delta |-> -req[r].size, left |-> 0]
    OBVIOUS
  <2>2. /\ UNCHANGED <<used, notified, told>> /\ req[r].pc = "mark"
        /\ Continue(r, held) /\ held.pc = "count" /\ held.left = 0
    BY <1>4, <2>1 DEF RemoveMark
  <2> QED BY <2>2, FileStage DEF Holding
<1>5. ASSUME NEW r \in Requests, NEW f \in Ids, NEW size \in Sizes, VersionSave(r, f, size)
      PROVE  WarningInv'
  <2>1. PICK held : held = [pc |-> "latest", file |-> f, size |-> size, blob |-> NewPath,
                            old |-> files[f].size]
    OBVIOUS
  <2>2. UNCHANGED <<used, notified, told>> /\ held.pc = "latest" /\ Begin(r, held)
    BY <1>5, <2>1 DEF VersionSave
  <2>3. req[r].pc = "idle"
    BY <2>2 DEF Begin, Idle
  <2> QED BY <2>2, <2>3, FileStage DEF Holding
<1>6. ASSUME NEW r \in Requests, VersionLatest(r) PROVE WarningInv'
  <2>1. PICK held : held = [pc |-> "insert", file |-> req[r].file, size |-> req[r].size,
                            blob |-> req[r].blob, old |-> req[r].old,
                            number |-> NextNumber(req[r].file)]
    OBVIOUS
  <2>2. /\ UNCHANGED <<used, notified, told>> /\ req[r].pc = "latest"
        /\ Continue(r, held) /\ held.pc = "insert"
    BY <1>6, <2>1 DEF VersionLatest
  <2> QED BY <2>2, FileStage DEF Holding
<1>7. ASSUME NEW r \in Requests, VersionInsert(r) PROVE WarningInv'
  <2>1. \E held : /\ UNCHANGED <<used, notified, told>> /\ req[r].pc = "insert"
                  /\ Continue(r, held) /\ held.pc \in {"idle", "point"}
    <3>1. CASE Taken(req[r].file, req[r].number)
      BY <1>7, <3>1 DEF VersionInsert, Idle
    <3>2. CASE ~Taken(req[r].file, req[r].number)
      BY <1>7, <3>2 DEF VersionInsert
    <3> QED BY <3>1, <3>2
  <2> QED BY <2>1, FileStage DEF Holding
<1>8. ASSUME NEW r \in Requests, VersionPoint(r) PROVE WarningInv'
  <2>1. PICK held : held = [pc |-> "count", left |-> 0,
                            delta |-> VersionDelta(req[r].size, req[r].old)]
    OBVIOUS
  <2>2. /\ UNCHANGED <<used, notified, told>> /\ req[r].pc = "point"
        /\ Continue(r, held) /\ held.pc = "count" /\ held.left = 0
    BY <1>8, <2>1 DEF VersionPoint
  <2> QED BY <2>2, FileStage DEF Holding
<1>9. ASSUME NEW r \in Requests, Abort(r) PROVE WarningInv'
  BY <1>9 DEF Abort, WarningInv
<1>10. CASE UNCHANGED vars
  <2>1. UNCHANGED <<used, notified, told, req, serial>>
    BY <1>10 DEF vars
  <2>2. InStep' = InStep /\ Lagging' = Lagging /\ CheckDue' = CheckDue
        /\ Crossed(used)' = Crossed(used) /\ Busy' = Busy
    BY <2>1 DEF InStep, Lagging, CheckDue, Crossed, Percent, Busy
  <2> QED BY <2>1, <2>2 DEF WarningInv, WarningStage
<1> QED BY <1>1, <1>2, <1>3, <1>4, <1>5, <1>6, <1>7, <1>8, <1>9, <1>10,
           CountStage, CheckStage, TrackStage, MailStage DEF Next, Step, Elsewhere

LEMMA Warned == Spec => []WarningInv
<1>1. IInv /\ WarningInv /\ [Next]_vars => WarningInv'
  BY WarningStep DEF IInv
<1> QED BY <1>1, InitWarning, Inductive, PTL DEF Spec

\* For every number of request slots, every limit, every percentage and uploads of
\* any length: requests that come one after the other leave tracker and mails at
\* the level in use, however often use has crossed one up or down (:397-409).
THEOREM WarningsInStep == Spec => []WarningsKeepUp
<1>1. WarningInv => WarningsKeepUp
  BY DEF WarningInv, InStep, WarningsKeepUp
<1> QED BY <1>1, Warned, PTL

\* And none of them mails a level that has been mailed since use was last below it.
THEOREM MailedOncePerCrossing == Spec => OncePerCrossingSerial
<1>1. TypeOK /\ WarningInv /\ [Next]_vars
        => [\A r \in Requests : serial /\ Mail(r) => req[r].level > told]_vars
  <2> SUFFICES ASSUME TypeOK, WarningInv, NEW r \in Requests, serial, Mail(r)
               PROVE  req[r].level > told
    OBVIOUS
  <2>1. req[r].pc = "mail" /\ r \in Busy
    BY DEF Mail, Busy
  <2>2. told < req[r].level
    BY <2>1 DEF WarningInv, WarningStage
  <2>3. told \in Int /\ req[r].level \in Int
    <3>1. req[r].level \in Levels
      BY <2>1, HeldTypes
    <3>2. req[r].level \in Nat
      BY <3>1, LevelsAreInts
    <3> QED BY <3>2, WarningTypes
  <2> QED BY <2>2, <2>3
<1>2. IInv => TypeOK
  BY DEF IInv
<1> QED BY <1>1, <1>2, Warned, Inductive, PTL DEF Spec, OncePerCrossingSerial

-----------------------------------------------------------------------------
(* Sums: what MapThenSumSet adds up, as a function of the weights          *)

LEMMA LeastOf ==
  ASSUME NEW S \in SUBSET Nat, S # {}
  PROVE  \E m \in S : \A s \in S : m <= s
<1>1. PICK m \in S : \A s \in S : ~(<<s, m>> \in OpToRel(<, Nat))
  BY WFMin, NatLessThanWellFounded
<1>2. \A s \in S : ~(s < m)
  BY <1>1 DEF OpToRel
<1>3. S \subseteq Nat
  OBVIOUS
<1> QED BY <1>2, <1>3

\* One step of the sum: any element first.
AddsUp(h, w, s) ==
  IF s = {} THEN 0 ELSE LET x == CHOOSE x \in s : TRUE IN w[x] + h[s \ {x}]

Adds(h, w, S) == h = [s \in SUBSET S |-> AddsUp(h, w, s)]

\* The integer sums of all subsets.
Sums(h, w, S) == /\ h \in [SUBSET S -> Int]
                 /\ \A s \in SUBSET S : h[s] = AddsUp(h, w, s)

Total(w, S) == (CHOOSE h : Adds(h, w, S))[S]

LEMMA OneOff ==
  ASSUME NEW s, IsFiniteSet(s), NEW x \in s
  PROVE  /\ IsFiniteSet(s \ {x}) /\ Cardinality(s) \in Nat \ {0}
         /\ Cardinality(s \ {x}) = Cardinality(s) - 1
<1>1. IsFiniteSet(s \ {x}) /\ Cardinality(s \ {x}) = Cardinality(s) - 1
  BY FS_RemoveElement
<1>2. Cardinality(s) \in Nat /\ Cardinality(s \ {x}) \in Nat
  BY <1>1, FS_CardinalityType
<1> QED BY <1>1, <1>2

LEMMA AddsUpIsInt ==
  ASSUME NEW S, NEW w \in [S -> Int], NEW h \in [SUBSET S -> Int], NEW s \in SUBSET S
  PROVE  AddsUp(h, w, s) \in Int
<1>1. CASE s = {}
  BY <1>1 DEF AddsUp
<1>2. CASE s # {}
  <2>1. PICK x : x = CHOOSE y \in s : TRUE
    OBVIOUS
  <2>2. x \in s /\ AddsUp(h, w, s) = w[x] + h[s \ {x}]
    BY <1>2, <2>1 DEF AddsUp
  <2>3. w[x] \in Int /\ h[s \ {x}] \in Int
    BY <2>2
  <2> QED BY <2>2, <2>3
<1> QED BY <1>1, <1>2

\* The sum over the sets of up to n elements is defined, hence over all.
LEMMA SumExists ==
  ASSUME NEW S, IsFiniteSet(S), NEW w \in [S -> Int]
  PROVE  \E h \in [SUBSET S -> Int] : Adds(h, w, S)
<1> DEFINE UpTo(n) == \E h \in [SUBSET S -> Int] :
                        \A s \in SUBSET S : Cardinality(s) <= n => h[s] = AddsUp(h, w, s)
           Bad == {n \in Nat : ~UpTo(n)}
<1>1. \A s \in SUBSET S : IsFiniteSet(s) /\ Cardinality(s) \in Nat
                            /\ Cardinality(s) <= Cardinality(S)
  BY FS_Subset, FS_CardinalityType
<1>2. UpTo(0)
  <2>1. PICK h : h = [s \in SUBSET S |-> 0]
    OBVIOUS
  <2>2. ASSUME NEW s \in SUBSET S, Cardinality(s) <= 0 PROVE s = {}
    <3>1. IsFiniteSet(s) /\ Cardinality(s) = 0
      BY <1>1, <2>2
    <3> QED BY <3>1, FS_EmptySet
  <2>3. \A s \in SUBSET S : Cardinality(s) <= 0 => h[s] = AddsUp(h, w, s)
    BY <2>1, <2>2 DEF AddsUp
  <2>4. h \in [SUBSET S -> Int]
    BY <2>1
  <2> QED BY <2>3, <2>4
<1>3. ASSUME NEW n \in Nat, UpTo(n) PROVE UpTo(n + 1)
  <2>1. PICK h \in [SUBSET S -> Int] :
          \A s \in SUBSET S : Cardinality(s) <= n => h[s] = AddsUp(h, w, s)
    BY <1>3
  <2>2. PICK g : g = [s \in SUBSET S |-> AddsUp(h, w, s)]
    OBVIOUS
  <2>3. g \in [SUBSET S -> Int]
    BY <2>2, AddsUpIsInt
  <2>4. ASSUME NEW s \in SUBSET S, Cardinality(s) <= n + 1 PROVE g[s] = AddsUp(g, w, s)
    <3>1. CASE s = {}
      BY <2>2, <3>1 DEF AddsUp
    <3>2. CASE s # {}
      <4>1. PICK x : x = CHOOSE y \in s : TRUE
        OBVIOUS
      <4>2. x \in s
        BY <3>2, <4>1
      <4>3. Cardinality(s \ {x}) <= n
        BY <1>1, <2>4, <4>2, OneOff
      <4>4. g[s \ {x}] = h[s \ {x}]
        BY <2>1, <2>2, <4>3
      <4>5. g[s] = AddsUp(h, w, s)
        BY <2>2
      <4> QED BY <3>2, <4>1, <4>4, <4>5 DEF AddsUp
    <3> QED BY <3>1, <3>2
  <2> QED BY <2>3, <2>4
<1> HIDE DEF UpTo
<1>4. \A n \in Nat : UpTo(n)
  <2> SUFFICES ASSUME Bad # {} PROVE FALSE
    OBVIOUS
  <2>1. PICK m \in Bad : \A n \in Bad : m <= n
    BY LeastOf
  <2>2. m \in Nat \ {0} /\ m - 1 \in Nat
    BY <1>2, <2>1
  <2>3. UpTo(m - 1)
    BY <2>1, <2>2
  <2>4. UpTo(m - 1 + 1) /\ m - 1 + 1 = m
    BY <1>3, <2>2, <2>3
  <2> QED BY <2>1, <2>4
<1>5. PICK h \in [SUBSET S -> Int] :
        \A s \in SUBSET S : Cardinality(s) <= Cardinality(S) => h[s] = AddsUp(h, w, s)
  <2>1. Cardinality(S) \in Nat
    BY FS_CardinalityType
  <2> QED BY <1>4, <2>1 DEF UpTo
<1>6. h = [s \in SUBSET S |-> AddsUp(h, w, s)]
  BY <1>1, <1>5
<1> QED BY <1>6 DEF Adds

LEMMA TotalAdds ==
  ASSUME NEW S, IsFiniteSet(S), NEW w \in [S -> Int]
  PROVE  \E h : Sums(h, w, S) /\ Total(w, S) = h[S]
<1>1. PICK h : h = CHOOSE g : Adds(g, w, S)
  OBVIOUS
<1>2. PICK g \in [SUBSET S -> Int] : Adds(g, w, S)
  BY SumExists
<1>3. Adds(h, w, S)
  BY <1>1, <1>2
<1>4. h = [s \in SUBSET S |-> AddsUp(h, w, s)]
  BY <1>3 DEF Adds
<1>5. \A s \in SUBSET S : h[s] = AddsUp(h, w, s)
  BY <1>4
<1>6. h \in [SUBSET S -> Int]
  <2> DEFINE Bad == {n \in Nat : \E s \in SUBSET S : Cardinality(s) = n /\ h[s] \notin Int}
  <2>1. \A s \in SUBSET S : IsFiniteSet(s) /\ Cardinality(s) \in Nat
    BY FS_Subset, FS_CardinalityType
  <2>2. ASSUME Bad # {} PROVE FALSE
    <3>1. PICK m \in Bad : \A n \in Bad : m <= n
      BY <2>2, LeastOf
    <3>2. PICK s \in SUBSET S : Cardinality(s) = m /\ h[s] \notin Int
      BY <3>1
    <3>3. s # {}
      BY <1>5, <3>2 DEF AddsUp
    <3>4. PICK x : x = CHOOSE y \in s : TRUE
      OBVIOUS
    <3>5. x \in s /\ h[s] = w[x] + h[s \ {x}]
      BY <1>5, <3>3, <3>4 DEF AddsUp
    <3>6. s \ {x} \in SUBSET S /\ Cardinality(s \ {x}) = m - 1 /\ m - 1 \in Nat
      BY <2>1, <3>2, <3>5, OneOff
    <3>7. h[s \ {x}] \in Int
      <4>1. m - 1 \notin Bad
        BY <3>1, <3>6
      <4> QED BY <3>6, <4>1
    <3>8. w[x] \in Int
      BY <3>5
    <3> QED BY <3>2, <3>5, <3>7, <3>8
  <2>3. \A s \in SUBSET S : h[s] \in Int
    BY <2>1, <2>2
  <2> QED BY <1>4, <2>3
<1> QED BY <1>1, <1>5, <1>6 DEF Total, Sums

\* Any element may come first.
LEMMA AnyFirst ==
  ASSUME NEW S, IsFiniteSet(S), NEW w \in [S -> Int], NEW h, Sums(h, w, S)
  PROVE  \A s \in SUBSET S : \A x \in s : h[s] = w[x] + h[s \ {x}]
<1> DEFINE Bad == {n \in Nat : \E s \in SUBSET S : /\ Cardinality(s) = n
                                                   /\ \E x \in s : h[s] # w[x] + h[s \ {x}]}
<1>0. h \in [SUBSET S -> Int] /\ \A s \in SUBSET S : h[s] = AddsUp(h, w, s)
  BY DEF Sums
<1>1. \A s \in SUBSET S : IsFiniteSet(s) /\ Cardinality(s) \in Nat
  BY FS_Subset, FS_CardinalityType
<1>2. ASSUME Bad # {} PROVE FALSE
  <2>1. PICK m \in Bad : \A n \in Bad : m <= n
    BY <1>2, LeastOf
  <2>2. PICK s \in SUBSET S : Cardinality(s) = m /\ \E x \in s : h[s] # w[x] + h[s \ {x}]
    BY <2>1
  <2>3. PICK x \in s : h[s] # w[x] + h[s \ {x}]
    BY <2>2
  <2>4. PICK c : c = CHOOSE y \in s : TRUE
    OBVIOUS
  <2>5. c \in s /\ h[s] = w[c] + h[s \ {c}]
    BY <1>0, <2>3, <2>4 DEF AddsUp
  <2>6. c # x
    BY <2>3, <2>5
  <2>7. /\ s \ {c} \in SUBSET S /\ s \ {x} \in SUBSET S /\ m - 1 \in Nat
        /\ Cardinality(s \ {c}) = m - 1 /\ Cardinality(s \ {x}) = m - 1
    BY <1>1, <2>2, <2>5, OneOff
  <2>8. m - 1 \notin Bad
    BY <2>1, <2>7
  <2>9. h[s \ {c}] = w[x] + h[(s \ {c}) \ {x}] /\ h[s \ {x}] = w[c] + h[(s \ {x}) \ {c}]
    BY <2>5, <2>6, <2>7, <2>8
  <2>10. (s \ {c}) \ {x} = (s \ {x}) \ {c} /\ (s \ {c}) \ {x} \in SUBSET S
    OBVIOUS
  <2>11. w[x] \in Int /\ w[c] \in Int /\ h[(s \ {c}) \ {x}] \in Int
    BY <1>0, <2>5, <2>10
  <2>12. h[s] = w[c] + (w[x] + h[(s \ {c}) \ {x}])
         /\ h[s \ {x}] = w[c] + h[(s \ {c}) \ {x}]
    BY <2>5, <2>9, <2>10
  <2> QED BY <2>3, <2>11, <2>12
<1> QED BY <1>1, <1>2

\* Equal weights, equal sums.
LEMMA SameWeights ==
  ASSUME NEW S, NEW U, NEW w, NEW v, NEW h, NEW g, Sums(h, w, S), Sums(g, v, U),
         NEW T \in SUBSET (S \cap U), IsFiniteSet(T), \A x \in T : w[x] = v[x]
  PROVE  h[T] = g[T]
<1> DEFINE Bad == {n \in Nat : \E s \in SUBSET T : Cardinality(s) = n /\ h[s] # g[s]}
<1>1. \A s \in SUBSET T : IsFiniteSet(s) /\ Cardinality(s) \in Nat
  BY FS_Subset, FS_CardinalityType
<1>2. ASSUME Bad # {} PROVE FALSE
  <2>1. PICK m \in Bad : \A n \in Bad : m <= n
    BY <1>2, LeastOf
  <2>2. PICK s \in SUBSET T : Cardinality(s) = m /\ h[s] # g[s]
    BY <2>1
  <2>3. s # {}
    BY <2>2 DEF AddsUp, Sums
  <2>4. PICK c : c = CHOOSE y \in s : TRUE
    OBVIOUS
  <2>5. c \in s /\ h[s] = w[c] + h[s \ {c}] /\ g[s] = v[c] + g[s \ {c}]
    BY <2>3, <2>4 DEF AddsUp, Sums
  <2>6. s \ {c} \in SUBSET T /\ Cardinality(s \ {c}) = m - 1 /\ m - 1 \in Nat
    BY <1>1, <2>2, <2>5, OneOff
  <2>7. m - 1 \notin Bad
    BY <2>1, <2>6
  <2>8. h[s \ {c}] = g[s \ {c}]
    BY <2>6, <2>7
  <2> QED BY <2>2, <2>5, <2>8
<1> QED BY <1>1, <1>2

\* One weight changes.
LEMMA OneChanges ==
  ASSUME NEW S, IsFiniteSet(S), NEW w \in [S -> Int], NEW v \in [S -> Int], NEW x \in S,
         \A y \in S \ {x} : v[y] = w[y]
  PROVE  Total(w, S) \in Int /\ Total(v, S) = Total(w, S) + (v[x] - w[x])
<1>1. PICK h : Sums(h, w, S) /\ Total(w, S) = h[S]
  BY TotalAdds
<1>2. PICK g : Sums(g, v, S) /\ Total(v, S) = g[S]
  BY TotalAdds
<1>3. S \in SUBSET S /\ S \ {x} \in SUBSET S /\ S \ {x} \in SUBSET (S \cap S)
  OBVIOUS
<1>4. h[S] = w[x] + h[S \ {x}] /\ g[S] = v[x] + g[S \ {x}]
  BY <1>1, <1>2, <1>3, AnyFirst
<1>5. IsFiniteSet(S \ {x})
  BY OneOff
<1>6. h[S \ {x}] = g[S \ {x}]
  BY <1>1, <1>2, <1>3, <1>5, SameWeights
<1>7. w[x] \in Int /\ v[x] \in Int /\ h[S \ {x}] \in Int /\ h[S] \in Int
  BY <1>1, <1>3 DEF Sums
<1> QED BY <1>1, <1>2, <1>4, <1>6, <1>7

\* One element more.
LEMMA OneMore ==
  ASSUME NEW S, IsFiniteSet(S), NEW x, x \notin S, NEW w \in [S -> Int],
         NEW v \in [S \cup {x} -> Int], \A y \in S : v[y] = w[y]
  PROVE  Total(w, S) \in Int /\ Total(v, S \cup {x}) = Total(w, S) + v[x]
<1>1. PICK all : all = S \cup {x}
  OBVIOUS
<1>2. IsFiniteSet(all) /\ x \in all /\ all \ {x} = S /\ v \in [all -> Int]
  BY <1>1, FS_AddElement
<1>3. PICK h : Sums(h, w, S) /\ Total(w, S) = h[S]
  BY TotalAdds
<1>4. PICK g : Sums(g, v, all) /\ Total(v, all) = g[all]
  BY <1>2, TotalAdds
<1>5. all \in SUBSET all /\ S \in SUBSET all /\ S \in SUBSET S /\ S \in SUBSET (S \cap all)
  BY <1>1
<1>6. g[all] = v[x] + g[S]
  BY <1>2, <1>4, <1>5, AnyFirst
<1>7. h[S] = g[S]
  BY <1>3, <1>4, <1>5, SameWeights
<1>8. v[x] \in Int /\ h[S] \in Int
  BY <1>2, <1>3, <1>5 DEF Sums
<1> QED BY <1>1, <1>3, <1>4, <1>6, <1>7, <1>8

LEMMA NoWeight ==
  ASSUME NEW S, IsFiniteSet(S), NEW w \in [S -> Int], \A x \in S : w[x] = 0
  PROVE  Total(w, S) = 0
<1> DEFINE zero == [s \in SUBSET S |-> 0]
<1>1. PICK h : Sums(h, w, S) /\ Total(w, S) = h[S]
  BY TotalAdds
<1>2. Sums(zero, w, S)
  <2>1. ASSUME NEW s \in SUBSET S PROVE AddsUp(zero, w, s) = 0
    <3>1. CASE s = {}
      BY <3>1 DEF AddsUp
    <3>2. CASE s # {}
      <4>1. PICK x : x = CHOOSE y \in s : TRUE
        OBVIOUS
      <4>2. x \in s /\ AddsUp(zero, w, s) = w[x] + zero[s \ {x}]
        BY <3>2, <4>1 DEF AddsUp
      <4> QED BY <4>2
    <3> QED BY <3>1, <3>2
  <2> QED BY <2>1 DEF Sums
<1>3. h[S] = zero[S]
  <2>1. S \in SUBSET (S \cap S)
    OBVIOUS
  <2> HIDE DEF zero
  <2> QED BY <1>1, <1>2, <2>1, SameWeights
<1> QED BY <1>1, <1>3

-----------------------------------------------------------------------------
(* The books                                                               *)

Owing == [r \in Requests |-> IF req[r].pc = "count" THEN req[r].delta ELSE 0]
Stored == [f \in Live |-> files[f].size]
Balanced == used + Total(Owing, Requests) = Total(Stored, Live)

\* The file a request works on is live, with the size the request has read.
Fresh(q) ==
  q.pc \in Holding =>
    /\ q.file \in Live
    /\ files[q.file].size = IF q.pc = "mark" THEN q.size ELSE q.old

LedgerInv == ~torn => (\A r \in Requests : Fresh(req[r])) /\ Balanced

LEMMA LedgerTypes ==
  ASSUME TypeOK
  PROVE  /\ Owing \in [Requests -> Int] /\ Stored \in [Live -> Int]
         /\ IsFiniteSet(Requests) /\ IsFiniteSet(Live) /\ Live \subseteq Ids
<1>1. Owing \in [Requests -> Int]
  BY HeldTypes DEF Owing
<1>2. Live \subseteq Ids /\ \A f \in Ids : files[f] \in FileRows
  BY FileRow DEF Live
<1>3. Stored \in [Live -> Int]
  BY <1>2 DEF Stored, FileRows
<1>4. Ids = 1 .. Len(files) /\ Len(files) \in Nat
  BY DEF TypeOK, Ids
<1>5. IsFiniteSet(Live)
  <2>1. IsFiniteSet(Ids)
    BY <1>4, FS_Interval
  <2> QED BY <1>2, <2>1, FS_Subset
<1> QED BY <1>1, <1>2, <1>3, <1>5, RequestsAssumption

\* What the property adds up are these sums.
LEMMA LedgerSums == LedgerBalances <=> (~torn => Balanced)
<1>1. PICK w, v : w = Owing /\ v = Stored
  OBVIOUS
<1>2. MapThenSumSet(LAMBDA r : IF req[r].pc = "count" THEN req[r].delta ELSE 0, Requests)
        = Total(w, Requests)
  BY <1>1, Zenon DEF MapThenSumSet, MapThenFoldSet, Owing, Adds, AddsUp, Total
<1>3. MapThenSumSet(LAMBDA f : files[f].size, Live) = Total(v, Live)
  BY <1>1, Zenon DEF MapThenSumSet, MapThenFoldSet, Stored, Adds, AddsUp, Total
<1> QED BY <1>1, <1>2, <1>3, Zenon DEF LedgerBalances, Balanced

\* A step that neither counts nor writes a file.
LEMMA LedgerKept ==
  ASSUME TypeOK, LedgerInv, NEW r \in Requests, NEW held,
         req' = [req EXCEPT ![r] = held], UNCHANGED <<files, used>>,
         ~torn' => /\ ~torn /\ req[r].pc # "count" /\ held.pc # "count"
                   /\ Fresh(held)
  PROVE  LedgerInv'
<1> SUFFICES ASSUME ~torn' PROVE (\A q \in Requests : Fresh(req[q])') /\ Balanced'
  BY DEF LedgerInv
<1>1. (\A q \in Requests : Fresh(req[q])) /\ Balanced
  BY DEF LedgerInv
<1>2. req'[r] = held /\ \A q \in Requests \ {r} : req'[q] = req[q]
  BY DEF TypeOK
<1>3. Live' = Live /\ Ids' = Ids
  BY DEF Live, Ids
<1>4. \A q \in Requests : Fresh(req[q])'
  BY <1>1, <1>2, <1>3 DEF Fresh
<1>5. Owing' = Owing
  BY <1>2 DEF Owing
<1>6. Stored' = Stored
  BY <1>3 DEF Stored
<1>7. Balanced'
  BY <1>1, <1>3, <1>5, <1>6 DEF Balanced, Total, Adds, AddsUp
<1> QED BY <1>4, <1>7

\* A request that comes to owe, or has paid.
LEMMA OwedBy ==
  ASSUME TypeOK, TypeOK', NEW r \in Requests, NEW held, req' = [req EXCEPT ![r] = held]
  PROVE  /\ Total(Owing, Requests) \in Int
         /\ Total(Owing', Requests) = Total(Owing, Requests) + (Owing'[r] - Owing[r])
<1>1. PICK w, v : w = Owing /\ v = Owing'
  OBVIOUS
<1>2. w \in [Requests -> Int] /\ IsFiniteSet(Requests)
  BY <1>1, LedgerTypes
<1>3. req'[r] = held /\ \A q \in Requests \ {r} : req'[q] = req[q]
  BY DEF TypeOK
<1>4. Owing' \in [Requests -> Int]
  <2>1. req' \in [Requests -> Request]
    BY DEF TypeOK
  <2>2. \A q \in Requests : req'[q].pc = "count" => req'[q].delta \in Int
    BY <2>1 DEF Request, Idle
  <2> QED BY <2>2 DEF Owing
<1>5. \A q \in Requests \ {r} : v[q] = w[q]
  BY <1>1, <1>3 DEF Owing
<1>6. Total(w, Requests) \in Int /\ Total(v, Requests) = Total(w, Requests) + (v[r] - w[r])
  BY <1>1, <1>2, <1>4, <1>5, OneChanges
<1> QED BY <1>1, <1>6

LEMMA CountLedger ==
  ASSUME TypeOK, TypeOK', LedgerInv, NEW r \in Requests, Count(r)
  PROVE  LedgerInv'
<1> SUFFICES ASSUME ~torn' PROVE (\A q \in Requests : Fresh(req[q])') /\ Balanced'
  BY DEF LedgerInv
<1>0. PICK held : held = IF req[r].left > 0 THEN [pc |-> "next", left |-> req[r].left]
                                            ELSE [pc |-> "check"]
  OBVIOUS
<1>1. /\ req' = [req EXCEPT ![r] = held] /\ held.pc \in {"next", "check"}
      /\ req[r].pc = "count" /\ used' = used + req[r].delta
      /\ UNCHANGED <<files, torn>>
  BY <1>0 DEF Count, Continue, rows
<1>2. (\A q \in Requests : Fresh(req[q])) /\ Balanced
  BY <1>1 DEF LedgerInv
<1>3. req'[r] = held /\ \A q \in Requests \ {r} : req'[q] = req[q]
  BY <1>1 DEF TypeOK
<1>4. Live' = Live /\ Stored' = Stored
  BY <1>1 DEF Live, Ids, Stored
<1>5. \A q \in Requests : Fresh(req[q])'
  BY <1>1, <1>2, <1>3, <1>4 DEF Fresh, Holding
<1>6. Owing[r] = req[r].delta /\ Owing'[r] = 0
  BY <1>1, <1>3 DEF Owing
<1>7. /\ Total(Owing, Requests) \in Int
      /\ Total(Owing', Requests) = Total(Owing, Requests) + (0 - req[r].delta)
  BY <1>1, <1>6, OwedBy
<1>8. used \in Int /\ req[r].delta \in Int
  BY <1>1, HeldTypes DEF TypeOK
<1>9. used' + Total(Owing', Requests) = Total(Stored', Live')
  BY <1>1, <1>2, <1>4, <1>7, <1>8 DEF Balanced
<1> QED BY <1>5, <1>9 DEF Balanced

\* The request is to count what the rows have changed by.
LEMMA OwedNow ==
  ASSUME TypeOK, TypeOK', Balanced, NEW r \in Requests, NEW held, NEW change \in Int,
         req' = [req EXCEPT ![r] = held], req[r].pc # "count",
         held.pc = "count", held.delta = change, UNCHANGED used,
         Total(Stored', Live') = Total(Stored, Live) + change
  PROVE  Balanced'
<1>1. req'[r] = held
  BY DEF TypeOK
<1>2. Owing[r] = 0 /\ Owing'[r] = change
  BY <1>1 DEF Owing
<1>3. /\ Total(Owing, Requests) \in Int
      /\ Total(Owing', Requests) = Total(Owing, Requests) + (change - 0)
  BY <1>2, OwedBy
<1>4. used \in Int
  BY DEF TypeOK
<1>5. used' + Total(Owing', Requests) = Total(Stored', Live')
  BY <1>3, <1>4 DEF Balanced
<1> QED BY <1>5 DEF Balanced

LEMMA CreateLedger ==
  ASSUME TypeOK, TypeOK', LedgerInv, NEW r \in Requests, UploadCreate(r)
  PROVE  LedgerInv'
<1> SUFFICES ASSUME ~torn' PROVE (\A q \in Requests : Fresh(req[q])') /\ Balanced'
  BY DEF LedgerInv
<1>1. PICK q, held, row, new :
        /\ q = req[r] /\ new = Len(files) + 1
        /\ held = [pc |-> "count", delta |-> q.size, left |-> q.left]
        /\ row = [deleted |-> FALSE, size |-> q.size, current |-> 1]
  OBVIOUS
<1>2. /\ req' = [req EXCEPT ![r] = held] /\ q.pc = "create" /\ files' = Append(files, row)
      /\ UNCHANGED <<used, torn>>
  BY <1>1 DEF UploadCreate, Continue
<1>3. (\A s \in Requests : Fresh(req[s])) /\ Balanced
  BY <1>2 DEF LedgerInv
<1>4. req'[r] = held /\ \A s \in Requests \ {r} : req'[s] = req[s]
  BY <1>2 DEF TypeOK
<1>5. files \in Seq(FileRows) /\ Len(files) \in Nat /\ Ids = 1 .. Len(files)
  BY DEF TypeOK, Ids
<1>6. /\ Ids' = Ids \cup {new} /\ new \notin Ids /\ files'[new] = row
      /\ \A f \in Ids : files'[f] = files[f]
  BY <1>1, <1>2, <1>5 DEF Ids
<1>7. Live' = Live \cup {new} /\ new \notin Live
  BY <1>1, <1>6 DEF Live
<1>8. \A s \in Requests : Fresh(req[s])'
  <2>1. Fresh(held)'
    BY <1>1 DEF Fresh, Holding
  <2> QED BY <1>3, <1>4, <1>6, <1>7, <2>1 DEF Fresh, Holding, Live
<1>9. q.size \in Nat
  BY <1>1, <1>2, HeldTypes
<1>10. PICK w, v, S : w = Stored /\ v = Stored' /\ S = Live
  OBVIOUS
<1>11. w \in [S -> Int] /\ IsFiniteSet(S)
  BY <1>10, LedgerTypes
<1>12. v \in [S \cup {new} -> Int] /\ v[new] = q.size /\ \A f \in S : v[f] = w[f]
  <2>1. v = [f \in S \cup {new} |-> files'[f].size]
    BY <1>7, <1>10 DEF Stored
  <2>2. files'[new].size = q.size /\ \A f \in S : files'[f].size = w[f] /\ w[f] \in Int
    BY <1>1, <1>6, <1>10, <1>11 DEF Stored, Live
  <2> QED BY <1>9, <2>1, <2>2
<1>13. Total(v, S \cup {new}) = Total(w, S) + q.size
  BY <1>7, <1>10, <1>11, <1>12, OneMore
<1>14. Balanced'
  <2>1. Total(Stored', Live') = Total(Stored, Live) + q.size
    BY <1>7, <1>10, <1>13
  <2>2. held.pc = "count" /\ held.delta = q.size /\ q.size \in Int /\ req[r].pc # "count"
    BY <1>1, <1>2, <1>9
  <2> QED BY <1>2, <1>3, <2>1, <2>2, OwedNow
<1> QED BY <1>8, <1>14

LEMMA MarkLedger ==
  ASSUME TypeOK, TypeOK', NewestInv, LedgerInv, NEW r \in Requests, RemoveMark(r)
  PROVE  LedgerInv'
<1> SUFFICES ASSUME ~torn' PROVE (\A q \in Requests : Fresh(req[q])') /\ Balanced'
  BY DEF LedgerInv
<1>1. PICK q, f, held :
        /\ q = req[r] /\ f = q.file
        /\ held = [pc |-> "count", delta |-> -q.size, left |-> 0]
  OBVIOUS
<1>2. /\ req' = [req EXCEPT ![r] = held] /\ q.pc = "mark" /\ UNCHANGED <<used, torn>>
      /\ files' = [files EXCEPT ![f].deleted = TRUE]
  BY <1>1 DEF RemoveMark, Continue
<1>3. (\A s \in Requests : Fresh(req[s])) /\ Balanced /\ Alone
  BY <1>2 DEF LedgerInv, NewestInv
<1>4. req'[r] = held /\ \A s \in Requests \ {r} : req'[s] = req[s]
  BY <1>2 DEF TypeOK
<1>5. f \in Live /\ files[f].size = q.size
  BY <1>1, <1>2, <1>3 DEF Fresh, Holding
<1>6. f \in Ids /\ files[f] \in FileRows
  BY <1>5, FileRow DEF Live
<1>7. /\ Ids' = Ids /\ files'[f].deleted /\ \A g \in Ids \ {f} : files'[g] = files[g]
  BY <1>2, <1>6 DEF Ids, FileRows
<1>8. Live = Live' \cup {f} /\ f \notin Live' /\ Live' \subseteq Live
  BY <1>5, <1>7 DEF Live
<1>9. \A s \in Requests : Fresh(req[s])'
  <2>1. Fresh(held)'
    BY <1>1 DEF Fresh, Holding
  <2>2. ASSUME NEW s \in Requests \ {r}, req[s].pc \in Holding
        PROVE  /\ req[s].file \in Live'
               /\ files'[req[s].file] = files[req[s].file]
    <3>1. req[s].file # f /\ req[s].file \in Live
      BY <1>1, <1>2, <1>3, <2>2 DEF Alone, Holding, Fresh
    <3> QED BY <1>7, <1>8, <3>1 DEF Live
  <2> QED BY <1>3, <1>4, <2>1, <2>2 DEF Fresh
<1>10. PICK w, v, S : w = Stored' /\ v = Stored /\ S = Live'
  OBVIOUS
<1>11. v \in [S \cup {f} -> Int] /\ IsFiniteSet(S) /\ v[f] = q.size
  <2>1. v \in [Live -> Int] /\ IsFiniteSet(Live)
    BY <1>10, LedgerTypes
  <2>2. v[f] = q.size
    BY <1>5, <1>10 DEF Stored
  <2> QED BY <1>8, <1>10, <2>1, <2>2, FS_Subset
<1>12. w \in [S -> Int] /\ \A g \in S : v[g] = w[g]
  <2>1. \A g \in S : files'[g].size = v[g] /\ v[g] \in Int
    BY <1>7, <1>8, <1>10, <1>11 DEF Stored, Live
  <2>2. w = [g \in S |-> files'[g].size]
    BY <1>10 DEF Stored
  <2> QED BY <2>1, <2>2
<1>13. Total(w, S) \in Int /\ Total(v, S \cup {f}) = Total(w, S) + q.size
  BY <1>8, <1>10, <1>11, <1>12, OneMore
<1>14. Balanced'
  <2>1. q.size \in Nat
    BY <1>1, <1>2, HeldTypes
  <2>2. Total(Stored', Live') = Total(Stored, Live) + (-q.size)
    BY <1>8, <1>10, <1>13, <2>1
  <2>3. held.pc = "count" /\ held.delta = -q.size /\ -q.size \in Int /\ req[r].pc # "count"
    BY <1>1, <1>2, <2>1
  <2> QED BY <1>2, <1>3, <2>2, <2>3, OwedNow
<1> QED BY <1>9, <1>14

LEMMA PointLedger ==
  ASSUME TypeOK, TypeOK', NewestInv, LedgerInv, NEW r \in Requests, VersionPoint(r)
  PROVE  LedgerInv'
<1> SUFFICES ASSUME ~torn' PROVE (\A q \in Requests : Fresh(req[q])') /\ Balanced'
  BY DEF LedgerInv
<1>1. PICK q, f, held :
        /\ q = req[r] /\ f = q.file
        /\ held = [pc |-> "count", delta |-> q.size - q.old, left |-> 0]
  OBVIOUS
<1>2. /\ req' = [req EXCEPT ![r] = held] /\ q.pc = "point" /\ UNCHANGED <<used, torn>>
      /\ files' = [files EXCEPT ![f].current = q.number, ![f].size = q.size]
  BY <1>1 DEF VersionPoint, VersionDelta, Continue
<1>3. (\A s \in Requests : Fresh(req[s])) /\ Balanced /\ Alone
  BY <1>2 DEF LedgerInv, NewestInv
<1>4. req'[r] = held /\ \A s \in Requests \ {r} : req'[s] = req[s]
  BY <1>2 DEF TypeOK
<1>5. f \in Live /\ files[f].size = q.old
  BY <1>1, <1>2, <1>3 DEF Fresh, Holding
<1>6. f \in Ids /\ files[f] \in FileRows
  BY <1>5, FileRow DEF Live
<1>7. /\ Ids' = Ids /\ files'[f].deleted = files[f].deleted /\ files'[f].size = q.size
      /\ \A g \in Ids \ {f} : files'[g] = files[g]
  BY <1>2, <1>6 DEF Ids, FileRows
<1>8. Live' = Live
  BY <1>7 DEF Live
<1>9. \A s \in Requests : Fresh(req[s])'
  <2>1. Fresh(held)'
    BY <1>1 DEF Fresh, Holding
  <2>2. ASSUME NEW s \in Requests \ {r}, req[s].pc \in Holding
        PROVE  /\ req[s].file \in Live'
               /\ files'[req[s].file] = files[req[s].file]
    <3>1. req[s].file # f /\ req[s].file \in Live
      BY <1>1, <1>2, <1>3, <2>2 DEF Alone, Holding, Fresh
    <3> QED BY <1>7, <1>8, <3>1 DEF Live
  <2> QED BY <1>3, <1>4, <2>1, <2>2 DEF Fresh
<1>10. PICK w, v, S : w = Stored /\ v = Stored' /\ S = Live
  OBVIOUS
<1>11. q.size \in Nat /\ q.old \in Nat
  BY <1>1, <1>2, HeldTypes
<1>12. w \in [S -> Int] /\ IsFiniteSet(S) /\ w[f] = q.old
  BY <1>5, <1>10, LedgerTypes DEF Stored
<1>13. v \in [S -> Int] /\ v[f] = q.size /\ \A g \in S \ {f} : v[g] = w[g]
  <2>1. v = [g \in S |-> files'[g].size]
    BY <1>8, <1>10 DEF Stored
  <2>2. \A g \in S \ {f} : files'[g].size = w[g] /\ w[g] \in Int
    BY <1>7, <1>10, <1>12 DEF Stored, Live
  <2> QED BY <1>5, <1>7, <1>10, <1>11, <2>1, <2>2
<1>14. Total(v, S) = Total(w, S) + (q.size - q.old)
  BY <1>5, <1>10, <1>12, <1>13, OneChanges
<1>15. Balanced'
  <2>1. Total(Stored', Live') = Total(Stored, Live) + (q.size - q.old)
    BY <1>8, <1>10, <1>14
  <2>2. /\ held.pc = "count" /\ held.delta = q.size - q.old /\ q.size - q.old \in Int
        /\ req[r].pc # "count"
    BY <1>1, <1>2, <1>11
  <2> QED BY <1>2, <1>3, <2>1, <2>2, OwedNow
<1> QED BY <1>9, <1>15

LEMMA LedgerStep ==
  ASSUME TypeOK, TypeOK', NewestInv, LedgerInv, [Next]_vars
  PROVE  LedgerInv'
<1>1. ASSUME NEW r \in Requests, NEW held, Begin(r, held) \/ Continue(r, held),
             UNCHANGED <<files, used>>, ~torn' => ~torn,
             ~torn => req[r].pc # "count" /\ held.pc # "count" /\ Fresh(held)
      PROVE  LedgerInv'
  BY <1>1, LedgerKept DEF Begin, Continue
<1>2. ASSUME NEW r \in Requests, NEW held, held.pc \notin Holding \cup {"count"},
             Begin(r, held) \/ Continue(r, held),
             UNCHANGED <<files, used, torn>>, req[r].pc # "count"
      PROVE  LedgerInv'
  <2>1. Fresh(held)
    BY <1>2 DEF Fresh
  <2> QED BY <1>1, <1>2, <2>1
<1>3. ASSUME NEW r \in Requests, NEW f \in Ids, RemoveRead(r, f) PROVE LedgerInv'
  <2>1. PICK held : held = [pc |-> "mark", file |-> f, size |-> files[f].size]
    OBVIOUS
  <2>2. f \in Live /\ Begin(r, held) /\ UNCHANGED <<files, used>> /\ (~torn' => ~torn)
    BY <1>3, <2>1 DEF RemoveRead, rows
  <2>3. Fresh(held) /\ held.pc # "count" /\ req[r].pc # "count"
    BY <2>1, <2>2 DEF Fresh, Begin, Idle
  <2> QED BY <1>1, <2>2, <2>3
<1>4. ASSUME NEW r \in Requests, NEW f \in Ids, NEW size \in Sizes, VersionSave(r, f, size)
      PROVE  LedgerInv'
  <2>1. PICK held : held = [pc |-> "latest", file |-> f, size |-> size, blob |-> NewPath,
                            old |-> files[f].size]
    OBVIOUS
  <2>2. f \in Live /\ Begin(r, held) /\ UNCHANGED <<files, used>> /\ (~torn' => ~torn)
    BY <1>4, <2>1 DEF VersionSave, rows
  <2>3. Fresh(held) /\ held.pc # "count" /\ req[r].pc # "count"
    BY <2>1, <2>2 DEF Fresh, Begin, Idle
  <2> QED BY <1>1, <2>2, <2>3
<1>5. ASSUME NEW r \in Requests, VersionLatest(r) \/ VersionInsert(r) PROVE LedgerInv'
  <2>1. PICK q, inserts, points :
          /\ q = req[r]
          /\ inserts = [pc |-> "insert", file |-> q.file, size |-> q.size, blob |-> q.blob,
                        old |-> q.old, number |-> NextNumber(q.file)]
          /\ points = [pc |-> "point", file |-> q.file, number |-> q.number,
                       size |-> q.size, old |-> q.old]
    OBVIOUS
  <2>2. /\ \E held \in {inserts, points, Idle} : Continue(r, held)
        /\ UNCHANGED <<files, used, torn>> /\ q.pc \in {"latest", "insert"}
    BY <1>5, <2>1 DEF VersionLatest, VersionInsert, rows
  <2>3. ASSUME NEW held \in {inserts, points, Idle}, ~torn
        PROVE  Fresh(held) /\ held.pc # "count"
    <3>1. Fresh(q)
      BY <2>1, <2>3 DEF LedgerInv
    <3> QED BY <2>1, <2>2, <2>3, <3>1 DEF Fresh, Holding, Idle
  <2> QED BY <1>1, <2>1, <2>2, <2>3
<1>6. ASSUME NEW r \in Requests,
             \/ \E size \in Sizes, left \in 0 .. MaxBatch - 1 : UploadSave(r, size, left)
             \/ CheckRead(r) \/ Track(r) \/ Mail(r)
      PROVE  LedgerInv'
  <2>1. UNCHANGED <<files, used, torn>>
    BY <1>6 DEF UploadSave, CheckRead, Track, Mail, rows
  <2>2. CASE \E size \in Sizes, left \in 0 .. MaxBatch - 1 : UploadSave(r, size, left)
    <3>1. req[r].pc # "count"
      <4>1. req[r] = Idle \/ req[r].pc = "next"
        BY <2>2, Zenon DEF UploadSave, Begin
      <4> QED BY <4>1 DEF Idle
    <3> QED BY <1>2, <2>1, <2>2, <3>1 DEF UploadSave, Holding
  <2>3. CASE CheckRead(r)
    BY <1>2, <2>1, <2>3 DEF CheckRead, Idle, Holding
  <2>4. CASE Track(r)
    BY <1>2, <2>1, <2>4 DEF Track, Idle, Holding
  <2>5. CASE Mail(r)
    BY <1>2, <2>1, <2>5 DEF Mail, Idle, Holding
  <2> QED BY <1>6, <2>2, <2>3, <2>4, <2>5
<1>7. ASSUME NEW r \in Requests, Abort(r) PROVE LedgerInv'
  <2>1. /\ UNCHANGED <<files, used>> /\ req' = [req EXCEPT ![r] = Idle]
        /\ ~torn' => ~torn /\ req[r].pc # "count"
    BY <1>7 DEF Abort, rows
  <2>2. Fresh(Idle) /\ Idle.pc # "count"
    BY DEF Fresh, Idle, Holding
  <2> QED BY <2>1, <2>2, LedgerKept
<1>8. CASE UNCHANGED vars
  <2>1. Live' = Live /\ Stored' = Stored /\ Owing' = Owing /\ UNCHANGED <<used, torn, req, files>>
    BY <1>8 DEF vars, Live, Ids, Stored, Owing
  <2> QED BY <2>1 DEF LedgerInv, Balanced, Fresh
<1> QED BY <1>3, <1>4, <1>5, <1>6, <1>7, <1>8, CountLedger, CreateLedger, MarkLedger,
           PointLedger DEF Next, Step, Elsewhere

LEMMA InitLedger == Init => LedgerInv
<1> SUFFICES ASSUME Init PROVE Balanced /\ \A r \in Requests : Fresh(req[r])
  BY DEF LedgerInv
<1>1. Owing \in [Requests -> Int] /\ \A r \in Requests : Owing[r] = 0
  BY DEF Init, Owing, Idle
<1>2. Total(Owing, Requests) = 0
  BY <1>1, NoWeight, RequestsAssumption
<1>3. Live = {} /\ Stored \in [Live -> Int]
  BY DEF Init, Live, Ids, Stored
<1>4. Total(Stored, Live) = 0
  BY <1>3, NoWeight, FS_EmptySet
<1>5. \A r \in Requests : Fresh(req[r])
  BY DEF Init, Fresh, Idle, Holding
<1> QED BY <1>2, <1>4, <1>5 DEF Init, Balanced

\* The books balance for any number of requests on different files, any sizes and
\* batches of any length: what the counter lacks is what requests in flight are still to
\* count, for a file is held by one request, and has the size it read (:129-132,
\* :186-189, :249-252).
THEOREM BooksBalance == Spec => []LedgerBalances
<1>1. LedgerInv => LedgerBalances
  BY LedgerSums DEF LedgerInv
<1>2. IInv /\ IInv' /\ NewestInv /\ NewestInv' /\ LedgerInv /\ [Next]_vars => LedgerInv'
  BY LedgerStep DEF IInv
<1>3. IInv /\ IInv' /\ NewestInv /\ [Next]_vars => NewestInv'
  BY NewestStep DEF IInv
<1> QED BY <1>1, <1>2, <1>3, InitLedger, InitNewest, Inductive, PTL DEF Spec
=============================================================================
