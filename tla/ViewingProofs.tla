--------------------------- MODULE ViewingProofs ----------------------------
(***************************************************************************)
(* What Viewing guarantees for every number of accounts, requests, rows    *)
(* and contents: its types, that nothing leaves unrecorded, that no row    *)
(* lacks its content, a restored backup included, and what a reader of all *)
(* pages can miss.                                                         *)
(***************************************************************************)
EXTENDS Viewing, FiniteSetTheorems, TLAPS

Reads == {"FILE_VIEWED", "FILE_DOWNLOADED"}

\* What a request between two awaits refers to is there, and nothing is in flight
\* while the backend is down.
TypeInv ==
  /\ TypeOK
  /\ backup.marks \subseteq DOMAIN backup.trail
  /\ ~up => \A r \in Requests : req[r] = Idle
  /\ \A r \in Requests :
       /\ req[r].pc = "keep" => req[r].path \in DOMAIN contents
       /\ req[r].pc = "mark" => req[r].row \in DOMAIN trail
       /\ req[r].pc \in {"convert", "keep", "stamp", "record"} => req[r].op # "upload"

Copies == [taken : 0 .. 2, restored : 0 .. 2, versions : Seq(VersionRows),
           trail : Seq(Rows), marks : SUBSET Nat, contents : Seq(Nat)]

\* How far the restore has come is all that a restore writes of the copies.
LEMMA Restoring ==
  ASSUME NEW b \in Copies, NEW n \in 0 .. 2
  PROVE  /\ [b EXCEPT !.restored = n] \in Copies
         /\ [b EXCEPT !.restored = n].marks = b.marks
         /\ [b EXCEPT !.restored = n].trail = b.trail
         /\ [b EXCEPT !.restored = n].versions = b.versions
         /\ [b EXCEPT !.restored = n].contents = b.contents
         /\ [b EXCEPT !.restored = n].taken = b.taken
         /\ [b EXCEPT !.restored = n].restored = n
BY DEF Copies

\* An element of a sequence replaced.
LEMMA Replaced ==
  ASSUME NEW S, NEW s \in Seq(S), NEW i, NEW x, i \in DOMAIN s => x \in S
  PROVE  [s EXCEPT ![i] = x] \in Seq(S)
<1> DEFINE t == [s EXCEPT ![i] = x]
<1>1. DOMAIN t = 1 .. Len(s) /\ Len(s) \in Nat
  OBVIOUS
<1>2. \A k \in 1 .. Len(s) : t[k] \in S
  OBVIOUS
<1>3. t = [k \in 1 .. Len(s) |-> t[k]]
  OBVIOUS
<1> HIDE DEF t
<1>4. t \in [1 .. Len(s) -> S]
  BY <1>2, <1>3
<1> QED BY <1>1, <1>4 DEF t

\* Hold and Begin write one slot.
LEMMA Slot ==
  ASSUME TypeOK, NEW r \in Requests, NEW held \in {Idle} \cup Held,
         Hold(r, held) \/ Begin(r, held)
  PROVE  /\ req' \in [Requests -> {Idle} \cup Held]
         /\ req'[r] = held
         /\ \A q \in Requests : q # r => req'[q] = req[q]
         /\ begun' \in Nat
<1>1. begun' \in Nat /\ req' = [req EXCEPT ![r] = held]
  BY DEF TypeOK, Hold, Begin
<1>2. req \in [Requests -> {Idle} \cup Held]
  BY DEF TypeOK
<1> QED BY <1>1, <1>2

\* A slot that is not idle holds a request, and the backend runs.
LEMMA Holding ==
  ASSUME TypeInv, NEW r \in Requests, req[r].pc # "idle"
  PROVE  req[r] \in Held /\ up
BY DEF TypeInv, TypeOK, Idle

LEMMA NewHeld ==
  ASSUME NEW pc \in {"insert", "convert", "stamp"},
         NEW op \in {"upload", "FILE_VIEWED", "FILE_DOWNLOADED", "REPORT_EXPORTED"},
         NEW u \in Users, NEW v \in Nat, NEW path \in Nat
  PROVE  New(pc, op, u, v, path) \in Held
BY DEF New, Held

\* record adds one row at the end.
LEMMA RecordAppends ==
  ASSUME TypeOK, NEW action \in {"FILE_VIEWED", "FILE_DOWNLOADED", "REPORT_EXPORTED", "OTHER"},
         NEW u \in Users, NEW v \in Nat, NEW at \in Nat, Record(action, u, v, at)
  PROVE  /\ trail' \in Seq(Rows)
         /\ DOMAIN trail \subseteq DOMAIN trail' /\ Len(trail) + 1 \in DOMAIN trail'
         /\ \A i \in DOMAIN trail : trail'[i] = trail[i]
         /\ trail'[Len(trail) + 1] = [action |-> action, user |-> u, version |-> v, at |-> at]
<1>1. [action |-> action, user |-> u, version |-> v, at |-> at] \in Rows
  BY DEF Rows
<1> QED BY <1>1 DEF Record, TypeOK

\* A content is added under a path of its own.
LEMMA StoreAppends ==
  ASSUME TypeOK, NEW from \in Nat, Store(from)
  PROVE  /\ contents' \in Seq(Nat)
         /\ DOMAIN contents \subseteq DOMAIN contents' /\ Len(contents) + 1 \in DOMAIN contents'
         /\ \A p \in DOMAIN contents : contents'[p] = contents[p]
         /\ contents'[Len(contents) + 1] = from
BY DEF Store, TypeOK

-----------------------------------------------------------------------------
(* Types *)

LEMMA InitTypes == Init => TypeInv
<1> SUFFICES ASSUME Init PROVE TypeInv
  OBVIOUS
<1>1. req \in [Requests -> {Idle} \cup Held] /\ \A r \in Requests : req[r].pc = "idle"
  BY DEF Init, Idle
<1>2. backup \in [taken : 0 .. 2, restored : 0 .. 2, versions : Seq(VersionRows),
                  trail : Seq(Rows), marks : SUBSET Nat, contents : Seq(Nat)]
  BY DEF Init
<1>3. trail \in Seq(Rows) /\ marks \in SUBSET (DOMAIN trail) /\ now \in Nat
  BY DEF Init, TrailInit
<1> QED BY <1>1, <1>2, <1>3 DEF Init, TypeInv, TypeOK

\* A step of a request: what it must show of what it writes and holds next.
LEMMA StepTypes ==
  ASSUME TypeInv, NEW r \in Requests, NEW held \in {Idle} \cup Held,
         Hold(r, held) \/ Begin(r, held), up, UNCHANGED system, now' = now,
         trail' \in Seq(Rows), DOMAIN trail \subseteq DOMAIN trail',
         marks' \subseteq DOMAIN trail',
         versions' \in Seq(VersionRows),
         contents' \in Seq(Nat), DOMAIN contents \subseteq DOMAIN contents',
         served' \in SUBSET [row : Nat, path : Nat],
         crossed' \in SUBSET Nat, cut' \in SUBSET Nat,
         held.pc = "keep" => held.path \in DOMAIN contents',
         held.pc = "mark" => held.row \in DOMAIN trail',
         held.pc \in {"convert", "keep", "stamp", "record"} => held.op # "upload"
  PROVE  TypeInv'
<1>1. /\ req' \in [Requests -> {Idle} \cup Held]
      /\ req'[r] = held
      /\ \A q \in Requests : q # r => req'[q] = req[q]
      /\ begun' \in Nat
  BY Slot DEF TypeInv
<1>2. \A q \in Requests :
        /\ req'[q].pc = "keep" => req'[q].path \in DOMAIN contents'
        /\ req'[q].pc = "mark" => req'[q].row \in DOMAIN trail'
        /\ req'[q].pc \in {"convert", "keep", "stamp", "record"} => req'[q].op # "upload"
  BY <1>1 DEF TypeInv
<1> QED BY <1>1, <1>2 DEF TypeInv, TypeOK, system

\* The same of a step that writes no row and no content.
LEMMA MoveTypes ==
  ASSUME TypeInv, NEW r \in Requests, NEW held \in {Idle} \cup Held,
         Hold(r, held) \/ Begin(r, held), up, UNCHANGED <<audit, files, system>>,
         served' \in SUBSET [row : Nat, path : Nat],
         crossed' \in SUBSET Nat, cut' \in SUBSET Nat,
         held.pc = "keep" => held.path \in DOMAIN contents,
         held.pc = "mark" => held.row \in DOMAIN trail,
         held.pc \in {"convert", "keep", "stamp", "record"} => held.op # "upload"
  PROVE  TypeInv'
<1>1. /\ trail' = trail /\ marks' = marks /\ now' = now
      /\ versions' = versions /\ contents' = contents /\ UNCHANGED system
  BY DEF audit, files
<1> QED BY <1>1, StepTypes DEF TypeInv, TypeOK

LEMMA SaveVersionTypes ==
  ASSUME TypeInv, NEW r \in Requests, NEW u \in Users, SaveVersion(r, u)
  PROVE  TypeInv'
<1> DEFINE held == New("insert", "upload", u, 0, Len(contents) + 1)
<1>1. held \in Held /\ held.pc = "insert"
  <2>1. Len(contents) + 1 \in Nat
    BY DEF TypeInv, TypeOK
  <2> QED BY <2>1, NewHeld DEF New
<1>2. contents' \in Seq(Nat) /\ DOMAIN contents \subseteq DOMAIN contents'
  BY StoreAppends DEF SaveVersion, TypeInv
<1>3. Begin(r, held) /\ up
  BY DEF SaveVersion, Begin
<1> HIDE DEF held
<1> QED BY <1>1, <1>2, <1>3, StepTypes DEF SaveVersion, TypeInv, TypeOK, audit

LEMMA InsertVersionTypes ==
  ASSUME TypeInv, NEW r \in Requests, InsertVersion(r)
  PROVE  TypeInv'
<1>1. req[r] \in Held /\ up
  BY Holding DEF InsertVersion
<1>2. [path |-> req[r].path, pdf |-> 0] \in VersionRows
  BY <1>1 DEF Held, VersionRows
<1>3. versions' \in Seq(VersionRows)
  BY <1>2 DEF InsertVersion, TypeInv, TypeOK
<1>4. Hold(r, Idle) /\ Idle.pc = "idle"
  BY DEF InsertVersion, End, Idle
<1> QED BY <1>1, <1>3, <1>4, StepTypes DEF InsertVersion, TypeInv, TypeOK, audit

LEMMA ReadVersionTypes ==
  ASSUME TypeInv, NEW r \in Requests, NEW u \in Users, NEW action \in Reads,
         NEW v \in DOMAIN versions, ReadVersion(r, u, action, v)
  PROVE  TypeInv'
<1>1. v \in Nat /\ versions[v].path \in Nat /\ versions[v].pdf \in Nat
  <2>1. versions[v] \in VersionRows
    BY DEF TypeInv, TypeOK
  <2> QED BY <2>1 DEF VersionRows, TypeInv, TypeOK
<1> DEFINE path == IF office THEN versions[v].pdf ELSE versions[v].path
           converts == New("convert", action, u, v, versions[v].path)
           stamps == New("stamp", action, u, v, path)
<1>2. /\ converts \in Held /\ stamps \in Held
      /\ converts.pc = "convert" /\ stamps.pc = "stamp"
      /\ converts.op # "upload" /\ stamps.op # "upload"
  BY <1>1, NewHeld DEF New, Reads
<1>3. Begin(r, converts) \/ Begin(r, stamps)
  BY DEF ReadVersion
<1>4. crossed' \in SUBSET Nat
  BY <1>1 DEF ReadVersion, TypeInv, TypeOK
<1> HIDE DEF converts, stamps
<1>5. up
  BY <1>3 DEF Begin
<1> QED BY <1>2, <1>3, <1>4, <1>5, MoveTypes DEF ReadVersion, TypeInv, TypeOK

LEMMA ConvertTypes ==
  ASSUME TypeInv, NEW r \in Requests, Convert(r)
  PROVE  TypeInv'
<1>1. req[r] \in Held /\ up
  BY Holding DEF Convert
<1> DEFINE held == [req[r] EXCEPT !.pc = "keep", !.path = Len(contents) + 1]
<1>2. CASE Store(req[r].path) /\ Hold(r, held)
  <2>1. Len(contents) + 1 \in Nat
    BY DEF TypeInv, TypeOK
  <2>2. held \in Held /\ held.pc = "keep" /\ held.path = Len(contents) + 1 /\ held.op = req[r].op
    BY <1>1, <2>1 DEF Held
  <2>3. req[r].path \in Nat
    BY <1>1 DEF Held
  <2>4. /\ contents' \in Seq(Nat)
        /\ DOMAIN contents \subseteq DOMAIN contents' /\ Len(contents) + 1 \in DOMAIN contents'
    BY <1>2, <2>3, StoreAppends DEF TypeInv
  <2> HIDE DEF held
  <2> QED BY <1>1, <1>2, <2>2, <2>4, StepTypes DEF Convert, TypeInv, TypeOK, audit
<1>3. CASE End(r) /\ UNCHANGED contents
  BY <1>1, <1>3, MoveTypes DEF Convert, End, Idle, TypeInv, TypeOK, files
<1> QED BY <1>2, <1>3 DEF Convert

LEMMA KeepTypes ==
  ASSUME TypeInv, NEW r \in Requests, Keep(r)
  PROVE  TypeInv'
<1>1. req[r] \in Held /\ up
  BY Holding DEF Keep
<1>2. CASE triggers
  <2>1. cut' \in SUBSET Nat
    <3>1. req[r].path \in DOMAIN contents
      BY DEF Keep, TypeInv
    <3>2. contents[req[r].path] \in Nat
      BY <3>1 DEF TypeInv, TypeOK
    <3> QED BY <1>2, <3>2 DEF Keep, TypeInv, TypeOK
  <2> QED BY <1>1, <1>2, <2>1, MoveTypes DEF Keep, End, Idle, TypeInv, TypeOK, files
<1>3. CASE ~triggers
  <2> DEFINE held == [req[r] EXCEPT !.pc = "stamp"]
             path == req[r].path
             v == req[r].version
             row == [versions[v] EXCEPT !.pdf = path]
  <2>1. held \in Held /\ held.pc = "stamp" /\ held.op = req[r].op
    BY <1>1 DEF Held
  <2>2. path \in Nat
    BY <1>1 DEF Held
  <2>3. versions' = [versions EXCEPT ![v] = row]
    BY <1>3 DEF Keep
  <2>4. Hold(r, held)
    BY <1>3 DEF Keep, Move
  <2> HIDE DEF held, path, v
  <2>5. v \in DOMAIN versions => row \in VersionRows
    <3>1. v \in DOMAIN versions => versions[v] \in VersionRows
      BY DEF TypeInv, TypeOK
    <3> QED BY <2>2, <3>1 DEF VersionRows
  <2>6. versions \in Seq(VersionRows)
    BY DEF TypeInv, TypeOK
  <2>7. versions' \in Seq(VersionRows)
    <3> HIDE DEF row
    <3> QED BY <2>3, <2>5, <2>6, Replaced
  <2> QED BY <1>1, <1>3, <2>1, <2>4, <2>7, StepTypes DEF Keep, TypeInv, TypeOK, audit
<1> QED BY <1>2, <1>3

LEMMA StampTypes ==
  ASSUME TypeInv, NEW r \in Requests, Stamp(r)
  PROVE  TypeInv'
<1>1. req[r] \in Held /\ up
  BY Holding DEF Stamp
<1> DEFINE held == [req[r] EXCEPT !.pc = "record", !.at = now]
<1>2. now \in Nat
  BY DEF TypeInv, TypeOK
<1>3. held \in Held /\ held.pc = "record" /\ held.op = req[r].op
  BY <1>1, <1>2 DEF Held
<1>4. Hold(r, held)
  BY DEF Stamp
<1> HIDE DEF held
<1> QED BY <1>1, <1>3, <1>4, MoveTypes DEF Stamp, TypeInv, TypeOK

\* The row recorded is the request's own, and it holds its id.
LEMMA Recorded ==
  ASSUME TypeInv, NEW r \in Requests, RecordRow(r)
  PROVE  /\ trail' \in Seq(Rows)
         /\ DOMAIN trail \subseteq DOMAIN trail' /\ Len(trail) + 1 \in DOMAIN trail'
         /\ \A i \in DOMAIN trail : trail'[i] = trail[i]
         /\ trail'[Len(trail) + 1] = [action |-> req[r].op, user |-> req[r].user,
                                      version |-> req[r].version, at |-> req[r].at]
<1>1. req[r] \in Held
  BY Holding DEF RecordRow
<1>2. /\ req[r].op \in {"FILE_VIEWED", "FILE_DOWNLOADED", "REPORT_EXPORTED"}
      /\ req[r].user \in Users /\ req[r].version \in Nat /\ req[r].at \in Nat
  <2>1. req[r].op # "upload"
    BY DEF RecordRow, TypeInv
  <2> QED BY <1>1, <2>1 DEF Held
<1> QED BY <1>2, RecordAppends DEF RecordRow, TypeInv

LEMMA RecordRowTypes ==
  ASSUME TypeInv, NEW r \in Requests, RecordRow(r)
  PROVE  TypeInv'
<1>1. req[r] \in Held /\ up
  BY Holding DEF RecordRow
<1> DEFINE next == IF req[r].op = "REPORT_EXPORTED" THEN "send" ELSE "mark"
           held == [req[r] EXCEPT !.row = Len(trail) + 1, !.pc = next]
<1>2. Len(trail) + 1 \in Nat
  BY DEF TypeInv, TypeOK
<1>3. held \in Held /\ held.pc \in {"send", "mark"} /\ held.row = Len(trail) + 1
  BY <1>1, <1>2 DEF Held
<1>4. Hold(r, held)
  BY DEF RecordRow
<1> HIDE DEF held
<1> QED BY <1>1, <1>3, <1>4, Recorded, StepTypes DEF RecordRow, TypeInv, TypeOK, files

LEMMA MarkRowTypes ==
  ASSUME TypeInv, NEW r \in Requests, MarkRow(r)
  PROVE  TypeInv'
<1>1. req[r] \in Held /\ up
  BY Holding DEF MarkRow
<1> DEFINE held == [req[r] EXCEPT !.pc = "send"]
<1>2. held \in Held /\ held.pc = "send"
  BY <1>1 DEF Held
<1>3. Hold(r, held)
  BY DEF MarkRow, Move
<1>4. marks' \subseteq DOMAIN trail
  BY DEF MarkRow, Mark, TypeInv, TypeOK
<1> HIDE DEF held
<1> QED BY <1>1, <1>2, <1>3, <1>4, StepTypes DEF MarkRow, TypeInv, TypeOK, files

LEMMA SendTypes ==
  ASSUME TypeInv, NEW r \in Requests, Send(r)
  PROVE  TypeInv'
<1>1. req[r] \in Held /\ up
  BY Holding DEF Send
<1>2. [row |-> req[r].row, path |-> req[r].path] \in [row : Nat, path : Nat]
  BY <1>1 DEF Held
<1>3. served' \in SUBSET [row : Nat, path : Nat]
  BY <1>2 DEF Send, TypeInv, TypeOK
<1> QED BY <1>1, <1>3, MoveTypes DEF Send, End, Idle, TypeInv, TypeOK

LEMMA ExportTypes ==
  ASSUME TypeInv, NEW r \in Requests, NEW u \in Users, Export(r, u)
  PROVE  TypeInv'
<1> DEFINE held == New("stamp", "REPORT_EXPORTED", u, 0, 0)
<1>1. held \in Held /\ held.pc = "stamp" /\ held.op # "upload"
  BY NewHeld DEF New
<1>2. Begin(r, held) /\ up
  BY DEF Export, Begin
<1> HIDE DEF held
<1> QED BY <1>1, <1>2, MoveTypes DEF Export, TypeInv, TypeOK

LEMMA AbortTypes ==
  ASSUME TypeInv, NEW r \in Requests, Abort(r)
  PROVE  TypeInv'
<1>1. req[r] \in Held /\ up
  BY Holding DEF Abort, Busy
<1>2. cut' \in SUBSET Nat
  <2>1. \A q \in {r} : req[q].pc = "keep" => contents[req[q].path] \in Nat
    BY DEF TypeInv, TypeOK
  <2> QED BY <2>1 DEF Abort, TypeInv, TypeOK
<1> QED BY <1>1, <1>2, MoveTypes DEF Abort, End, Idle, TypeInv, TypeOK

\* Reading the log and waiting write no row.
LEMMA TrailTypes ==
  ASSUME TypeInv, TrailNext, UNCHANGED <<files, system, req, begun, served, crossed, cut>>
  PROVE  TypeInv' /\ marks' = marks /\ DOMAIN trail \subseteq DOMAIN trail'
         /\ \A i \in DOMAIN trail : trail'[i] = trail[i]
<1>1. now \in Nat
  BY DEF TypeInv, TypeOK
<1>2. /\ trail' \in Seq(Rows) /\ DOMAIN trail \subseteq DOMAIN trail'
      /\ \A i \in DOMAIN trail : trail'[i] = trail[i]
      /\ marks' = marks /\ now' \in Nat
  <2>1. ASSUME NEW u \in Users, Other(u) PROVE <1>2
    BY <1>1, <2>1, RecordAppends DEF Other, TypeInv
  <2>2. CASE Tick
    BY <1>1, <2>2 DEF Tick, TypeInv, TypeOK
  <2>3. CASE ~Tick /\ \A u \in Users : ~Other(u)
    <3>1. trail' = trail /\ marks' = marks /\ now' = now
      BY <2>3 DEF TrailNext, OpenLog, FindMany, Count, NextPage, Close
    <3> QED BY <1>1, <3>1 DEF TypeInv, TypeOK
  <2> QED BY <2>1, <2>2, <2>3
<1> QED BY <1>2 DEF TypeInv, TypeOK, files, system

LEMMA TakeCopyTypes == ASSUME TypeInv, TakeCopy PROVE TypeInv'
<1>1. backup.taken + 1 \in 0 .. 2
  BY DEF TakeCopy, TypeInv, TypeOK
<1>2. backup' \in [taken : 0 .. 2, restored : 0 .. 2, versions : Seq(VersionRows),
                   trail : Seq(Rows), marks : SUBSET Nat, contents : Seq(Nat)]
      /\ backup'.marks \subseteq DOMAIN backup'.trail
  <2>1. trail \in Seq(Rows) /\ marks \subseteq DOMAIN trail /\ versions \in Seq(VersionRows)
        /\ contents \in Seq(Nat)
    BY DEF TypeInv, TypeOK
  <2>2. marks \in SUBSET Nat
    BY <2>1
  <2>3. CASE BackupOrder[backup.taken + 1] = "db"
    <3>1. backup' = [backup EXCEPT !.taken = @ + 1, !.versions = versions, !.trail = trail,
                                   !.marks = marks]
      BY <2>3 DEF TakeCopy
    <3> QED BY <1>1, <2>1, <2>2, <3>1 DEF TypeInv, TypeOK
  <2>4. CASE BackupOrder[backup.taken + 1] # "db"
    <3>1. backup' = [backup EXCEPT !.taken = @ + 1, !.contents = contents]
      BY <2>4 DEF TakeCopy
    <3> QED BY <1>1, <2>1, <3>1 DEF TypeInv, TypeOK
  <2> QED BY <2>3, <2>4
<1> QED BY <1>2 DEF TakeCopy, TypeInv, TypeOK, audit, files

LEMMA StopTypes == ASSUME TypeInv, StopBackend PROVE TypeInv'
<1>1. req' \in [Requests -> {Idle} \cup Held] /\ \A r \in Requests : req'[r] = Idle
  BY DEF StopBackend
<1>2. Idle.pc = "idle"
  BY DEF Idle
<1> QED BY <1>1, <1>2 DEF StopBackend, TypeInv, TypeOK, files

LEMMA RestoreTypes == ASSUME TypeInv, RestoreDb \/ RestoreUploads PROVE TypeInv'
<1>1. \A r \in Requests : req'[r] = Idle
  BY DEF RestoreDb, RestoreUploads, TypeInv
<1>2. Idle.pc = "idle"
  BY DEF Idle
<1>3. CASE RestoreDb
  <2>1. backup \in Copies /\ backup' = [backup EXCEPT !.restored = 1]
    BY <1>3 DEF RestoreDb, TypeInv, TypeOK, Copies
  <2>2. /\ backup' \in Copies /\ backup.versions \in Seq(VersionRows)
        /\ backup.trail \in Seq(Rows)
        /\ backup'.marks = backup.marks /\ backup'.trail = backup.trail
    <3>1. 1 \in 0 .. 2
      OBVIOUS
    <3>2. backup.versions \in Seq(VersionRows) /\ backup.trail \in Seq(Rows)
      BY <2>1 DEF Copies
    <3> QED BY <2>1, <3>1, <3>2, Restoring
  <2> QED BY <1>1, <1>2, <1>3, <2>2 DEF RestoreDb, TypeInv, TypeOK, Copies
<1>4. CASE RestoreUploads
  <2>1. backup.contents \in Seq(Nat)
    BY DEF TypeInv, TypeOK
  <2>2. \A p \in DOMAIN backup.contents : backup.contents[p] \in Nat
    BY <2>1
  <2>3. cut' \in SUBSET Nat
    BY <1>4, <2>2 DEF RestoreUploads, TypeInv, TypeOK
  <2>4. backup \in Copies /\ backup' = [backup EXCEPT !.restored = 2]
    BY <1>4 DEF RestoreUploads, TypeInv, TypeOK, Copies
  <2>5. /\ backup' \in Copies
        /\ backup'.marks = backup.marks /\ backup'.trail = backup.trail
    <3>1. 2 \in 0 .. 2
      OBVIOUS
    <3> QED BY <2>4, <3>1, Restoring
  <2> QED BY <1>1, <1>2, <1>4, <2>1, <2>3, <2>5
         DEF RestoreUploads, TypeInv, TypeOK, audit, Copies
<1> QED BY <1>3, <1>4

LEMMA NextTypes == TypeInv /\ [Next]_vars => TypeInv'
<1> SUFFICES ASSUME TypeInv, [Next]_vars PROVE TypeInv'
  OBVIOUS
<1>1. ASSUME NEW r \in Requests, NEW u \in Users, SaveVersion(r, u) \/ Export(r, u)
      PROVE  TypeInv'
  BY <1>1, SaveVersionTypes, ExportTypes
<1>2. ASSUME NEW r \in Requests, NEW u \in Users, NEW action \in Reads,
             NEW v \in DOMAIN versions, ReadVersion(r, u, action, v)
      PROVE  TypeInv'
  BY <1>2, ReadVersionTypes
<1>3. ASSUME NEW r \in Requests, Step(r) \/ Abort(r) PROVE TypeInv'
  BY <1>3, InsertVersionTypes, ConvertTypes, KeepTypes, StampTypes, RecordRowTypes,
     MarkRowTypes, SendTypes, AbortTypes DEF Step
<1>4. CASE TakeCopy \/ StopBackend \/ RestoreDb \/ RestoreUploads
  BY <1>4, TakeCopyTypes, StopTypes, RestoreTypes
<1>5. CASE TrailNext /\ UNCHANGED <<files, system, req, begun, served, crossed, cut>>
  BY <1>5, TrailTypes
<1>6. CASE UNCHANGED vars
  BY <1>6 DEF vars, TypeInv, TypeOK, audit, files, system
<1> QED BY <1>1, <1>2, <1>3, <1>4, <1>5, <1>6 DEF Next, Reads

\* For any number of accounts, requests, rows and contents every state component has
\* its type, and a watermark row its audit row, across a restore too.
THEOREM TypeCorrect == Spec => []TypeOK
<1>1. TypeInv => TypeOK
  BY DEF TypeInv
<1> QED BY <1>1, InitTypes, NextTypes, PTL DEF Spec

-----------------------------------------------------------------------------
(* Rows and contents *)

\* The versions vs find their contents, and the PDFs made of them, in cs.
HasContent(vs, cs) ==
  \A v \in DOMAIN vs :
    /\ vs[v].path \in DOMAIN cs
    /\ cs[vs[v].path] = 0
    /\ vs[v].pdf # 0 => vs[v].pdf \in DOMAIN cs /\ cs[vs[v].pdf] = vs[v].path

\* What a request holds is what it has read and written so far.
Right(h) ==
  /\ h.pc = "insert" => h.path \in DOMAIN contents /\ contents[h.path] = 0
  /\ h.pc \in {"convert", "keep", "stamp", "record", "mark", "send"} =>
       /\ h.op = "FILE_DOWNLOADED" => h.user \notin Guests
       /\ IF h.op = "REPORT_EXPORTED" THEN h.path = 0
          ELSE /\ h.op \in Reads /\ h.version \in DOMAIN versions
               /\ h.path \in DOMAIN contents
               /\ versions[h.version].path = Original(h.path)
  /\ h.pc \in {"convert", "keep", "mark"} => h.op # "REPORT_EXPORTED"
  /\ h.pc = "convert" => contents[h.path] = 0
  /\ h.pc = "keep" => contents[h.path] # 0
  /\ h.pc \in {"mark", "send"} =>
       /\ h.row \in DOMAIN trail
       /\ trail[h.row].action = h.op /\ trail[h.row].user = h.user
       /\ trail[h.row].version = h.version
  /\ h.pc = "send" /\ h.op # "REPORT_EXPORTED" => h.row \in marks

\* What left, with the content it was made of.
Recording(c) ==
  /\ c.row \in DOMAIN trail
  /\ IF c.path = 0 THEN trail[c.row].action = "REPORT_EXPORTED"
     ELSE /\ c.row \in marks /\ trail[c.row].version \in DOMAIN versions
          /\ c.path \in DOMAIN contents
          /\ versions[trail[c.row].version].path = Original(c.path)
          /\ trail[c.row].action = "FILE_DOWNLOADED" => trail[c.row].user \notin Guests

\* The dump's rows find their contents in what is stored until the archive is
\* taken, and in the archive from then on.
Copied ==
  /\ backup.taken < 2 => HasContent(backup.versions, contents)
  /\ backup.taken = 2 => HasContent(backup.versions, backup.contents)
  /\ ~up => /\ backup.taken = 2
            /\ backup.restored = 1 => versions = backup.versions /\ served = {}

Safe ==
  /\ \A r \in Requests : Right(req[r])
  /\ up => HasContent(versions, contents)
  /\ up => \A c \in served : Recording(c)
  /\ Copied

LEMMA IdleRight == Right(Idle) /\ Right(Idle)'
BY DEF Right, Idle

\* Rows and contents are only added, and a version keeps its path.
Grow ==
  /\ DOMAIN trail \subseteq DOMAIN trail' /\ \A i \in DOMAIN trail : trail'[i] = trail[i]
  /\ marks \subseteq marks'
  /\ DOMAIN versions \subseteq DOMAIN versions'
  /\ \A v \in DOMAIN versions : versions'[v].path = versions[v].path
  /\ DOMAIN contents \subseteq DOMAIN contents'
  /\ \A p \in DOMAIN contents : contents'[p] = contents[p]

LEMMA RightStays == ASSUME Grow, NEW h, Right(h) PROVE Right(h)'
<1>1. \A p \in DOMAIN contents : Original(p)' = Original(p)
  BY DEF Grow, Original
<1>2. h.pc \in {"convert", "keep"} => h.path \in DOMAIN contents
  BY DEF Right
<1> QED BY <1>1, <1>2 DEF Grow, Right

LEMMA RecordingStays == ASSUME Grow, NEW c, Recording(c) PROVE Recording(c)'
<1>1. \A p \in DOMAIN contents : Original(p)' = Original(p)
  BY DEF Grow, Original
<1> QED BY <1>1 DEF Grow, Recording

LEMMA ContentStays ==
  ASSUME Grow, NEW vs, HasContent(vs, contents) PROVE HasContent(vs, contents')
BY DEF Grow, HasContent

\* A step of a request keeps Safe if what it holds next, and what it writes, is right.
LEMMA StepSafe ==
  ASSUME TypeInv, Safe, up, Grow, UNCHANGED system, NEW r \in Requests, NEW held,
         held \in {Idle} \cup Held,
         Hold(r, held) \/ Begin(r, held),
         Right(held)', HasContent(versions, contents)',
         \A c \in served' \ served : Recording(c)'
  PROVE  Safe'
<1>1. req'[r] = held /\ \A q \in Requests : q # r => req'[q] = req[q]
  BY Slot DEF TypeInv
<1>2. ASSUME NEW q \in Requests PROVE Right(req[q])'
  <2>1. CASE q = r
    <3>1. req'[q] = held
      BY <1>1, <2>1
    <3> QED BY <3>1 DEF Right
  <2>2. CASE q # r
    <3> DEFINE h == req[q]
    <3>1. PICK g : g = req[q]
      OBVIOUS
    <3>2. Right(g)'
      BY <3>1, RightStays DEF Safe
    <3>3. req'[q] = g
      BY <1>1, <2>2, <3>1
    <3> QED BY <3>2, <3>3 DEF Right
  <2> QED BY <2>1, <2>2
<1>3. up' /\ backup' = backup
  BY DEF system
<1>4. ASSUME NEW c \in served' PROVE Recording(c)'
  BY <1>4, RecordingStays DEF Safe
<1>5. Copied'
  <2>1. PICK b : b = backup
    OBVIOUS
  <2>2. b.taken < 2 => HasContent(b.versions, contents')
    BY <2>1, ContentStays DEF Safe, Copied
  <2>3. b.taken = 2 => HasContent(b.versions, b.contents)
    BY <2>1 DEF Safe, Copied
  <2>4. backup' = b
    BY <1>3, <2>1
  <2> QED BY <1>3, <2>2, <2>3, <2>4 DEF Copied
<1> QED BY <1>2, <1>3, <1>4, <1>5 DEF Safe

\* The same of a step that writes no row and no content.
LEMMA MoveSafe ==
  ASSUME TypeInv, Safe, up, UNCHANGED <<audit, files, system>>, NEW r \in Requests,
         NEW held \in {Idle} \cup Held, Hold(r, held) \/ Begin(r, held), Right(held),
         \A c \in served' \ served : Recording(c)
  PROVE  Safe'
<1>1. Grow
  BY DEF Grow, audit, files
<1>2. Right(held)'
  BY <1>1, RightStays
<1>3. HasContent(versions, contents)'
  BY DEF Safe, files, HasContent
<1>4. \A c \in served' \ served : Recording(c)'
  BY <1>1, RecordingStays
<1>5. UNCHANGED system
  OBVIOUS
<1> QED BY <1>1, <1>2, <1>3, <1>4, <1>5, StepSafe

LEMMA SaveVersionSafe ==
  ASSUME TypeInv, Safe, NEW r \in Requests, NEW u \in Users, SaveVersion(r, u)
  PROVE  Safe'
<1> DEFINE held == New("insert", "upload", u, 0, Len(contents) + 1)
<1>1. /\ held \in Held
      /\ held.pc = "insert" /\ held.path = Len(contents) + 1
  <2>1. Len(contents) + 1 \in Nat
    BY DEF TypeInv, TypeOK
  <2> QED BY <2>1, NewHeld DEF New
<1>2. /\ DOMAIN contents \subseteq DOMAIN contents' /\ Len(contents) + 1 \in DOMAIN contents'
      /\ \A p \in DOMAIN contents : contents'[p] = contents[p]
      /\ contents'[Len(contents) + 1] = 0
  BY StoreAppends DEF SaveVersion, TypeInv
<1>3. Begin(r, held) /\ up /\ UNCHANGED <<audit, versions, system, served>>
  BY DEF SaveVersion, Begin
<1>4. Grow
  BY <1>2, <1>3 DEF Grow, audit
<1> HIDE DEF held
<1>5. PICK h : h = held
  OBVIOUS
<1>6. Right(h)'
  BY <1>1, <1>2, <1>5 DEF Right
<1>7. HasContent(versions, contents)'
  BY <1>3, <1>4, ContentStays DEF Safe, HasContent, Grow
<1>8. h \in {Idle} \cup Held /\ Begin(r, h)
  BY <1>1, <1>3, <1>5
<1> QED BY <1>3, <1>4, <1>6, <1>7, <1>8, StepSafe

LEMMA InsertVersionSafe ==
  ASSUME TypeInv, Safe, NEW r \in Requests, InsertVersion(r)
  PROVE  Safe'
<1>1. req[r] \in Held /\ up
  BY Holding DEF InsertVersion
<1> DEFINE row == [path |-> req[r].path, pdf |-> 0]
<1>2. row \in VersionRows
  BY <1>1 DEF Held, VersionRows
<1>3. req[r].path \in DOMAIN contents /\ contents[req[r].path] = 0
  BY DEF InsertVersion, Safe, Right
<1>4. /\ DOMAIN versions' = DOMAIN versions \cup {Len(versions) + 1}
      /\ versions'[Len(versions) + 1] = row
      /\ \A v \in DOMAIN versions : versions'[v] = versions[v]
  <2> HIDE DEF row
  <2>1. versions \in Seq(VersionRows)
    BY DEF TypeInv, TypeOK
  <2>2. versions' = Append(versions, row)
    BY DEF InsertVersion, row
  <2> QED BY <1>2, <2>1, <2>2
<1>5. UNCHANGED <<audit, contents, system, served>> /\ Hold(r, Idle)
  BY DEF InsertVersion, End
<1>6. Grow
  BY <1>4, <1>5 DEF Grow, audit
<1>7. HasContent(versions, contents)'
  BY <1>1, <1>3, <1>4, <1>5 DEF Safe, HasContent
<1> QED BY <1>1, <1>5, <1>6, <1>7, IdleRight, StepSafe

LEMMA ReadVersionSafe ==
  ASSUME TypeInv, Safe, NEW r \in Requests, NEW u \in Users, NEW action \in Reads,
         NEW v \in DOMAIN versions, ReadVersion(r, u, action, v)
  PROVE  Safe'
<1>1. v \in Nat /\ versions[v].path \in Nat /\ versions[v].pdf \in Nat
  <2>1. versions[v] \in VersionRows
    BY DEF TypeInv, TypeOK
  <2> QED BY <2>1 DEF VersionRows, TypeInv, TypeOK
<1> DEFINE path == IF office THEN versions[v].pdf ELSE versions[v].path
           converts == New("convert", action, u, v, versions[v].path)
           stamps == New("stamp", action, u, v, path)
<1>2. converts \in Held /\ stamps \in Held
  BY <1>1, NewHeld DEF Reads
<1>3. up
  BY DEF ReadVersion, Begin
<1>4. /\ versions[v].path \in DOMAIN contents /\ contents[versions[v].path] = 0
      /\ versions[v].pdf # 0 => /\ versions[v].pdf \in DOMAIN contents
                                /\ contents[versions[v].pdf] = versions[v].path
      /\ versions[v].path # 0
  <2>1. 0 \notin DOMAIN contents
    BY DEF TypeInv, TypeOK
  <2> QED BY <1>3, <2>1 DEF Safe, HasContent
<1>5. action = "FILE_DOWNLOADED" => u \notin Guests
  BY DEF ReadVersion, MayRead
<1>6. UNCHANGED <<audit, files, system, served>>
  BY DEF ReadVersion
<1>7. CASE office /\ ~Kept(v)
  <2>1. Right(converts)
    BY <1>4, <1>5 DEF Right, New, Reads, Original
  <2> HIDE DEF converts
  <2>2. Begin(r, converts)
    BY <1>7 DEF ReadVersion, converts
  <2> QED BY <1>2, <1>3, <1>6, <2>1, <2>2, MoveSafe
<1>8. CASE ~(office /\ ~Kept(v))
  <2>1. path \in DOMAIN contents /\ Original(path) = versions[v].path
    BY <1>4, <1>8 DEF Kept, Original
  <2>2. Right(stamps)
    <3> HIDE DEF path
    <3> QED BY <1>5, <2>1 DEF Right, New, Reads
  <2>3. Begin(r, stamps)
    BY <1>8 DEF ReadVersion
  <2> HIDE DEF stamps
  <2> QED BY <1>2, <1>3, <1>6, <2>2, <2>3, MoveSafe
<1> QED BY <1>7, <1>8

LEMMA ConvertSafe ==
  ASSUME TypeInv, Safe, NEW r \in Requests, Convert(r)
  PROVE  Safe'
<1>1. req[r] \in Held /\ up
  BY Holding DEF Convert
<1>2. UNCHANGED <<audit, versions, system, served>>
  BY DEF Convert
<1> DEFINE held == [req[r] EXCEPT !.pc = "keep", !.path = Len(contents) + 1]
<1>3. CASE Store(req[r].path) /\ Hold(r, held)
  <2>1. Len(contents) + 1 \in Nat /\ Len(contents) + 1 # 0
    BY DEF TypeInv, TypeOK
  <2>2. /\ held \in Held /\ held.pc = "keep" /\ held.path = Len(contents) + 1
        /\ held.op = req[r].op /\ held.user = req[r].user /\ held.version = req[r].version
    BY <1>1, <2>1 DEF Held
  <2>3. /\ req[r].op = "FILE_DOWNLOADED" => req[r].user \notin Guests
        /\ req[r].op \in Reads /\ req[r].op # "REPORT_EXPORTED"
        /\ req[r].version \in DOMAIN versions /\ req[r].path \in DOMAIN contents
        /\ versions[req[r].version].path = req[r].path
    BY DEF Convert, Safe, Right, Original
  <2>4. req[r].path \in Nat /\ req[r].path # 0
    BY <1>1, <2>3 DEF Held, TypeInv, TypeOK
  <2>5. /\ DOMAIN contents \subseteq DOMAIN contents' /\ Len(contents) + 1 \in DOMAIN contents'
        /\ \A p \in DOMAIN contents : contents'[p] = contents[p]
        /\ contents'[Len(contents) + 1] = req[r].path
    BY <1>3, <2>4, StoreAppends DEF TypeInv
  <2>6. Grow
    BY <1>2, <2>5 DEF Grow, audit
  <2>7. HasContent(versions, contents)'
    BY <1>1, <1>2, <2>6, ContentStays DEF Safe, HasContent, Grow
  <2> HIDE DEF held
  <2>8. PICK h : h = held
    OBVIOUS
  <2>9. Original(h.path)' = req[r].path
    BY <2>2, <2>4, <2>5, <2>8 DEF Original
  <2>10. Right(h)'
    <3>1. versions' = versions
      BY <1>2
    <3> QED BY <2>2, <2>3, <2>4, <2>5, <2>8, <2>9, <3>1 DEF Right
  <2>11. h \in {Idle} \cup Held /\ Hold(r, h)
    BY <1>3, <2>2, <2>8
  <2> QED BY <1>1, <1>2, <2>6, <2>7, <2>10, <2>11, StepSafe
<1>4. CASE End(r) /\ UNCHANGED contents
  <2>1. UNCHANGED <<audit, files, system>>
    BY <1>2, <1>4 DEF files
  <2> QED BY <1>1, <1>2, <1>4, <2>1, IdleRight, MoveSafe DEF End
<1> QED BY <1>3, <1>4 DEF Convert

LEMMA KeepSafe ==
  ASSUME TypeInv, Safe, NEW r \in Requests, Keep(r)
  PROVE  Safe'
<1>1. req[r] \in Held /\ up
  BY Holding DEF Keep
<1>2. UNCHANGED <<audit, contents, system, served>>
  BY DEF Keep
<1>3. CASE triggers
  <2>1. UNCHANGED <<audit, files, system>> /\ Hold(r, Idle)
    BY <1>3 DEF Keep, files, End
  <2> QED BY <1>1, <1>2, <2>1, IdleRight, MoveSafe
<1>4. CASE ~triggers
  <2> DEFINE held == [req[r] EXCEPT !.pc = "stamp"]
  <2>1. PICK v, path : v = req[r].version /\ path = req[r].path
    OBVIOUS
  <2>2. /\ held \in Held /\ held.pc = "stamp" /\ held.path = path
        /\ held.op = req[r].op /\ held.user = req[r].user /\ held.version = v
    BY <1>1, <2>1 DEF Held
  <2>3. /\ req[r].op = "FILE_DOWNLOADED" => req[r].user \notin Guests
        /\ req[r].op \in Reads
        /\ v \in DOMAIN versions /\ path \in DOMAIN contents
        /\ contents[path] = versions[v].path
    BY <2>1 DEF Keep, Safe, Right, Original, Reads
  <2>4. versions \in Seq(VersionRows) /\ versions[v] \in VersionRows
    BY <2>3 DEF TypeInv, TypeOK
  <2>5. /\ DOMAIN versions' = DOMAIN versions
        /\ versions'[v].path = versions[v].path /\ versions'[v].pdf = path
        /\ \A w \in DOMAIN versions : w # v => versions'[w] = versions[w]
    <3> DEFINE row == [versions[v] EXCEPT !.pdf = path]
    <3>1. versions' = [versions EXCEPT ![v] = row]
      BY <1>4, <2>1 DEF Keep
    <3>2. row.path = versions[v].path /\ row.pdf = path
      BY <2>4 DEF VersionRows
    <3> HIDE DEF row
    <3> QED BY <2>3, <2>4, <3>1, <3>2
  <2>6. Grow
    <3>1. \A w \in DOMAIN versions : versions'[w].path = versions[w].path
      BY <2>5
    <3> QED BY <1>2, <2>5, <3>1 DEF Grow, audit
  <2>7. HasContent(versions, contents)'
    BY <1>1, <1>2, <2>3, <2>5 DEF Safe, HasContent
  <2> HIDE DEF held
  <2>8. PICK h : h = held
    OBVIOUS
  <2>9. Original(path)' = Original(path) /\ Original(path) = versions[v].path
    <3>1. Original(path) = versions[v].path
      BY <2>1 DEF Keep, Safe, Right, Reads
    <3> QED BY <1>2, <3>1 DEF Original
  <2>10. Right(h)'
    <3>1. h.pc = "stamp" /\ h.op = req[r].op /\ h.user = req[r].user
      BY <2>2, <2>8
    <3>2. h.version = v /\ h.path = path
      BY <2>2, <2>8
    <3>3. versions'[h.version].path = Original(h.path)'
      BY <2>5, <2>9, <3>2
    <3>4. h.version \in DOMAIN versions' /\ h.path \in DOMAIN contents'
      BY <1>2, <2>3, <2>5, <3>2
    <3> QED BY <2>3, <3>1, <3>3, <3>4 DEF Right, Reads
  <2>11. h \in {Idle} \cup Held /\ Hold(r, h)
    BY <1>4, <2>2, <2>8 DEF Keep, Move, held
  <2> QED BY <1>1, <1>2, <2>6, <2>7, <2>10, <2>11, StepSafe
<1> QED BY <1>3, <1>4

LEMMA StampSafe ==
  ASSUME TypeInv, Safe, NEW r \in Requests, Stamp(r)
  PROVE  Safe'
<1>1. req[r] \in Held /\ up
  BY Holding DEF Stamp
<1> DEFINE held == [req[r] EXCEPT !.pc = "record", !.at = now]
<1>2. now \in Nat
  BY DEF TypeInv, TypeOK
<1>3. /\ held \in Held /\ held.pc = "record" /\ held.op = req[r].op
      /\ held.user = req[r].user /\ held.version = req[r].version /\ held.path = req[r].path
  BY <1>1, <1>2 DEF Held
<1>4. Hold(r, held) /\ UNCHANGED <<audit, files, system, served>>
  BY DEF Stamp
<1> HIDE DEF held
<1>5. Right(req[r]) /\ req[r].pc = "stamp"
  BY DEF Safe, Stamp
<1>6. Right(held)
  BY <1>3, <1>5 DEF Right
<1> QED BY <1>1, <1>3, <1>4, <1>6, MoveSafe

LEMMA RecordRowSafe ==
  ASSUME TypeInv, Safe, NEW r \in Requests, RecordRow(r)
  PROVE  Safe'
<1>1. req[r] \in Held /\ up
  BY Holding DEF RecordRow
<1> DEFINE next == IF req[r].op = "REPORT_EXPORTED" THEN "send" ELSE "mark"
           held == [req[r] EXCEPT !.row = Len(trail) + 1, !.pc = next]
<1>2. Len(trail) + 1 \in Nat
  BY DEF TypeInv, TypeOK
<1>3. /\ held \in Held /\ held.pc = next /\ held.op = req[r].op
      /\ held.user = req[r].user /\ held.version = req[r].version /\ held.path = req[r].path
      /\ held.row = Len(trail) + 1
  BY <1>1, <1>2 DEF Held
<1>4. Hold(r, held) /\ UNCHANGED <<marks, files, system, served>>
  BY DEF RecordRow
<1>5. Right(req[r]) /\ req[r].pc = "record"
  BY DEF Safe, RecordRow
<1>6. Grow
  BY <1>4, Recorded DEF Grow, files
<1> HIDE DEF held
<1>7. PICK h, g : h = held /\ g = req[r]
  OBVIOUS
<1>8. /\ Len(trail) + 1 \in DOMAIN trail'
      /\ trail'[Len(trail) + 1].action = h.op
      /\ trail'[Len(trail) + 1].user = h.user
      /\ trail'[Len(trail) + 1].version = h.version
  <2>1. /\ Len(trail) + 1 \in DOMAIN trail'
        /\ trail'[Len(trail) + 1] = [action |-> req[r].op, user |-> req[r].user,
                                     version |-> req[r].version, at |-> req[r].at]
    BY Recorded
  <2>2. h.op = req[r].op /\ h.user = req[r].user /\ h.version = req[r].version
    BY <1>3, <1>7
  <2> QED BY <2>1, <2>2
<1>9. Right(g)'
  BY <1>5, <1>6, <1>7, RightStays
<1>10. Right(h)'
  BY <1>3, <1>5, <1>7, <1>8, <1>9 DEF Right
<1>11. HasContent(versions, contents)'
  BY <1>1, <1>4 DEF Safe, HasContent, files
<1>12. h \in {Idle} \cup Held /\ Hold(r, h)
  BY <1>3, <1>4, <1>7
<1> QED BY <1>1, <1>4, <1>6, <1>10, <1>11, <1>12, StepSafe

LEMMA MarkRowSafe ==
  ASSUME TypeInv, Safe, NEW r \in Requests, MarkRow(r)
  PROVE  Safe'
<1>1. req[r] \in Held /\ up
  BY Holding DEF MarkRow
<1> DEFINE held == [req[r] EXCEPT !.pc = "send"]
<1>2. /\ held \in Held /\ held.pc = "send" /\ held.op = req[r].op
      /\ held.user = req[r].user /\ held.version = req[r].version /\ held.path = req[r].path
      /\ held.row = req[r].row
  BY <1>1 DEF Held
<1>3. Hold(r, held) /\ UNCHANGED <<trail, files, system, served>>
      /\ marks' = marks \cup {req[r].row}
  BY DEF MarkRow, Move, Mark
<1>4. Right(req[r]) /\ req[r].pc = "mark"
  BY DEF Safe, MarkRow
<1>5. Grow
  BY <1>3 DEF Grow, files
<1> HIDE DEF held
<1>6. PICK h, g : h = held /\ g = req[r]
  OBVIOUS
<1>7. Right(g)'
  BY <1>4, <1>5, <1>6, RightStays
<1>8. Right(h)'
  BY <1>2, <1>3, <1>4, <1>6, <1>7 DEF Right
<1>9. HasContent(versions, contents)'
  BY <1>1, <1>3 DEF Safe, HasContent, files
<1>10. h \in {Idle} \cup Held /\ Hold(r, h)
  BY <1>2, <1>3, <1>6
<1> QED BY <1>1, <1>3, <1>5, <1>8, <1>9, <1>10, StepSafe

LEMMA SendSafe ==
  ASSUME TypeInv, Safe, NEW r \in Requests, Send(r)
  PROVE  Safe'
<1>1. req[r] \in Held /\ up
  BY Holding DEF Send
<1>2. Right(req[r]) /\ req[r].pc = "send"
  BY DEF Safe, Send
<1>3. Recording([row |-> req[r].row, path |-> req[r].path])
  <2>1. 0 \notin DOMAIN contents
    BY DEF TypeInv, TypeOK
  <2> QED BY <1>2, <2>1 DEF Right, Recording, Reads
<1>4. UNCHANGED <<audit, files, system>> /\ Hold(r, Idle)
      /\ served' = served \cup {[row |-> req[r].row, path |-> req[r].path]}
  BY DEF Send, End
<1> QED BY <1>1, <1>3, <1>4, IdleRight, MoveSafe

LEMMA ExportSafe ==
  ASSUME TypeInv, Safe, NEW r \in Requests, NEW u \in Users, Export(r, u)
  PROVE  Safe'
<1> DEFINE held == New("stamp", "REPORT_EXPORTED", u, 0, 0)
<1>1. held \in Held /\ Right(held)
  BY NewHeld DEF New, Right
<1>2. Begin(r, held) /\ up /\ UNCHANGED <<audit, files, system, served>>
  BY DEF Export, Begin
<1> HIDE DEF held
<1> QED BY <1>1, <1>2, MoveSafe

LEMMA AbortSafe ==
  ASSUME TypeInv, Safe, NEW r \in Requests, Abort(r)
  PROVE  Safe'
<1>1. up /\ Hold(r, Idle) /\ UNCHANGED <<audit, files, system, served>>
  BY Holding DEF Abort, Busy, End
<1> QED BY <1>1, IdleRight, MoveSafe

LEMMA TrailSafe ==
  ASSUME TypeInv, Safe, TrailNext, UNCHANGED <<files, system, req, begun, served, crossed, cut>>
  PROVE  Safe'
<1>1. Grow
  BY TrailTypes DEF Grow, files
<1>2. ASSUME NEW q \in Requests PROVE Right(req[q])'
  <2>1. PICK h : h = req[q]
    OBVIOUS
  <2>2. Right(h)'
    BY <1>1, <2>1, RightStays DEF Safe
  <2> QED BY <2>1, <2>2 DEF Right
<1>3. up' => \A c \in served' : Recording(c)'
  BY <1>1, RecordingStays DEF Safe, system
<1>4. Copied' /\ (up' => HasContent(versions, contents)')
  BY DEF Safe, Copied, HasContent, files, system
<1> QED BY <1>2, <1>3, <1>4 DEF Safe

LEMMA UnchangedSafe == ASSUME TypeInv, Safe, UNCHANGED vars PROVE Safe'
<1>1. Grow
  BY DEF Grow, vars, audit, files
<1>2. ASSUME NEW q \in Requests PROVE Right(req[q])'
  <2>1. PICK h : h = req[q]
    OBVIOUS
  <2>2. Right(h)'
    BY <1>1, <2>1, RightStays DEF Safe
  <2> QED BY <2>1, <2>2 DEF Right, vars
<1>3. up' => \A c \in served' : Recording(c)'
  BY <1>1, RecordingStays DEF Safe, vars, system
<1>4. Copied' /\ (up' => HasContent(versions, contents)')
  BY DEF Safe, Copied, HasContent, vars, files, system
<1> QED BY <1>2, <1>3, <1>4 DEF Safe

-----------------------------------------------------------------------------
(* Backup and restore *)

LEMMA TakeCopySafe == ASSUME TypeInv, Safe, TakeCopy PROVE Safe'
<1>1. up /\ UNCHANGED <<trail, marks, versions, contents, up, req, served>>
  BY DEF TakeCopy, audit, files
<1>2. /\ \A q \in Requests : Right(req[q])'
      /\ \A c \in served' : Recording(c)'
      /\ HasContent(versions, contents)'
  BY <1>1 DEF Safe, Right, Recording, HasContent, Original
<1>3. backup \in Copies
  BY DEF TypeInv, TypeOK, Copies
<1>4. CASE backup.taken = 0
  <2>1. backup' = [backup EXCEPT !.taken = @ + 1, !.versions = versions, !.trail = trail,
                                 !.marks = marks]
    BY <1>4 DEF TakeCopy, BackupOrder
  <2>2. backup'.taken = 1 /\ backup'.versions = versions
    BY <1>3, <1>4, <2>1 DEF Copies
  <2>3. HasContent(versions, contents)
    BY <1>1 DEF Safe
  <2>4. Copied'
    BY <1>1, <2>2, <2>3 DEF Copied, HasContent
  <2> QED BY <1>1, <1>2, <2>4 DEF Safe
<1>5. CASE backup.taken = 1
  <2>1. backup' = [backup EXCEPT !.taken = @ + 1, !.contents = contents]
    BY <1>5 DEF TakeCopy, BackupOrder
  <2>2. backup'.taken = 2 /\ backup'.versions = backup.versions /\ backup'.contents = contents
    BY <1>3, <1>5, <2>1 DEF Copies
  <2>3. HasContent(backup.versions, contents)
    BY <1>5 DEF Safe, Copied
  <2>4. Copied'
    BY <1>1, <2>2, <2>3 DEF Copied, HasContent
  <2> QED BY <1>1, <1>2, <2>4 DEF Safe
<1> QED BY <1>3, <1>4, <1>5 DEF TakeCopy, Copies

LEMMA StopSafe == ASSUME TypeInv, Safe, StopBackend PROVE Safe'
<1>1. /\ ~up' /\ backup' = backup /\ backup.taken = 2 /\ backup.restored = 0
      /\ \A q \in Requests : req'[q] = Idle
      /\ UNCHANGED <<versions, contents>>
  BY DEF StopBackend, files
<1>2. ASSUME NEW q \in Requests PROVE Right(req[q])'
  BY <1>1, IdleRight DEF Right, Idle
<1>3. Copied'
  BY <1>1 DEF Safe, Copied, HasContent
<1> QED BY <1>1, <1>2, <1>3 DEF Safe

LEMMA RestoreDbSafe == ASSUME TypeInv, Safe, RestoreDb PROVE Safe'
<1>1. backup \in Copies /\ backup' = [backup EXCEPT !.restored = 1]
  BY DEF RestoreDb, TypeInv, TypeOK, Copies
<1>2. /\ backup'.taken = backup.taken /\ backup'.versions = backup.versions
      /\ backup'.contents = backup.contents /\ backup.taken = 2
  <2>1. 1 \in 0 .. 2
    OBVIOUS
  <2>2. backup.taken = 2
    BY DEF RestoreDb, Safe, Copied
  <2> QED BY <1>1, <2>1, <2>2, Restoring
<1>3. ~up' /\ versions' = backup.versions /\ served' = {}
  BY DEF RestoreDb
<1>4. \A q \in Requests : req'[q] = Idle
  BY DEF RestoreDb, TypeInv
<1>5. ASSUME NEW q \in Requests PROVE Right(req[q])'
  BY <1>4, IdleRight DEF Right, Idle
<1>6. Copied'
  BY <1>2, <1>3 DEF Safe, Copied, HasContent
<1> QED BY <1>3, <1>5, <1>6 DEF Safe

LEMMA RestoreUploadsSafe == ASSUME TypeInv, Safe, RestoreUploads PROVE Safe'
<1>1. backup \in Copies /\ backup' = [backup EXCEPT !.restored = 2]
  BY DEF RestoreUploads, TypeInv, TypeOK, Copies
<1>2. /\ backup'.taken = backup.taken /\ backup'.versions = backup.versions
      /\ backup'.contents = backup.contents /\ backup.taken = 2
  <2>1. 2 \in 0 .. 2
    OBVIOUS
  <2>2. backup.taken = 2
    BY DEF RestoreUploads, Safe, Copied
  <2> QED BY <1>1, <2>1, <2>2, Restoring
<1>3. /\ versions' = backup.versions /\ contents' = backup.contents
      /\ served' = {} /\ up'
  BY DEF RestoreUploads, Safe, Copied
<1>4. \A q \in Requests : req'[q] = Idle
  BY DEF RestoreUploads, TypeInv
<1>5. ASSUME NEW q \in Requests PROVE Right(req[q])'
  BY <1>4, IdleRight DEF Right, Idle
<1>6. HasContent(backup.versions, backup.contents)
  BY <1>2 DEF Safe, Copied
<1>7. Copied' /\ HasContent(versions, contents)'
  BY <1>2, <1>3, <1>6 DEF Copied, HasContent
<1> QED BY <1>3, <1>5, <1>7 DEF Safe

-----------------------------------------------------------------------------
LEMMA InitSafe == Init => Safe
<1> SUFFICES ASSUME Init PROVE Safe
  OBVIOUS
<1>1. ASSUME NEW q \in Requests PROVE Right(req[q])
  BY DEF Init, Right, Idle
<1>2. backup.taken = 0 /\ backup.versions = <<>> /\ up /\ versions = <<>> /\ served = {}
  BY DEF Init
<1> QED BY <1>1, <1>2 DEF Safe, Copied, HasContent

LEMMA NextSafe == TypeInv /\ Safe /\ [Next]_vars => Safe'
<1> SUFFICES ASSUME TypeInv, Safe, [Next]_vars PROVE Safe'
  OBVIOUS
<1>1. ASSUME NEW r \in Requests, NEW u \in Users, SaveVersion(r, u) \/ Export(r, u)
      PROVE  Safe'
  BY <1>1, SaveVersionSafe, ExportSafe
<1>2. ASSUME NEW r \in Requests, NEW u \in Users, NEW action \in Reads,
             NEW v \in DOMAIN versions, ReadVersion(r, u, action, v)
      PROVE  Safe'
  BY <1>2, ReadVersionSafe
<1>3. ASSUME NEW r \in Requests, Step(r) \/ Abort(r) PROVE Safe'
  BY <1>3, InsertVersionSafe, ConvertSafe, KeepSafe, StampSafe, RecordRowSafe, MarkRowSafe,
     SendSafe, AbortSafe DEF Step
<1>4. CASE TakeCopy \/ StopBackend \/ RestoreDb \/ RestoreUploads
  BY <1>4, TakeCopySafe, StopSafe, RestoreDbSafe, RestoreUploadsSafe
<1>5. CASE TrailNext /\ UNCHANGED <<files, system, req, begun, served, crossed, cut>>
  BY <1>5, TrailSafe
<1>6. CASE UNCHANGED vars
  BY <1>6, UnchangedSafe
<1> QED BY <1>1, <1>2, <1>3, <1>4, <1>5, <1>6 DEF Next, Reads

\* For any number of accounts, requests and contents, with or without the triggers:
\* of all that leaves there is a row, a copy's watermark row names its version, and
\* no guest has downloaded one.
THEOREM LeavesRecorded == Spec => []NothingLeavesUnrecorded
<1>1. Safe => NothingLeavesUnrecorded
  BY DEF Safe, Recording, NothingLeavesUnrecorded, DownloadRows
<1> QED BY <1>1, InitTypes, NextTypes, InitSafe, NextSafe, PTL DEF Spec

\* However writes, cut requests, the two copies and a restore interleave, every
\* version finds its content, and its PDF the content it was made of.
THEOREM ContentKept == Spec => []RowsHaveContent
<1>1. Safe => RowsHaveContent
  BY DEF Safe, HasContent, RowsHaveContent
<1> QED BY <1>1, InitTypes, NextTypes, InitSafe, NextSafe, PTL DEF Spec

-----------------------------------------------------------------------------
(* Paging through the log                                                  *)

PageReads == [pc : {"reading", "end"}, user : Users, own : BOOLEAN, page : Nat \ {0},
              counted : BOOLEAN, total : Nat, found : BOOLEAN, raced : BOOLEAN,
              rows : SUBSET Nat, before : SUBSET Nat]

\* The rows of the start that no page has shown and no other row shares its time with.
Missing ==
  {i \in reader.before \ reader.rows :
     \A j \in DOMAIN trail : j # i => trail[j].at # trail[i].at}

Newer(i) == {j \in Seen(reader) : trail[j].at > trail[i].at}

\* A row still missing is far down the log: as rows are added it only sinks, and
\* the pages follow it.
StillAhead(i) ==
  /\ reader.pc = "reading" /\ ~reader.found => Cardinality(Newer(i)) >= Skip(reader.page)
  /\ reader.pc = "reading" /\ reader.found =>
       /\ Cardinality(Newer(i)) >= reader.page * Limit
       /\ reader.counted /\ ~reader.raced => reader.total > reader.page * Limit
  /\ reader.pc = "end" => reader.raced

ReadInv ==
  /\ ~up => reader = Closed
  /\ reader # Closed =>
       /\ reader \in PageReads /\ reader.before \subseteq Seen(reader)
       /\ \A i \in Missing : StillAhead(i)

LEMMA FirstRead == Skip(1) = 0
BY LimitAssumption DEF Skip

LEMMA SkipPage ==
  ASSUME NEW page \in Nat \ {0}
  PROVE  /\ Skip(page) \in Nat /\ page * Limit \in Nat
         /\ Skip(page) + Limit = page * Limit /\ Skip(page + 1) = page * Limit
<1>1. Limit \in Nat /\ page - 1 \in Nat
  BY LimitAssumption
<1>2. (page - 1) * Limit = page * Limit - Limit /\ page * Limit \in Nat
  BY <1>1
<1>3. (page - 1) * Limit \in Nat
  BY <1>1
<1> QED BY <1>1, <1>2, <1>3 DEF Skip

\* Short of the last page, the number of pages says there is another.
LEMMA PagesCover ==
  ASSUME NEW page \in Nat \ {0}, NEW total \in Nat, total > page * Limit
  PROVE  page < TotalPages(total)
<1> DEFINE pages == TotalPages(total)
<1>1. /\ pages \in Int
      /\ total + Limit - 1 < Limit * pages + Limit
  BY LimitAssumption DEF TotalPages
<1> HIDE DEF pages
<1>2. Limit \in Nat \ {0}
  BY LimitAssumption
<1>3. Limit * pages >= total
  BY <1>1, <1>2
<1>4. ASSUME pages <= page PROVE FALSE
  <2>1. Limit * pages <= Limit * page
    BY <1>1, <1>2, <1>4
  <2>2. Limit * page = page * Limit
    BY <1>2
  <2> QED BY <1>1, <1>2, <1>3, <2>1, <2>2
<1> QED BY <1>1, <1>4 DEF pages

LEMMA MinTwo ==
  ASSUME NEW a \in Int, NEW b \in Int
  PROVE  /\ a <= b => Min({a, b}) = a
         /\ Min({a, b}) \in {a, b}
<1>1. PICK x \in {a, b} : x = Min({a, b}) /\ \A y \in {a, b} : x <= y
  <2>1. \E x \in {a, b} : \A y \in {a, b} : x <= y
    OBVIOUS
  <2> QED BY <2>1 DEF Min
<1> QED BY <1>1

LEMMA PositionsFinite ==
  ASSUME NEW T, NEW s \in Seq(T)
  PROVE  \A S \in SUBSET DOMAIN s : IsFiniteSet(S) /\ Cardinality(S) \in Nat
<1>1. DOMAIN s = 1 .. Len(s) /\ Len(s) \in Nat
  OBVIOUS
<1>2. IsFiniteSet(DOMAIN s)
  BY <1>1, FS_Interval
<1>3. \A S \in SUBSET DOMAIN s : IsFiniteSet(S)
  BY <1>2, FS_Subset
<1> QED BY <1>3, FS_CardinalityType

LEMMA RowsFinite ==
  ASSUME TypeOK
  PROVE  \A S \in SUBSET DOMAIN trail : IsFiniteSet(S) /\ Cardinality(S) \in Nat
<1>1. trail \in Seq(Rows)
  BY DEF TypeOK
<1> QED BY <1>1, PositionsFinite

LEMMA RowTimes == ASSUME TypeOK, NEW i \in DOMAIN trail PROVE trail[i].at \in Nat /\ i \in Nat
<1>1. trail \in Seq(Rows)
  BY DEF TypeOK
<1>2. trail[i] \in Rows /\ i \in Nat
  BY <1>1
<1> QED BY <1>2 DEF Rows

LEMMA NewerRows ==
  ASSUME TypeOK, NEW i \in Seen(reader)
  PROVE  /\ Newer(i) \subseteq Seen(reader) /\ i \notin Newer(i)
         /\ Seen(reader) \subseteq DOMAIN trail
         /\ Cardinality(Newer(i)) \in Nat /\ Cardinality(Seen(reader)) \in Nat
         /\ Cardinality(Newer(i)) < Cardinality(Seen(reader))
<1>1. Newer(i) \subseteq Seen(reader) /\ Seen(reader) \subseteq DOMAIN trail
  BY DEF Newer, Seen
<1>2. i \notin Newer(i)
  BY <1>1, RowTimes DEF Newer
<1>3. /\ IsFiniteSet(Newer(i)) /\ Cardinality(Newer(i)) \in Nat
      /\ IsFiniteSet(Seen(reader)) /\ Cardinality(Seen(reader)) \in Nat
  BY <1>1, RowsFinite
<1>4. Cardinality(Newer(i) \cup {i}) = Cardinality(Newer(i)) + 1
  BY <1>2, <1>3, FS_AddElement
<1>5. Cardinality(Newer(i) \cup {i}) <= Cardinality(Seen(reader))
  <2>1. Newer(i) \cup {i} \subseteq Seen(reader)
    BY <1>1
  <2> QED BY <1>3, <2>1, FS_Subset
<1> QED BY <1>1, <1>2, <1>3, <1>4, <1>5

\* A row that shares its time with no other has one place in every order by time.
\* If it is not before a page and not on it, all the page's rows are newer.
LEMMA PageFollows ==
  ASSUME TypeOK, reader \in PageReads, NEW i \in Seen(reader),
         \A j \in DOMAIN trail : j # i => trail[j].at # trail[i].at,
         NEW page \in SUBSET Seen(reader), i \notin page,
         IsPage(page, Seen(reader), Skip(reader.page)),
         Cardinality(Newer(i)) >= Skip(reader.page)
  PROVE  Cardinality(Newer(i)) >= reader.page * Limit
<1> DEFINE all == Seen(reader)
           newer == Newer(i)
           skip == Skip(reader.page)
<1>1. /\ newer \subseteq all /\ i \notin newer /\ all \subseteq DOMAIN trail
      /\ Cardinality(newer) \in Nat /\ Cardinality(all) \in Nat
      /\ Cardinality(newer) < Cardinality(all)
  BY NewerRows
<1>2. skip \in Nat /\ Limit \in Nat /\ reader.page * Limit = skip + Limit
  BY SkipPage, LimitAssumption DEF PageReads
<1>3. PICK before \in SUBSET (all \ page) :
        /\ Cardinality(before) = Min({skip, Cardinality(all)})
        /\ Cardinality(page) = Min({Limit, Cardinality(all) - Cardinality(before)})
        /\ \A k \in before, j \in all \ before : trail[k].at >= trail[j].at
        /\ \A k \in page, j \in all \ (before \cup page) : trail[k].at >= trail[j].at
  BY DEF IsPage
<1>4. \A j \in all : trail[j].at \in Nat /\ (trail[j].at > trail[i].at <=> j \in newer)
  BY <1>1, RowTimes DEF Newer
<1>5. \A S \in SUBSET all : IsFiniteSet(S) /\ Cardinality(S) \in Nat
  BY <1>1, RowsFinite
<1>6. Cardinality(newer) >= skip /\ i \in all /\ page \subseteq all
      /\ \A j \in all : j # i => trail[j].at # trail[i].at
  BY <1>1
<1> HIDE DEF all, newer, skip
<1>7. Cardinality(before) = skip
  <2>1. skip <= Cardinality(all) /\ skip \in Int /\ Cardinality(all) \in Int
    BY <1>1, <1>2, <1>6
  <2> QED BY <1>3, <2>1, MinTwo
<1>8. i \notin before
  <2> SUFFICES ASSUME i \in before PROVE FALSE
    OBVIOUS
  <2>1. newer \cup {i} \subseteq before
    BY <1>1, <1>3, <1>4, <1>6
  <2>2. Cardinality(newer \cup {i}) = Cardinality(newer) + 1
    BY <1>1, <1>5, FS_AddElement
  <2>3. Cardinality(newer \cup {i}) <= Cardinality(before)
    BY <1>3, <1>5, <2>1, FS_Subset
  <2> QED BY <1>1, <1>2, <1>6, <1>7, <2>2, <2>3
<1>9. before \cup page \subseteq newer
  <2> SUFFICES ASSUME NEW j \in before \cup page PROVE j \in newer
    OBVIOUS
  <2>1. j \in all /\ j # i /\ i \in all \ (before \cup page)
    BY <1>3, <1>6, <1>8
  <2>2. trail[j].at >= trail[i].at
    BY <1>3, <2>1
  <2> QED BY <1>4, <1>6, <2>1, <2>2
<1>10. /\ Cardinality(before \cup page) = skip + Cardinality(page)
       /\ Cardinality(page) \in Nat
       /\ Cardinality(before \cup page) <= Cardinality(newer)
  <2>1. before \cap page = {} /\ before \subseteq all
    BY <1>3
  <2>2. IsFiniteSet(before) /\ IsFiniteSet(page) /\ Cardinality(page) \in Nat /\ IsFiniteSet(newer)
    BY <1>1, <1>5, <1>6, <2>1
  <2>3. Cardinality(before \cup page)
          = Cardinality(before) + Cardinality(page) - Cardinality(before \cap page)
    BY <2>2, FS_Union
  <2>4. Cardinality(before \cap page) = 0
    BY <2>1, FS_EmptySet
  <2>5. Cardinality(before \cup page) <= Cardinality(newer)
    BY <1>9, <2>2, FS_Subset
  <2> QED BY <1>2, <1>7, <2>2, <2>3, <2>4, <2>5
<1>11. Cardinality(page) \in {Limit, Cardinality(all) - skip}
  <2>1. Limit \in Int /\ Cardinality(all) - skip \in Int
    BY <1>1, <1>2
  <2> QED BY <1>3, <1>7, <2>1, MinTwo
<1> QED BY <1>1, <1>2, <1>10, <1>11 DEF newer

\* A row added takes none of the others' places away.
LEMMA RowsGrow ==
  ASSUME TypeOK, TypeOK', ReadInv, reader' = reader, up' = up,
         DOMAIN trail \subseteq DOMAIN trail',
         \A i \in DOMAIN trail : trail'[i] = trail[i]
  PROVE  ReadInv'
<1> SUFFICES ASSUME reader # Closed
             PROVE  /\ reader \in PageReads /\ reader.before \subseteq Seen(reader)'
                    /\ \A i \in Missing' : StillAhead(i)'
  BY DEF ReadInv
<1>1. Seen(reader) \subseteq Seen(reader)'
  BY DEF Seen
<1>2. reader \in PageReads /\ reader.before \subseteq Seen(reader)
  BY DEF ReadInv
<1>3. ASSUME NEW i \in Missing' PROVE StillAhead(i)'
  <2>1. i \in Missing /\ i \in Seen(reader)
    <3>1. /\ i \in reader.before \ reader.rows /\ i \in Seen(reader) /\ i \in DOMAIN trail
          /\ \A j \in DOMAIN trail' : j # i => trail'[j].at # trail'[i].at
      BY <1>2 DEF Missing, Seen
    <3> QED BY <3>1 DEF Missing
  <2>2. StillAhead(i)
    BY <2>1 DEF ReadInv
  <2>3. Newer(i) \subseteq Newer(i)'
    <3>1. i \in DOMAIN trail
      BY <2>1 DEF Seen
    <3> QED BY <1>1, <3>1 DEF Newer, Seen
  <2>4. /\ Cardinality(Newer(i)) <= Cardinality(Newer(i)')
        /\ Cardinality(Newer(i)) \in Nat /\ Cardinality(Newer(i)') \in Nat
    <3>1. Newer(i) \subseteq DOMAIN trail /\ Newer(i)' \subseteq DOMAIN trail'
      BY DEF Newer, Seen
    <3>2. IsFiniteSet(Newer(i)') /\ Cardinality(Newer(i)') \in Nat
      <4>1. trail' \in Seq(Rows)
        BY DEF TypeOK
      <4>2. \A S \in SUBSET DOMAIN trail' : IsFiniteSet(S) /\ Cardinality(S) \in Nat
        BY <4>1, PositionsFinite
      <4> QED BY <3>1, <4>2
    <3>3. Cardinality(Newer(i)) \in Nat
      BY <3>1, RowsFinite
    <3> QED BY <2>3, <3>2, <3>3, FS_Subset
  <2>5. reader.page * Limit \in Nat /\ Skip(reader.page) \in Nat
    BY <1>2, SkipPage DEF PageReads
  <2> QED BY <2>2, <2>4, <2>5 DEF StillAhead, Skip
<1> QED BY <1>1, <1>2, <1>3

LEMMA OpenReads == ASSUME TypeOK, ReadInv, up' = up, up, NEW u \in Users, OpenLog(u) PROVE ReadInv'
<1>1. PICK own \in BOOLEAN : reader' = Opened(u, own)
  <2>1. reader' = Opened(u, u \notin Managers) /\ (u \notin Managers) \in BOOLEAN
    BY DEF OpenLog
  <2> QED BY <2>1
<1>2. PICK r : r = Opened(u, own)
  OBVIOUS
<1>3. /\ r.pc = "reading" /\ r.user = u /\ r.own = own /\ r.page = 1 /\ ~r.counted
      /\ r.total = 0 /\ ~r.found /\ ~r.raced /\ r.rows = {} /\ r.before = Seen(r)
  BY <1>2 DEF Opened, Seen
<1>4. Seen(r) \subseteq DOMAIN trail /\ DOMAIN trail \subseteq Nat
  BY DEF Seen, TypeOK
<1>5. r \in PageReads
  BY <1>2, <1>4 DEF Opened, Seen, PageReads
<1>6. reader' = r /\ trail' = trail
  BY <1>1, <1>2 DEF OpenLog
<1>7. Seen(reader)' = Seen(r)
  BY <1>6 DEF Seen
<1>8. ASSUME NEW i \in Missing' PROVE StillAhead(i)'
  <2>1. Newer(i)' \subseteq DOMAIN trail
    BY <1>6 DEF Newer, Seen
  <2>2. Cardinality(Newer(i)') >= 0
    BY <2>1, RowsFinite
  <2>3. Skip(r.page) = 0
    BY <1>3, FirstRead
  <2> QED BY <1>3, <1>6, <2>2, <2>3 DEF StillAhead
<1> QED BY <1>3, <1>5, <1>6, <1>7, <1>8 DEF ReadInv

\* What a step of the reader keeps of what it reads.
LEMMA SameRows ==
  ASSUME trail' = trail, reader'.own = reader.own, reader'.user = reader.user
  PROVE  Seen(reader)' = Seen(reader) /\ \A i : Newer(i)' = Newer(i)
BY DEF Seen, Newer

LEMMA FindReads == ASSUME TypeOK, ReadInv, up' = up, up, FindMany PROVE ReadInv'
<1>1. /\ reader.pc = "reading" /\ ~reader.found /\ trail' = trail
  BY DEF FindMany
<1>2. PICK page \in SUBSET Seen(reader) :
        /\ IsPage(page, Seen(reader), Skip(reader.page))
        /\ reader' = [reader EXCEPT !.found = TRUE, !.rows = @ \cup page,
                        !.raced = reader.counted /\ Cardinality(Seen(reader)) > reader.total]
  BY DEF FindMany
<1>3. /\ reader \in PageReads /\ reader.before \subseteq Seen(reader)
      /\ \A i \in Missing : StillAhead(i)
  BY <1>1 DEF ReadInv, Closed
<1>4. Seen(reader) \subseteq Nat
  BY DEF Seen, TypeOK
<1>5. PICK raced \in BOOLEAN :
        raced = (reader.counted /\ Cardinality(Seen(reader)) > reader.total)
  OBVIOUS
<1>6. /\ reader' \in PageReads /\ reader'.pc = "reading" /\ reader'.found
      /\ reader'.rows = reader.rows \cup page /\ reader'.before = reader.before
      /\ reader'.raced = raced
      /\ reader'.page = reader.page /\ reader'.counted = reader.counted
      /\ reader'.total = reader.total /\ reader'.own = reader.own /\ reader'.user = reader.user
  BY <1>1, <1>2, <1>3, <1>4, <1>5 DEF PageReads
<1>7. Seen(reader)' = Seen(reader) /\ \A i : Newer(i)' = Newer(i)
  BY <1>1, <1>6, SameRows
<1>8. ASSUME NEW i \in Missing' PROVE StillAhead(i)'
  <2>1. /\ i \in Missing /\ i \notin page /\ i \in Seen(reader)
        /\ \A j \in DOMAIN trail : j # i => trail[j].at # trail[i].at
    BY <1>1, <1>3, <1>6 DEF Missing
  <2>2. Cardinality(Newer(i)) >= Skip(reader.page)
    BY <1>1, <1>3, <2>1 DEF StillAhead
  <2>3. Cardinality(Newer(i)) >= reader.page * Limit
    BY <1>2, <1>3, <2>1, <2>2, PageFollows
  <2>4. /\ Cardinality(Newer(i)) \in Nat /\ Cardinality(Seen(reader)) \in Nat
        /\ Cardinality(Newer(i)) < Cardinality(Seen(reader))
    BY <2>1, NewerRows
  <2>5. reader.total \in Nat /\ reader.page * Limit \in Nat
    BY <1>3, SkipPage DEF PageReads
  <2>6. reader.counted /\ ~raced => reader.total > reader.page * Limit
    <3> SUFFICES ASSUME reader.counted, ~raced PROVE reader.total > reader.page * Limit
      OBVIOUS
    <3>1. ~(Cardinality(Seen(reader)) > reader.total)
      BY <1>5, Zenon
    <3> QED BY <2>3, <2>4, <2>5, <3>1
  <2> QED BY <1>6, <1>7, <2>3, <2>6 DEF StillAhead
<1> QED BY <1>3, <1>6, <1>7, <1>8 DEF ReadInv

LEMMA CountReads == ASSUME TypeOK, ReadInv, up' = up, up, Count PROVE ReadInv'
<1>1. /\ reader.pc = "reading" /\ ~reader.counted /\ trail' = trail
      /\ reader' = [reader EXCEPT !.counted = TRUE, !.total = Cardinality(Seen(reader))]
  BY DEF Count
<1>2. /\ reader \in PageReads /\ reader.before \subseteq Seen(reader)
      /\ \A i \in Missing : StillAhead(i)
  BY <1>1 DEF ReadInv, Closed
<1>3. Cardinality(Seen(reader)) \in Nat
  BY RowsFinite DEF Seen
<1>4. /\ reader' \in PageReads /\ reader'.pc = "reading" /\ reader'.found = reader.found
      /\ reader'.rows = reader.rows /\ reader'.before = reader.before
      /\ reader'.raced = reader.raced /\ reader'.page = reader.page
      /\ reader'.total = Cardinality(Seen(reader))
      /\ reader'.own = reader.own /\ reader'.user = reader.user
  BY <1>1, <1>2, <1>3 DEF PageReads
<1>5. Seen(reader)' = Seen(reader) /\ \A i : Newer(i)' = Newer(i)
  BY <1>1, <1>4, SameRows
<1>6. ASSUME NEW i \in Missing' PROVE StillAhead(i)'
  <2>1. i \in Missing /\ i \in Seen(reader)
    BY <1>1, <1>2, <1>4 DEF Missing
  <2>2. /\ Cardinality(Newer(i)) \in Nat
        /\ Cardinality(Newer(i)) < Cardinality(Seen(reader))
    BY <2>1, NewerRows
  <2>3. reader.page * Limit \in Nat
    BY <1>2, SkipPage DEF PageReads
  <2>4. StillAhead(i)
    BY <1>2, <2>1
  <2>5. reader.found => reader'.total > reader.page * Limit
    BY <1>1, <1>3, <1>4, <2>2, <2>3, <2>4 DEF StillAhead
  <2> QED BY <1>1, <1>4, <1>5, <2>4, <2>5 DEF StillAhead
<1> QED BY <1>2, <1>4, <1>5, <1>6 DEF ReadInv

LEMMA NextReads == ASSUME TypeOK, ReadInv, up' = up, up, NextPage PROVE ReadInv'
<1>1. reader.pc = "reading" /\ reader.found /\ reader.counted /\ trail' = trail
  BY DEF NextPage
<1>2. /\ reader \in PageReads /\ reader.before \subseteq Seen(reader)
      /\ \A i \in Missing : StillAhead(i)
  BY <1>1 DEF ReadInv, Closed
<1>3. reader.page \in Nat \ {0} /\ reader.total \in Nat
  BY <1>2 DEF PageReads
<1>4. CASE reader.page >= TotalPages(reader.total)
  <2>1. reader' = [reader EXCEPT !.pc = "end"]
    BY <1>4 DEF NextPage
  <2>2. reader' \in PageReads
    BY <1>2, <2>1 DEF PageReads
  <2>3. /\ reader'.pc = "end"
        /\ reader'.rows = reader.rows /\ reader'.before = reader.before
        /\ reader'.raced = reader.raced
        /\ reader'.own = reader.own /\ reader'.user = reader.user
    BY <1>2, <2>1 DEF PageReads
  <2>4. Seen(reader)' = Seen(reader)
    BY <1>1, <2>3, SameRows
  <2>5. ASSUME NEW i \in Missing' PROVE StillAhead(i)'
    <3>1. i \in Missing
      BY <1>1, <2>3 DEF Missing
    <3>2. ASSUME ~reader.raced PROVE FALSE
      <4>1. reader.total > reader.page * Limit
        BY <1>1, <1>2, <3>1, <3>2 DEF StillAhead
      <4>2. reader.page < TotalPages(reader.total)
        BY <1>3, <4>1, PagesCover
      <4>3. TotalPages(reader.total) \in Int
        BY <1>3, LimitAssumption DEF TotalPages
      <4> QED BY <1>3, <1>4, <4>2, <4>3
    <3> QED BY <2>3, <3>2 DEF StillAhead
  <2> QED BY <1>2, <2>2, <2>3, <2>4, <2>5 DEF ReadInv
<1>5. CASE ~(reader.page >= TotalPages(reader.total))
  <2>1. reader' = [reader EXCEPT !.page = @ + 1, !.found = FALSE, !.counted = FALSE]
    BY <1>5 DEF NextPage
  <2>2. reader' \in PageReads
    <3>1. PICK next \in Nat \ {0} : next = reader.page + 1
      BY <1>3
    <3>2. reader' = [reader EXCEPT !.page = next, !.found = FALSE, !.counted = FALSE]
      BY <2>1, <3>1
    <3> QED BY <1>2, <3>2 DEF PageReads
  <2>3. /\ reader'.pc = "reading" /\ ~reader'.found
        /\ reader'.rows = reader.rows /\ reader'.before = reader.before
        /\ reader'.page = reader.page + 1
        /\ reader'.own = reader.own /\ reader'.user = reader.user
    BY <1>1, <1>2, <2>1 DEF PageReads
  <2>4. Seen(reader)' = Seen(reader) /\ \A i : Newer(i)' = Newer(i)
    BY <1>1, <2>3, SameRows
  <2>5. ASSUME NEW i \in Missing' PROVE StillAhead(i)'
    <3>1. i \in Missing
      BY <1>1, <2>3 DEF Missing
    <3>2. Cardinality(Newer(i)) >= reader.page * Limit
      BY <1>1, <1>2, <3>1 DEF StillAhead
    <3>3. Skip(reader'.page) = reader.page * Limit
      BY <1>3, <2>3, SkipPage
    <3> QED BY <2>3, <2>4, <3>2, <3>3 DEF StillAhead
  <2> QED BY <1>2, <2>2, <2>3, <2>4, <2>5 DEF ReadInv
<1> QED BY <1>4, <1>5

LEMMA NobodyReads == ASSUME reader' = Closed PROVE ReadInv'
BY DEF ReadInv

LEMMA ReadStep == TypeInv /\ TypeInv' /\ ReadInv /\ [Next]_vars => ReadInv'
<1> SUFFICES ASSUME TypeInv, TypeInv', ReadInv, [Next]_vars PROVE ReadInv'
  OBVIOUS
<1>0. TypeOK /\ TypeOK'
  BY DEF TypeInv
<1>1. ASSUME reader' = reader, up' = up, trail' = trail PROVE ReadInv'
  BY <1>0, <1>1, RowsGrow
<1>2. ASSUME NEW action, NEW u, NEW v, NEW at, Record(action, u, v, at), reader' = reader,
             up' = up
      PROVE  ReadInv'
  <2>1. PICK row : row = [action |-> action, user |-> u, version |-> v, at |-> at]
    OBVIOUS
  <2>2. trail' = Append(trail, row) /\ trail \in Seq(Rows)
    BY <1>0, <1>2, <2>1 DEF Record, TypeOK
  <2>3. DOMAIN trail \subseteq DOMAIN trail' /\ \A i \in DOMAIN trail : trail'[i] = trail[i]
    BY <2>2
  <2> QED BY <1>0, <1>2, <2>3, RowsGrow
<1>3. ASSUME NEW r \in Requests, NEW u \in Users, SaveVersion(r, u) \/ Export(r, u)
      PROVE  ReadInv'
  BY <1>1, <1>3 DEF SaveVersion, Export, audit, system
<1>4. ASSUME NEW r \in Requests, NEW u \in Users, NEW action \in Reads,
             NEW v \in DOMAIN versions, ReadVersion(r, u, action, v)
      PROVE  ReadInv'
  BY <1>1, <1>4 DEF ReadVersion, audit, system
<1>5. ASSUME NEW r \in Requests,
             \/ InsertVersion(r) \/ Convert(r) \/ Keep(r) \/ Stamp(r) \/ MarkRow(r)
             \/ Send(r) \/ Abort(r)
      PROVE  ReadInv'
  BY <1>1, <1>5
     DEF InsertVersion, Convert, Keep, Stamp, MarkRow, Send, Abort, audit, system
<1>6. ASSUME NEW r \in Requests, RecordRow(r) PROVE ReadInv'
  BY <1>2, <1>6 DEF RecordRow, system
<1>7. CASE TakeCopy \/ UNCHANGED vars
  BY <1>1, <1>7 DEF TakeCopy, audit, vars, system
<1>8. CASE StopBackend
  BY <1>8, NobodyReads DEF StopBackend
<1>9. CASE RestoreDb \/ RestoreUploads
  <2>1. reader' = Closed
    BY <1>9 DEF RestoreDb, RestoreUploads, audit, ReadInv
  <2> QED BY <2>1, NobodyReads
<1>10. CASE up /\ TrailNext /\ UNCHANGED system
  <2>1. up' = up
    BY <1>10 DEF system
  <2>2. CASE Tick
    BY <1>1, <2>1, <2>2 DEF Tick
  <2>3. ASSUME NEW u \in Users, Other(u) PROVE ReadInv'
    BY <1>2, <2>1, <2>3 DEF Other
  <2>4. CASE Close
    BY <2>4, NobodyReads DEF Close
  <2> QED BY <1>0, <1>10, <2>1, <2>2, <2>3, <2>4, OpenReads, FindReads, CountReads, NextReads
          DEF TrailNext
<1> QED BY <1>3, <1>4, <1>5, <1>6, <1>7, <1>8, <1>9, <1>10 DEF Next, Step, Reads

\* For pages of any size, logs of any length and rows that arrive at any moment
\* with any earlier time: who pages to the end misses only rows that share their
\* time with another, or the number of pages was counted before the last rows came.
THEOREM FullReadComplete == Spec => []FullReadMissesOnlyRaced
<1>1. Init => ReadInv
  BY DEF Init, TrailInit, ReadInv
<1>2. ReadInv => FullReadMissesOnlyRaced
  <2> SUFFICES ASSUME ReadInv, reader.pc = "end", ~reader.raced,
                      NEW i \in reader.before \ reader.rows
               PROVE  \E j \in DOMAIN trail : j # i /\ trail[j].at = trail[i].at
    BY DEF FullReadMissesOnlyRaced
  <2>1. reader # Closed
    BY DEF Closed
  <2>2. i \notin Missing
    BY <2>1 DEF ReadInv, StillAhead
  <2> QED BY <2>2 DEF Missing
<1> QED BY <1>1, <1>2, InitTypes, NextTypes, ReadStep, PTL DEF Spec
=============================================================================
