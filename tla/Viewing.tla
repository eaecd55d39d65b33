------------------------------ MODULE Viewing -------------------------------
(***************************************************************************)
(* Reading a file of a data room and exporting a report: what              *)
(* getWatermarkedContent of files.service.ts does before the bytes leave,  *)
(* the PDF it keeps of an Office file, the audit row and the watermark row *)
(* (AuditTrail), and backup-db.sh and restore-db.sh, which copy the        *)
(* database and the stored contents while the backend writes both.         *)
(*                                                                         *)
(* One file, with a version more at a time: how versions are numbered is   *)
(* RoomFiles'.  Requests run concurrently and are cut short anywhere.  The *)
(* reads a request begins with are one step: of what they find, only       *)
(* convertedPdfPath ever changes, and the request keeps what it read.      *)
(***************************************************************************)
EXTENDS AuditTrail

CONSTANTS
  Requests,     \* the slots a request in flight occupies
  Guests,       \* the accounts with a role of NO_DOWNLOAD_ROLES in the room
  MaxRequests,  \* bound: requests ever made
  MaxContents   \* bound: contents ever stored

ASSUME GuestsAssumption == Guests \subseteq Users \ Managers
ASSUME ViewingBoundsAssumption == MaxRequests \in Nat /\ MaxContents \in Nat

VARIABLES
  office,    \* the file is of a type that is converted to PDF to be read
  triggers,  \* append_only_triggers.sql was run
  versions,  \* the FileVersion rows, by number: storagePath and convertedPdfPath (0: none)
  contents,  \* the stored contents, by path: 0, or the path of the one it was converted from
  up,        \* the backend runs
  backup,    \* the copies taken, and how far a restore of them has come
  req,       \* what each request in flight holds between two awaits
  begun,     \* requests begun so far
  served,    \* history: the copies and exports that left
  crossed,   \* history: contents that two requests converted at once
  cut        \* history: contents of which a conversion was stored but not kept

files == <<versions, contents>>
system == <<office, triggers, up, backup>>
vars == <<audit, files, system, req, begun, served, crossed, cut>>

Idle == [pc |-> "idle"]
Busy == {r \in Requests : req[r].pc # "idle"}

Begin(r, held) ==
  /\ up /\ req[r] = Idle
  /\ begun < MaxRequests /\ begun' = begun + 1
  /\ req' = [req EXCEPT ![r] = held]

Hold(r, held) == req' = [req EXCEPT ![r] = held] /\ UNCHANGED begun

Move(r, pc) == Hold(r, [req[r] EXCEPT !.pc = pc])

\* The answer is sent, or an exception.
End(r) == Hold(r, Idle)

New(pc, op, u, v, path) ==
  [pc |-> pc, op |-> op, user |-> u, version |-> v, path |-> path, at |-> 0, row |-> 0]

-----------------------------------------------------------------------------
(* A version more: upload and addVersion *)

Store(from) == Len(contents) < MaxContents /\ contents' = Append(contents, from)

SaveVersion(r, u) ==
  /\ Begin(r, New("insert", "upload", u, 0, Len(contents) + 1))
  /\ Store(0)
  /\ UNCHANGED <<audit, versions, system, served, crossed, cut>>

InsertVersion(r) ==
  /\ req[r].pc = "insert"
  /\ versions' = Append(versions, [path |-> req[r].path, pdf |-> 0])
  /\ End(r)
  /\ UNCHANGED <<audit, contents, system, served, crossed, cut>>

-----------------------------------------------------------------------------
(* getWatermarkedContent *)

\* assertCanDownload or getAccess.
MayRead(u, action) == action = "FILE_DOWNLOADED" => u \notin Guests

\* A preview and a plain download read the newest version.
VersionsFor(action) ==
  IF action = "FILE_DOWNLOADED" THEN DOMAIN versions ELSE {Len(versions)} \ {0}

KeptNever(v) == FALSE  \* mutant of Kept: convertedPdfPath is not looked at

Kept(v) == versions[v].pdf # 0

\* The originals of which a conversion is under way.
Converting == {req[r].path : r \in {q \in Requests : req[q].pc = "convert"}}
  \cup {contents[req[r].path] : r \in {q \in Requests : req[q].pc = "keep"}}

ReadVersion(r, u, action, v) ==
  /\ MayRead(u, action) /\ v \in VersionsFor(action)
  /\ IF office /\ ~Kept(v)
     THEN /\ Begin(r, New("convert", action, u, v, versions[v].path))
          /\ crossed' = crossed \cup ({versions[v].path} \cap Converting)
     ELSE /\ Begin(r, New("stamp", action, u, v,
                          IF office THEN versions[v].pdf ELSE versions[v].path))
          /\ UNCHANGED crossed
  /\ UNCHANGED <<audit, files, system, served, cut>>

\* convertToPdf, and the PDF stored.  The service may refuse or be late: a 503.
Convert(r) ==
  /\ req[r].pc = "convert"
  /\ \/ Store(req[r].path) /\ Hold(r, [req[r] EXCEPT !.pc = "keep", !.path = Len(contents) + 1])
     \/ End(r) /\ UNCHANGED contents
  /\ UNCHANGED <<audit, versions, system, served, crossed, cut>>

\* The trigger rejects every UPDATE of a version.
Keep(r) ==
  /\ req[r].pc = "keep"
  /\ IF triggers
     THEN End(r) /\ cut' = cut \cup {contents[req[r].path]} /\ UNCHANGED versions
     ELSE /\ versions' = [versions EXCEPT ![req[r].version].pdf = req[r].path]
          /\ Move(r, "stamp")
          /\ UNCHANGED cut
  /\ UNCHANGED <<audit, contents, system, served, crossed>>

\* The watermark is drawn; record takes its time and starts the insert.
Stamp(r) ==
  /\ req[r].pc = "stamp"
  /\ Hold(r, [req[r] EXCEPT !.pc = "record", !.at = now])
  /\ UNCHANGED <<audit, files, system, served, crossed, cut>>

RecordRow(r) ==
  /\ req[r].pc = "record"
  /\ Record(req[r].op, req[r].user, req[r].version, req[r].at)
  /\ Hold(r, [req[r] EXCEPT !.row = Len(trail) + 1,
                            !.pc = IF req[r].op = "REPORT_EXPORTED" THEN "send" ELSE "mark"])
  /\ UNCHANGED <<marks, now, reader, files, system, served, crossed, cut>>

MarkLater(r) ==  \* mutant of MarkRow: the watermark row is not awaited
  /\ req[r].pc = "mark"
  /\ Move(r, "send")
  /\ UNCHANGED <<audit, files, system, served, crossed, cut>>

MarkRow(r) ==
  /\ req[r].pc = "mark"
  /\ Mark(req[r].row)
  /\ Move(r, "send")
  /\ UNCHANGED <<trail, now, reader, files, system, served, crossed, cut>>

\* sendFileResponse.
Send(r) ==
  /\ req[r].pc = "send"
  /\ served' = served \cup {[row |-> req[r].row, path |-> req[r].path]}
  /\ End(r)
  /\ UNCHANGED <<audit, files, system, crossed, cut>>

-----------------------------------------------------------------------------
(* Reports *)

\* The rows of the download report; each shows its watermark, if there is one.
DownloadRows == {i \in DOMAIN trail : trail[i].action = "FILE_DOWNLOADED"}

\* respond, with a format other than json: the table is read, then recorded.
Export(r, u) ==
  /\ u \in Managers
  /\ Begin(r, New("stamp", "REPORT_EXPORTED", u, 0, 0))
  /\ UNCHANGED <<audit, files, system, served, crossed, cut>>

-----------------------------------------------------------------------------
(* Faults, backup and restore *)

\* The process dies, or a statement fails.
Abort(r) ==
  /\ r \in Busy
  /\ End(r)
  /\ cut' = cut \cup {contents[req[q].path] : q \in {p \in {r} : req[p].pc = "keep"}}
  /\ UNCHANGED <<audit, files, system, served, crossed>>

BackupReversed == <<"uploads", "db">>  \* mutant of BackupOrder

BackupOrder == <<"db", "uploads">>

\* pg_dump sees one state of the database; tar, which only finds contents of
\* rows that are already there, is as good as one step too.
TakeCopy ==
  /\ up /\ backup.taken < 2
  /\ backup' = IF BackupOrder[backup.taken + 1] = "db"
               THEN [backup EXCEPT !.taken = @ + 1, !.versions = versions, !.trail = trail,
                                   !.marks = marks]
               ELSE [backup EXCEPT !.taken = @ + 1, !.contents = contents]
  /\ UNCHANGED <<audit, files, office, triggers, up, req, begun, served, crossed, cut>>

StopBackend ==
  /\ up /\ backup.taken = 2 /\ backup.restored = 0
  /\ up' = FALSE
  /\ req' = [r \in Requests |-> Idle]
  /\ reader' = Closed
  /\ UNCHANGED <<trail, marks, now, files, office, triggers, backup, begun, served, crossed, cut>>

RestoreDbOver ==  \* mutant of RestoreDb: rows the dump does not hold stay
  /\ ~up /\ backup.restored = 0
  /\ versions' = backup.versions /\ trail' = backup.trail /\ marks' = marks \cup backup.marks
  /\ backup' = [backup EXCEPT !.restored = 1]
  /\ served' = {}
  /\ UNCHANGED <<now, reader, contents, office, triggers, up, req, begun, crossed, cut>>

\* DROP and CREATE, then the dump.  What was recorded since it is lost, and served
\* starts anew.
RestoreDb ==
  /\ ~up /\ backup.restored = 0
  /\ versions' = backup.versions /\ trail' = backup.trail /\ marks' = backup.marks
  /\ backup' = [backup EXCEPT !.restored = 1]
  /\ served' = {}
  /\ UNCHANGED <<now, reader, contents, office, triggers, up, req, begun, crossed, cut>>

\* A PDF may be in the archive and, as it was kept after the dump, in no row.
RestoreUploads ==
  /\ ~up /\ backup.restored = 1
  /\ contents' = backup.contents
  /\ backup' = [backup EXCEPT !.restored = 2]
  /\ up' = TRUE
  /\ cut' = cut \cup {backup.contents[p] : p \in DOMAIN backup.contents}
  /\ UNCHANGED <<audit, versions, office, triggers, req, begun, served, crossed>>

-----------------------------------------------------------------------------
Init ==
  /\ TrailInit
  /\ office \in BOOLEAN /\ triggers \in BOOLEAN
  /\ versions = <<>> /\ contents = <<>>
  /\ up = TRUE
  /\ backup = [taken |-> 0, restored |-> 0, versions |-> <<>>, trail |-> <<>>, marks |-> {},
               contents |-> <<>>]
  /\ req = [r \in Requests |-> Idle] /\ begun = 0
  /\ served = {} /\ crossed = {} /\ cut = {}

Step(r) ==
  \/ InsertVersion(r)
  \/ Convert(r) \/ Keep(r) \/ Stamp(r) \/ RecordRow(r) \/ MarkRow(r) \/ Send(r)

Next ==
  \/ \E r \in Requests :
       \/ \E u \in Users :
            \/ SaveVersion(r, u)
            \/ Export(r, u)
            \/ \E action \in {"FILE_VIEWED", "FILE_DOWNLOADED"}, v \in DOMAIN versions :
                 ReadVersion(r, u, action, v)
       \/ Step(r)
       \/ Abort(r)
  \/ TakeCopy \/ StopBackend \/ RestoreDb \/ RestoreUploads
  \/ /\ up /\ TrailNext
     /\ UNCHANGED <<files, system, req, begun, served, crossed, cut>>

Spec == Init /\ [][Next]_vars

-----------------------------------------------------------------------------
Rows == [action : {"FILE_VIEWED", "FILE_DOWNLOADED", "REPORT_EXPORTED", "OTHER"},
         user : Users, version : Nat, at : Nat]
VersionRows == [path : Nat, pdf : Nat]

Held == [pc : {"insert", "convert", "keep", "stamp", "record", "mark", "send"},
         op : {"upload", "FILE_VIEWED", "FILE_DOWNLOADED", "REPORT_EXPORTED"},
         user : Users, version : Nat, path : Nat, at : Nat, row : Nat]

\* Every state component has its type, and a watermark row its audit row.
TypeOK ==
  /\ trail \in Seq(Rows) /\ marks \in SUBSET (DOMAIN trail) /\ now \in Nat
  /\ versions \in Seq(VersionRows) /\ contents \in Seq(Nat)
  /\ office \in BOOLEAN /\ triggers \in BOOLEAN /\ up \in BOOLEAN
  /\ backup \in [taken : 0 .. 2, restored : 0 .. 2, versions : Seq(VersionRows),
                 trail : Seq(Rows), marks : SUBSET Nat, contents : Seq(Nat)]
  /\ req \in [Requests -> {Idle} \cup Held] /\ begun \in Nat
  /\ served \in SUBSET [row : Nat, path : Nat]
  /\ crossed \in SUBSET Nat /\ cut \in SUBSET Nat

\* The original of a content.
Original(p) == IF contents[p] = 0 THEN p ELSE contents[p]

\* Of all that left there is a row, written before (files.service.ts:307): of an
\* export that it was made; of a copy the version it is a copy of, and a
\* watermark, so that the download report names the one it carries.  No guest
\* has downloaded one.
NothingLeavesUnrecorded ==
  up => \A c \in served :
    /\ c.row \in DOMAIN trail
    /\ IF c.path = 0 THEN trail[c.row].action = "REPORT_EXPORTED"
       ELSE /\ c.row \in marks /\ trail[c.row].version \in DOMAIN versions
            /\ versions[trail[c.row].version].path = Original(c.path)
            /\ c.row \in DownloadRows => trail[c.row].user \notin Guests

\* Whatever was written while the backup was taken, and whatever was cut short, a
\* version's content is stored, and so is the PDF it names, which is one of that
\* content (backup-db.sh:22).
RowsHaveContent ==
  up => \A v \in DOMAIN versions :
    /\ versions[v].path \in DOMAIN contents
    /\ contents[versions[v].path] = 0
    /\ versions[v].pdf # 0 =>
         /\ versions[v].pdf \in DOMAIN contents
         /\ contents[versions[v].pdf] = versions[v].path

\* An Office content is converted once (files.service.ts:333), but by two first
\* readers at once (:344), or after a conversion that was stored and not kept,
\* which with the triggers is every one (:352).
ConvertedOnce ==
  \A p, q \in DOMAIN contents :
    contents[p] = contents[q] /\ contents[p] # 0 /\ p # q => contents[p] \in crossed \cup cut
=============================================================================
