----------------------------- MODULE RoomPages ------------------------------
(***************************************************************************)
(* The pages of a data room as one browser tab keeps them: what the hooks  *)
(* ask for and hold in the query cache, the writes of the pages and what   *)
(* each invalidates, navigation, and the preview of a file.  The cache is  *)
(* react-query's, with the options of query-provider.tsx.                  *)
(*                                                                         *)
(* A list's content is abstracted to the number of the last write it shows:*)
(* the tab's writes are numbered as the backend commits them, and an       *)
(* answer is of some moment between the request and its arrival.           *)
(***************************************************************************)
EXTENDS Integers, Sequences, FiniteSets, SequencesExt

CONSTANTS
  Folders,      \* the folders of the room
  Root,         \* no folder: all files
  File,         \* the file that is opened
  MaxWrites,    \* bound: writes ever begun
  MaxMoves,     \* bound: clicks that change what is shown
  MaxPreviews   \* bound: previews ever opened

ASSUME RootAssumption == Root \notin Folders
ASSUME PagesBoundsAssumption == MaxWrites \in Nat /\ MaxMoves \in Nat /\ MaxPreviews \in Nat

VARIABLES
  clock,    \* writes the backend has committed
  gone,     \* the write that deleted the room; 0: none
  cache,    \* per key the query
  write,    \* the writes the pages have begun
  page,     \* what is shown
  moves,    \* clicks so far
  preview,  \* the previews ever opened
  urls,     \* previews whose object URL is not revoked
  own       \* history: per key the last write answered to the tab that its hook promises to show

vars == <<clock, gone, cache, write, page, moves, preview, urls, own>>

-----------------------------------------------------------------------------
(* The keys of the hooks *)

Room == <<"data-rooms", "room">>
RoomsKey == <<"data-rooms">>
AccessKey == Room \o <<"access">>
FoldersKey == Room \o <<"folders">>
FilesKey(folder, search) == Room \o <<"files", <<folder, search>>>>
VersionsKey == Room \o <<"files", File, "versions">>
MembersKey == Room \o <<"members">>
LogKey == Room \o <<"audit-logs">>
ReportsKey == Room \o <<"reports">>

FileLists == {FilesKey(d, s) : d \in Folders \cup {Root}, s \in BOOLEAN}
Keys == FileLists \cup {RoomsKey, Room, AccessKey, FoldersKey, VersionsKey, MembersKey,
                        LogKey, ReportsKey}

Under(prefixes) == {k \in Keys : \E p \in prefixes : IsPrefix(p, k)}

-----------------------------------------------------------------------------
(* What the writes change and what their hooks invalidate *)

FileOps == {"uploadFiles", "updateFile", "deleteFile"}
FolderOps == {"createFolder", "updateFolder", "deleteFolder"}
MailOps == {"resendInvite", "resetPassword"}
MemberOps == {"inviteMember", "updateRole", "removeMember"} \cup MailOps
RoomOps == {"setArchived", "deleteRoom"}
Ops == FileOps \cup FolderOps \cup MemberOps \cup RoomOps \cup {"addVersion", "createRoom"}

\* The lists whose rows the handler changes; every one also adds to the audit log,
\* from which the reports count.
Changes(op) ==
  CASE op = "uploadFiles" -> FileLists \cup {FoldersKey}  \* relativePaths make folders
    [] op \in {"updateFile", "deleteFile"} -> FileLists
    [] op = "addVersion" -> FileLists \cup {VersionsKey}
    [] op \in FolderOps -> {FoldersKey}
    [] op \in MemberOps -> {MembersKey}
    [] op = "createRoom" -> {RoomsKey}
    [] op \in RoomOps -> {RoomsKey, Room}

FileInvalidatesList(op) ==  \* mutant of FileInvalidates: the upload, of its list only
  IF op \in FileOps \cup {"addVersion"} THEN {Room \o <<"files">>} ELSE {}

FileInvalidates(op) ==
  CASE op \in {"uploadFiles", "deleteFile"} -> {Room \o <<"files">>, Room}
    [] op = "updateFile" -> {Room \o <<"files">>}
    [] op = "addVersion" -> {Room \o <<"files">>, VersionsKey}
    [] OTHER -> {}

FolderInvalidates(op) == IF op \in FolderOps THEN {FoldersKey} ELSE {}

MemberInvalidates(op) == IF op \in MemberOps \ MailOps THEN {MembersKey} ELSE {}

RoomInvalidates(op) ==
  CASE op = "setArchived" -> {RoomsKey, Room}
    [] op \in {"createRoom", "deleteRoom"} -> {RoomsKey}
    [] OTHER -> {}

Invalidates(op) ==
  FileInvalidates(op) \cup FolderInvalidates(op) \cup MemberInvalidates(op) \cup RoomInvalidates(op)

\* What a hook promises to show: the rows its handler changed, and the audit log and
\* the reports where the prefix of the room reaches them.  A mail changes no row.
Promises(op) ==
  (IF op \in MailOps THEN {} ELSE Changes(op)) \cup
  (IF op \in {"uploadFiles", "deleteFile"} \cup RoomOps THEN {LogKey, ReportsKey} ELSE {})

-----------------------------------------------------------------------------
(* The query cache *)

None == -1
NoQuery == [data |-> None, invalid |-> FALSE, asked |-> None, failed |-> FALSE,
            missed |-> FALSE, lacks |-> FALSE]

\* A fetch that starts now.
Fetch(q) == [q EXCEPT !.asked = clock, !.failed = FALSE, !.missed = FALSE]

\* The keys the page subscribes to.  The layout shows its children once it has the
\* room, the members and the reports page theirs once it has the access.
Mounted(p, c) ==
  LET has(k) == c[k].data # None
      loaded == p.place \in {"files", "activity", "members", "reports"} /\ has(Room)
  IN  (IF p.place = "rooms" THEN {RoomsKey} ELSE {}) \cup
      (IF p.place \in {"rooms", "new"} THEN {} ELSE {Room, AccessKey}) \cup
      (IF loaded /\ p.place = "files" THEN {FoldersKey, FilesKey(p.folder, p.search)} ELSE {}) \cup
      (IF loaded /\ p.place = "files" /\ p.modal = "versions" THEN {VersionsKey} ELSE {}) \cup
      (IF loaded /\ p.place = "activity" THEN {LogKey} ELSE {}) \cup
      (IF loaded /\ p.place = "members" /\ has(AccessKey) THEN {MembersKey} ELSE {}) \cup
      (IF loaded /\ p.place = "reports" /\ has(AccessKey) THEN {ReportsKey} ELSE {})

\* The cache becomes c and the page p: what is new on the page is fetched, unless it
\* is held and younger than staleTime, or a fetch of it still runs.  What nothing
\* showed for long has been dropped.
Show(c, p) ==
  LET new == Mounted(p, c) \ Mounted(page, cache)
  IN  \E young \in SUBSET {k \in new : c[k].data # None /\ ~c[k].invalid},
         dropped \in SUBSET {k \in new : c[k].asked = None} :
        /\ cache' = [k \in Keys |->
                       CASE k \in dropped -> Fetch(NoQuery)
                         [] k \in new \ (young \cup dropped) /\ c[k].asked = None -> Fetch(c[k])
                         [] OTHER -> c[k]]
        /\ page' = p

\* invalidateQueries: a mounted query with data drops its fetch for a new one; one that
\* has none yet keeps the fetch it has, and so does one that is not mounted.
Invalidate(q, mounted) ==
  LET replaces == mounted /\ (q.data # None \/ q.asked = None)
  IN  IF q = NoQuery THEN q
      ELSE [(IF replaces THEN Fetch(q) ELSE [q EXCEPT !.missed = @ \/ q.asked # None])
              EXCEPT !.invalid = TRUE]

\* A list of the deleted room is not found.
Answers(k) == {d \in cache[k].asked .. clock : gone # 0 /\ IsPrefix(Room, k) => d < gone}

Arrive(k) ==
  /\ cache[k].asked # None
  /\ \E d \in Answers(k) :
       Show([cache EXCEPT ![k] = [NoQuery EXCEPT !.data = d, !.lacks = cache[k].missed]], page)
  /\ UNCHANGED <<clock, gone, write, moves, preview, urls, own>>

\* The fetch fails, and so does its one retry.
Fails(k) ==
  /\ cache[k].asked # None
  /\ cache' = [cache EXCEPT ![k].asked = None, ![k].missed = FALSE, ![k].failed = TRUE]
  /\ UNCHANGED <<clock, gone, write, page, moves, preview, urls, own>>

-----------------------------------------------------------------------------
(* Clicks *)

CancelledNever(v) == FALSE  \* mutant of Cancelled: the late blob is shown

Cancelled(v) == v.cancelled

\* The cleanup of the preview's effect, when the page p is without the modal.
Cleanup(p) ==
  LET i == Len(preview)
  IN  IF page.modal = "preview" /\ p.modal # "preview"
      THEN preview' = [preview EXCEPT ![i].cancelled = TRUE] /\ urls' = urls \ {i}
      ELSE UNCHANGED <<preview, urls>>

Turn(p) == moves < MaxMoves /\ moves' = moves + 1 /\ Show(cache, p)
Click(p) == Turn(p) /\ Cleanup(p) /\ UNCHANGED <<clock, gone, write, own>>

\* The modal's own button, which is there once for each that opens it.
CloseModal ==
  LET p == [page EXCEPT !.modal = "none"]
  IN  Show(cache, p) /\ Cleanup(p) /\ UNCHANGED <<clock, gone, write, own, moves>>

Shown(k) == k \in Mounted(page, cache) /\ cache[k].data # None
Free == page.modal = "none"

Places == {"rooms", "new", "files", "activity", "members", "reports"}
Fresh(place) == [place |-> place, folder |-> Root, search |-> FALSE, modal |-> "none"]

\* A link: the tabs of the layout, the list of rooms, the form of a new one.  The
\* browser's own buttons leave a page with its modal.
Navigate(place) ==
  /\ place # page.place
  /\ Click(Fresh(place))

Select(d) ==
  /\ Free /\ Shown(FoldersKey) /\ d # page.folder
  /\ Click([page EXCEPT !.folder = d])

Search ==
  /\ Free /\ page.place = "files" /\ cache[Room].data # None
  /\ Click([page EXCEPT !.search = ~@])

OpenVersions ==
  /\ Free /\ Shown(FilesKey(page.folder, page.search))
  /\ Click([page EXCEPT !.modal = "versions"])

CloseVersions == page.modal = "versions" /\ CloseModal

-----------------------------------------------------------------------------
(* The preview, fetched by an effect when its modal opens *)

OpenPreview ==
  /\ Free /\ Shown(FilesKey(page.folder, page.search)) /\ Len(preview) < MaxPreviews
  /\ Turn([page EXCEPT !.modal = "preview"])
  /\ preview' = Append(preview, [pc |-> "fetching", cancelled |-> FALSE])
  /\ UNCHANGED <<clock, gone, write, own, urls>>

\* A blob arrives: an object URL is made of it, unless it is a text.
PreviewArrives(i) ==
  /\ preview[i].pc = "fetching"
  /\ preview' = [preview EXCEPT ![i].pc = "done"]
  /\ urls' \in IF Cancelled(preview[i]) THEN {urls} ELSE {urls, urls \cup {i}}
  /\ UNCHANGED <<clock, gone, write, own, cache, page, moves>>

PreviewFails(i) ==
  /\ preview[i].pc = "fetching"
  /\ preview' = [preview EXCEPT ![i].pc = "done"]
  /\ UNCHANGED <<clock, gone, write, own, cache, page, moves, urls>>

ClosePreview == page.modal = "preview" /\ CloseModal

-----------------------------------------------------------------------------
(* Writes *)

Over == [op |-> "none", pc |-> "over", n |-> 0]
InFlight(op) == \E i \in 1 .. Len(write) : write[i].op = op

\* The page sends requests of an operation.
Send(op, count) ==
  /\ Len(write) + count <= MaxWrites
  /\ write' = write \o [i \in 1 .. count |-> [op |-> op, pc |-> "sent", n |-> 0]]

Stays == UNCHANGED <<clock, gone, own, cache, page, moves, preview, urls>>

\* What the access shows no button for is not sent; the actor here may do everything.
OnFiles == Free /\ page.place = "files" /\ Shown(AccessKey)

Upload == OnFiles /\ cache[Room].data # None /\ Send("uploadFiles", 1) /\ Stays

EditFile ==
  /\ OnFiles /\ Shown(FilesKey(page.folder, page.search))
  /\ Send("updateFile", 1) \/ Send("deleteFile", 1)
  /\ Stays

EditFolder ==
  /\ OnFiles /\ Shown(FoldersKey)
  /\ Send("createFolder", 1) \/ Send("updateFolder", 1)
  /\ Stays

\* handleDelete shows all files again before it knows the outcome.
DeleteFolder(d) ==
  /\ OnFiles /\ Shown(FoldersKey)
  /\ Send("deleteFolder", 1)
  /\ Show(cache, [page EXCEPT !.folder = IF @ = d THEN Root ELSE @])
  /\ UNCHANGED <<clock, gone, own, moves, preview, urls>>

\* A drop on a folder bubbles to the list, whose handler sends the same item to the
\* root; a drop beside the folders, and one of a folder on itself, sends that alone.
Drop ==
  /\ OnFiles /\ Shown(FoldersKey)
  /\ \E op \in {"updateFolder", "updateFile"}, count \in {1, 2} : Send(op, count)
  /\ Stays

AddVersion ==
  /\ page.modal = "versions" /\ Shown(AccessKey) /\ ~InFlight("addVersion")
  /\ Send("addVersion", 1) /\ Stays

EditMembers ==
  /\ page.place = "members" /\ Shown(AccessKey) /\ cache[Room].data # None
  /\ \/ ~InFlight("inviteMember") /\ Send("inviteMember", 1)
     \/ Shown(MembersKey) /\ \E op \in MemberOps \ {"inviteMember"} : Send(op, 1)
  /\ Stays

EditRoom ==
  /\ Free /\ Shown(Room) /\ Shown(AccessKey)
  /\ \E op \in RoomOps : Send(op, 1)
  /\ Stays

CreateRoom ==
  /\ page.place = "new" /\ ~InFlight("createRoom") /\ Send("createRoom", 1) /\ Stays

\* The backend commits; what it refuses, as all in a deleted room, Lost answers.
Commit(i) ==
  /\ write[i].pc = "sent"
  /\ gone # 0 => write[i].op = "createRoom"
  /\ clock' = clock + 1
  /\ write' = [write EXCEPT ![i].pc = "done", ![i].n = clock + 1]
  /\ gone' = IF write[i].op = "deleteRoom" THEN clock + 1 ELSE gone
  /\ UNCHANGED <<own, cache, page, moves, preview, urls>>

\* mutateAsync goes on: a created or deleted room is left, for its pages or the list.
\* The pages of another room stand as the form does, with no query of this one.
Onward(op) == IF op = "deleteRoom" THEN Fresh("rooms") ELSE page

\* onSuccess.
Settle(i) ==
  LET op == write[i].op
  IN  /\ write[i].pc = "done"
      /\ write' = [write EXCEPT ![i] = Over]
      /\ own' = [k \in Keys |->
                   IF k \in Promises(op) /\ own[k] < write[i].n THEN write[i].n ELSE own[k]]
      /\ Show([k \in Keys |-> IF k \in Under(Invalidates(op))
                              THEN Invalidate(cache[k], k \in Mounted(page, cache)) ELSE cache[k]],
              Onward(op))
      /\ Cleanup(Onward(op))
      /\ UNCHANGED <<clock, gone, moves>>

\* Refused, lost, or committed in part or whole with another answer than success:
\* an upload of which a later file is refused keeps the earlier ones.
Lost(i) ==
  /\ write[i].pc \in {"sent", "done"}
  /\ write' = [write EXCEPT ![i] = Over]
  /\ Stays

-----------------------------------------------------------------------------
\* A page is opened by its address.
Init ==
  /\ clock = 0 /\ gone = 0 /\ moves = 0
  /\ page \in {Fresh(place) : place \in Places}
  /\ cache = [k \in Keys |-> IF k \in Mounted(page, [l \in Keys |-> NoQuery]) THEN Fetch(NoQuery) ELSE NoQuery]
  /\ write = <<>>
  /\ preview = <<>> /\ urls = {}
  /\ own = [k \in Keys |-> 0]

Next ==
  \/ \E k \in Keys : Arrive(k) \/ Fails(k)
  \/ \E place \in Places : Navigate(place)
  \/ \E d \in Folders \cup {Root} : Select(d)
  \/ \E d \in Folders : DeleteFolder(d)
  \/ Search \/ OpenVersions \/ CloseVersions \/ OpenPreview \/ ClosePreview
  \/ \E i \in 1 .. Len(preview) : PreviewArrives(i) \/ PreviewFails(i)
  \/ Upload \/ EditFile \/ EditFolder \/ Drop \/ AddVersion \/ EditMembers
  \/ EditRoom \/ CreateRoom
  \/ \E i \in 1 .. Len(write) : Commit(i) \/ Settle(i) \/ Lost(i)

Spec == Init /\ [][Next]_vars

-----------------------------------------------------------------------------
\* What the cache holds for current shows every change of the tab's own that its hook
\* promises and that was answered, whatever fetches, answers and other writes come in
\* between (use-files.ts:80).  Left out is a list whose fetch under way was asked
\* before the change and is not replaced: its first one, or one of a page left since.
\* And what a page shows is current, or being fetched, or its fetch has failed.
OwnWritesShown ==
  /\ \A k \in Keys :
       cache[k].data # None /\ ~cache[k].invalid /\ ~cache[k].lacks => cache[k].data >= own[k]
  /\ \A k \in Mounted(page, cache) :
       \/ cache[k].data # None /\ ~cache[k].invalid
       \/ cache[k].asked # None
       \/ cache[k].failed

\* The object URLs there are belong to the preview that is open: a blob that comes
\* after its modal was closed leaves none (FilePreviewModal.tsx:42).
UrlsRevoked == urls \subseteq (IF page.modal = "preview" THEN {Len(preview)} ELSE {})
=============================================================================
