----------------------------- MODULE FolderTree -----------------------------
(***************************************************************************)
(* The folders of one data room as folders.service.ts keeps them: rows     *)
(* that point at their parent and carry a materialised path.  create,      *)
(* update, remove and the folder walk of an upload each read and write in  *)
(* several awaits, one action apiece, and nothing holds a row between them. *)
(*                                                                         *)
(* A path is the sequence of its names; depth, which is written together   *)
(* with path from the same rows, is its length less one.  sortOrder is     *)
(* left out.  Of the files only which folders hold a live one is kept.     *)
(***************************************************************************)
EXTENDS Integers, Sequences, FiniteSets

CONSTANTS
  Requests,    \* the slots a request in flight occupies
  Names,       \* names a folder may have
  Template,    \* CIRP_DEFAULT_FOLDERS
  MaxFolders,  \* bound: folder rows that exist or may yet come of a request in flight;
               \* and calls of rebuildDescendantPaths under way
  MaxPath,     \* bound: names of a path told apart
  MaxBegun     \* bound: requests ever begun

ASSUME TemplateAssumption == Template \in Seq(Names)
ASSUME FolderBoundsAssumption ==
  MaxFolders \in Nat /\ MaxPath \in Nat \ {0} /\ MaxBegun \in Nat

VARIABLES
  folders,  \* the Folder rows; an id is a position: deleted, parent, name, path
  filled,   \* the folders that hold a live file
  req,      \* what each request in flight holds between two awaits
  begun,    \* how many requests have begun
  serial,   \* history: no two requests were ever in flight together, none was cut short
  crossed,  \* history: an update began while another had yet to write its parent
  raced     \* history: a remove was in flight with a request that works under its folder

vars == <<folders, filled, req, begun, serial, crossed, raced>>
ghosts == <<serial, crossed, raced>>

Root == 0  \* a parentId of null
Idle == [pc |-> "idle"]
Ids == DOMAIN folders
Live == {f \in Ids : ~folders[f].deleted}
Busy == {r \in Requests : req[r].pc # "idle"}

\* The pcs of an update that has yet to write, and of a request that will put
\* something under a folder it has read.
Placing == {"parent", "climb", "write"}
Under == Placing \cup {"create", "seek", "make", "place"}
Targets == {req[r].parent : r \in {q \in Requests : req[q].pc \in Under}}
Removing == {req[r].folder : r \in {q \in Requests : req[q].pc = "remove"}}

Room == Len(folders)
          + Cardinality({r \in Requests : req[r].pc \in {"create", "seek", "make"}})
            < MaxFolders

Begin(r, held) ==
  /\ begun < MaxBegun /\ begun' = begun + 1
  /\ req[r] = Idle
  /\ req' = [req EXCEPT ![r] = held]
  /\ serial' = (serial /\ Busy = {})

Continue(r, held) ==
  /\ req' = [req EXCEPT ![r] = held]
  /\ UNCHANGED <<begun, ghosts>>

PathRootless(path, name) ==  \* mutant of PathUnder: no name at the root
  IF path = <<>> \/ Len(path) = MaxPath THEN path ELSE Append(path, name)

\* buildPath; the path of a null parent is empty.
PathUnder(path, name) == IF Len(path) = MaxPath THEN path ELSE Append(path, name)

\* The path getFolderOrThrow reads, and none for a null parent.
PathOf(f) == IF f = Root THEN <<>> ELSE folders[f].path

Exists(f) == f = Root \/ f \in Live

NewRow(parent, path, name) ==
  [deleted |-> FALSE, parent |-> parent, name |-> name, path |-> PathUnder(path, name)]

\* seedCirpTemplate, before the room is handed out; other rooms begin empty.
Seeded == [i \in DOMAIN Template |-> [deleted |-> FALSE, parent |-> Root,
                                      name |-> Template[i], path |-> <<Template[i]>>]]

Init ==
  /\ folders \in {<<>>, Seeded}
  /\ filled = {}
  /\ req = [r \in Requests |-> Idle]
  /\ begun = 0
  /\ serial = TRUE /\ crossed = FALSE /\ raced = FALSE

-----------------------------------------------------------------------------
(* create *)

CreateRead(r, parent, name) ==
  /\ Room
  /\ Exists(parent)
  /\ Begin(r, [pc |-> "create", parent |-> parent, path |-> PathOf(parent),
               name |-> name])
  /\ raced' = (raced \/ parent \in Removing)
  /\ UNCHANGED <<folders, filled, crossed>>

CreateRow(r) ==
  LET q == req[r] IN
  /\ q.pc = "create"
  /\ folders' = Append(folders, NewRow(q.parent, q.path, q.name))
  /\ Continue(r, Idle)
  /\ UNCHANGED filled

-----------------------------------------------------------------------------
(* A file on its way into a folder: findOrCreateFolderPath and upload, or a *)
(* move of the file, whose way is empty.                                    *)

Onward(at, path, todo) ==
  IF todo = <<>> THEN [pc |-> "place", parent |-> at]
  ELSE [pc |-> "seek", parent |-> at, path |-> path, todo |-> todo]

UploadRead(r, parent, todo) ==
  /\ todo # <<>> => Room
  /\ Exists(parent)
  /\ Begin(r, Onward(parent, PathOf(parent), todo))
  /\ raced' = (raced \/ parent \in Removing)
  /\ UNCHANGED <<folders, filled, crossed>>

\* findFirst: any of the live folders of that name, if there is one.
UploadSeek(r) ==
  LET q == req[r]
      found == {f \in Live : folders[f].parent = q.parent /\ folders[f].name = Head(q.todo)}
      Hold(held) == req' = [req EXCEPT ![r] = held]
  IN
  /\ q.pc = "seek"
  /\ \/ found = {} /\ Hold([q EXCEPT !.pc = "make"]) /\ UNCHANGED raced
     \/ \E f \in found : /\ Hold(Onward(f, folders[f].path, Tail(q.todo)))
                         /\ raced' = (raced \/ f \in Removing)
  /\ UNCHANGED <<folders, filled, begun, serial, crossed>>

UploadMake(r) ==
  LET q == req[r]
      row == NewRow(q.parent, q.path, Head(q.todo))
  IN
  /\ q.pc = "make"
  /\ folders' = Append(folders, row)
  /\ Continue(r, Onward(Len(folders) + 1, row.path, Tail(q.todo)))
  /\ UNCHANGED filled

\* The file row, new or moved; a move may leave its old folder without a file.
FilePlace(r) ==
  /\ req[r].pc = "place"
  /\ \E left \in {{}} \cup {{f} : f \in filled} :
       filled' = (filled \ left) \cup ({req[r].parent} \ {Root})
  /\ Continue(r, Idle)
  /\ UNCHANGED folders

\* The last live file of a folder is removed.
FileRemoved(f) ==
  /\ f \in filled
  /\ filled' = filled \ {f}
  /\ UNCHANGED <<folders, req, begun, ghosts>>

-----------------------------------------------------------------------------
(* update: a new name, a new parent, or both *)

\* A name or a parent the request leaves out stays what this read found.
UpdateRead(r, f, name, to) ==
  /\ f \in Live
  /\ Begin(r, [pc |-> IF to = Root THEN "write" ELSE "parent",
               folder |-> f, name |-> name, parent |-> to, path |-> <<>>, at |-> to,
               moving |-> to # folders[f].parent,
               rebuild |-> to # folders[f].parent \/ name # folders[f].name])
  /\ crossed' = (crossed \/ \E q \in Requests : req[q].pc \in Placing)
  /\ raced' = (raced \/ to \in Removing)
  /\ UNCHANGED <<folders, filled>>

\* Only a move insists that its parent is live.
UpdateParent(r) ==
  LET q == req[r] IN
  /\ q.pc = "parent"
  /\ Continue(r, IF q.moving /\ ~Exists(q.parent) THEN Idle
                 ELSE [q EXCEPT !.pc = IF q.moving THEN "climb" ELSE "write",
                                !.path = folders[q.parent].path])
  /\ UNCHANGED <<folders, filled>>

ClimbOnce(r) ==  \* mutant of Climb: only the new parent itself is compared
  LET q == req[r] IN
  /\ q.pc = "climb"
  /\ Continue(r, IF q.at = q.folder THEN Idle ELSE [q EXCEPT !.pc = "write"])
  /\ UNCHANGED <<folders, filled>>

\* isDescendant, one row at a time.
Climb(r) ==
  LET q == req[r] IN
  /\ q.pc = "climb"
  /\ Continue(r, IF q.at = q.folder THEN Idle
                 ELSE IF folders[q.at].parent = Root THEN [q EXCEPT !.pc = "write"]
                 ELSE [q EXCEPT !.at = folders[q.at].parent])
  /\ UNCHANGED <<folders, filled>>

\* parentId is written even when the request is only a rename.
UpdateWrite(r) ==
  LET q == req[r]
      path == PathUnder(q.path, q.name)
  IN
  /\ q.pc = "write"
  /\ folders' = [folders EXCEPT ![q.folder].name = q.name, ![q.folder].parent = q.parent,
                                ![q.folder].path = path]
  /\ Continue(r, IF q.rebuild THEN [pc |-> "list", folder |-> q.folder, path |-> path,
                                    stack |-> <<>>]
                 ELSE Idle)
  /\ UNCHANGED filled

\* The calls of rebuildDescendantPaths that still have children to visit.
Pending(call, stack) == IF call.rest = {} THEN stack ELSE <<call>> \o stack

DescendNoFurther(folder, path, stack) ==  \* mutant of Descend: no recursion
  IF stack = <<>> THEN Idle ELSE [pc |-> "rebuild", stack |-> stack]

\* The call for one folder.
Descend(folder, path, stack) ==
  [pc |-> "list", folder |-> folder, path |-> path, stack |-> stack]

RebuildList(r) ==
  LET q == req[r]
      children == {[id |-> f, name |-> folders[f].name] :
                     f \in {g \in Live : folders[g].parent = q.folder}}
      stack == Pending([path |-> q.path, rest |-> children], q.stack)
  IN
  /\ q.pc = "list" /\ Len(q.stack) < MaxFolders
  /\ Continue(r, IF stack = <<>> THEN Idle ELSE [pc |-> "rebuild", stack |-> stack])
  /\ UNCHANGED <<folders, filled>>

\* A child gets the name it had when the children were listed.
RebuildChild(r) ==
  LET call == Head(req[r].stack) IN
  /\ req[r].pc = "rebuild"
  /\ \E child \in call.rest :
       LET path == PathUnder(call.path, child.name) IN
       /\ folders' = [folders EXCEPT ![child.id].path = path]
       /\ Continue(r, Descend(child.id, path,
                              Pending([path |-> call.path, rest |-> call.rest \ {child}],
                                      Tail(req[r].stack))))
  /\ UNCHANGED filled

-----------------------------------------------------------------------------
(* remove *)

RemoveRead(r, f) ==
  /\ f \in Live
  /\ Begin(r, [pc |-> "remove", folder |-> f, todo |-> {"folders", "files"}])
  /\ raced' = (raced \/ f \in Targets)
  /\ UNCHANGED <<folders, filled, crossed>>

HoldsFolders(f, what) ==  \* mutant of Holds: the files are not counted
  what = "folders" /\ \E g \in Live : folders[g].parent = f

Holds(f, what) ==
  \/ what = "folders" /\ \E g \in Live : folders[g].parent = f
  \/ what = "files" /\ f \in filled

\* One of the two counts under way; either turns the request down.
RemoveCount(r, what) ==
  LET q == req[r] IN
  /\ q.pc = "remove" /\ what \in q.todo
  /\ Continue(r, IF Holds(q.folder, what) THEN Idle ELSE [q EXCEPT !.todo = @ \ {what}])
  /\ UNCHANGED <<folders, filled>>

RemoveMark(r) ==
  /\ req[r].pc = "remove" /\ req[r].todo = {}
  /\ folders' = [folders EXCEPT ![req[r].folder].deleted = TRUE]
  /\ Continue(r, Idle)
  /\ UNCHANGED filled

-----------------------------------------------------------------------------
\* A database error or the end of the process: what was written stays.
Abort(r) ==
  /\ r \in Busy
  /\ req' = [req EXCEPT ![r] = Idle]
  /\ serial' = FALSE
  /\ UNCHANGED <<folders, filled, begun, crossed, raced>>

FindTree == UNCHANGED vars

Arrive(r) ==
  \/ \E parent \in Ids \cup {Root}, name \in Names : CreateRead(r, parent, name)
  \/ \E parent \in Ids \cup {Root}, todo \in {<<>>} \cup {<<name>> : name \in Names} :
       UploadRead(r, parent, todo)
  \/ \E f \in Ids, name \in Names, to \in Ids \cup {Root} : UpdateRead(r, f, name, to)
  \/ \E f \in Ids : RemoveRead(r, f)

Proceed(r) ==
  \/ CreateRow(r)
  \/ UploadSeek(r)
  \/ UploadMake(r)
  \/ FilePlace(r)
  \/ UpdateParent(r)
  \/ Climb(r)
  \/ UpdateWrite(r)
  \/ RebuildList(r)
  \/ RebuildChild(r)
  \/ \E what \in {"folders", "files"} : RemoveCount(r, what)
  \/ RemoveMark(r)

Next ==
  \/ \E r \in Requests : Arrive(r) \/ Proceed(r) \/ Abort(r)
  \/ \E f \in Ids : FileRemoved(f)
  \/ FindTree

Spec == Init /\ [][Next]_vars

\* The event loop resumes a handler whose await has settled, and every await
\* of the database settles.
FairSpec == Spec /\ \A r \in Requests : WF_vars(Proceed(r))

-----------------------------------------------------------------------------
Paths == {path \in Seq(Names) : Len(path) \in 1 .. MaxPath}
FolderRows == [deleted : BOOLEAN, parent : Nat, name : Names, path : Paths]

ParentPaths == Paths \cup {<<>>}
Calls == [path : Paths, rest : SUBSET [id : Nat, name : Names]]
Updating == [pc : Placing, folder : Nat, name : Names, parent : Nat, path : ParentPaths,
             at : Nat, moving : BOOLEAN, rebuild : BOOLEAN]

Request ==
  {Idle} \cup Updating
    \cup [pc : {"create"}, parent : Nat, path : ParentPaths, name : Names]
    \cup [pc : {"seek", "make"}, parent : Nat, path : ParentPaths, todo : Seq(Names) \ {<<>>}]
    \cup [pc : {"place"}, parent : Nat]
    \cup [pc : {"list"}, folder : Nat, path : Paths, stack : Seq(Calls)]
    \cup [pc : {"rebuild"}, stack : Seq(Calls) \ {<<>>}]
    \cup [pc : {"remove"}, folder : Nat, todo : SUBSET {"folders", "files"}]

\* The rows a request in flight refers to exist: no handler deletes one.
PointsToRows(held) ==
  /\ held.pc \in Under => held.parent \in Ids \cup {Root}
  /\ held.pc \in Placing \cup {"list", "remove"} => held.folder \in Ids
  /\ held.pc \in {"parent", "climb"} => held.parent \in Ids /\ held.at \in Ids
  /\ held.pc \in {"list", "rebuild"} =>
       \A i \in DOMAIN held.stack : \A child \in held.stack[i].rest : child.id \in Ids

\* The shape of every row and of every request in flight: every folder has a
\* path, and what points at a folder points at one there is.
TypeOK ==
  /\ folders \in Seq(FolderRows)
  /\ \A f \in Ids : folders[f].parent \in Ids \cup {Root}
  /\ filled \subseteq Ids
  /\ req \in [Requests -> Request]
  /\ \A r \in Requests : PointsToRows(req[r])
  /\ begun \in Nat
  /\ serial \in BOOLEAN /\ crossed \in BOOLEAN /\ raced \in BOOLEAN

\* No folder is above itself: every set of folders has one whose parent lies
\* outside it.
Acyclic ==
  \A loop \in (SUBSET Ids) \ {{}} : \E f \in loop : folders[f].parent \notin loop

\* The walk of isDescendant and the write of the new parent are apart, and a
\* rename writes the parent it read: yet only updates that meet between their
\* first read and that write can close a loop, whatever creates, uploads and
\* removals do meanwhile (:63-91).
OnlyCrossingUpdatesLoop == ~crossed => Acyclic

\* A live folder or file is in a live folder, unless a removal was in flight
\* with a request that works under the folder removed (:112-123).
OnlyRacedRemovalsOrphan ==
  ~raced => /\ \A f \in Live : Exists(folders[f].parent)
            /\ filled \subseteq Live

\* Requests one after the other leave the materialised paths of all live
\* folders in agreement with the tree: a rename or a move reaches every
\* descendant (:93-95, :235-247).
PathsAgree ==
  serial /\ Busy = {} =>
    \A f \in Live : folders[f].path = PathUnder(PathOf(folders[f].parent), folders[f].name)

\* Every request ends, the recursion over the descendants included: the tree
\* it walks has no loop (:219-230, :240-246).
RequestsEnd == \A r \in Requests : req[r].pc # "idle" ~> req[r].pc = "idle"

-----------------------------------------------------------------------------
(* What OnlyCrossingUpdatesLoop needs to be inductive.                     *)

\* climbed is a set of folders through which parents lead from a folder of
\* it to none but goal, without the folder that is to move.
LeadsTo(climbed, from, goal, folder) ==
  /\ climbed \subseteq Ids /\ folder \notin climbed
  /\ from \in climbed \cup {goal}
  /\ \A f \in climbed : folders[f].parent \in climbed \cup {goal}

\* What an update has established on its way: a move has climbed past folders
\* that are not its own, a rename holds the parent its folder has.
Climbed(q) ==
  /\ ~q.moving => q.parent = folders[q.folder].parent
  /\ q.pc = "parent" => q.at = q.parent
  /\ q.moving /\ q.pc = "climb" =>
       \E climbed \in SUBSET Ids : LeadsTo(climbed, q.parent, q.at, q.folder)
  /\ q.moving /\ q.pc = "write" =>
       \E climbed \in SUBSET Ids : LeadsTo(climbed, q.parent, Root, q.folder)

UpdateAlone ==
  /\ \A r, s \in Requests : req[r].pc \in Placing /\ req[s].pc \in Placing => r = s
  /\ \A r \in Requests : req[r].pc \in Placing => Climbed(req[r])

LoopInv == ~crossed => Acyclic /\ UpdateAlone

-----------------------------------------------------------------------------
(* What the code says of itself, and concurrent requests do not keep.      *)

\* "Cannot move a folder into its own subtree" (:73), and "Self-referencing
\* tree" (schema.prisma:260).
NeverIntoOwnSubtree == Acyclic
=============================================================================
