-------------------------- MODULE FolderTreeProofs --------------------------
(***************************************************************************)
(* What FolderTree guarantees for every number of requests, every set of   *)
(* names and every bound: the shape of the rows, that only updates that    *)
(* cross can close a loop, that only removals in a race leave something    *)
(* live in a removed folder, and that requests in turn keep every path in  *)
(* step with the tree.                                                     *)
(***************************************************************************)
EXTENDS FolderTree, TLAPS

LEMMA RootIsNoFolder ==
  ASSUME TypeOK
  PROVE  Ids = 1 .. Len(folders) /\ Len(folders) \in Nat /\ Root \notin Ids
         /\ \A f \in Ids : f \in Nat /\ folders[f] \in FolderRows
<1>1. folders \in Seq(FolderRows)
  BY DEF TypeOK
<1>2. Ids = 1 .. Len(folders) /\ Len(folders) \in Nat
  BY <1>1 DEF Ids
<1>3. \A f \in Ids : f \in Nat /\ folders[f] \in FolderRows
  BY <1>1, <1>2
<1> QED BY <1>2, <1>3 DEF Root

LEMMA PathUnderTypes ==
  ASSUME NEW path \in ParentPaths, NEW name \in Names
  PROVE  PathUnder(path, name) \in Paths
<1>1. MaxPath \in Nat \ {0}
  BY FolderBoundsAssumption
<1>2. path \in Seq(Names) /\ Len(path) \in 0 .. MaxPath
  <2>1. CASE path = <<>>
    BY <1>1, <2>1
  <2>2. CASE path \in Paths
    BY <1>1, <2>2 DEF Paths
  <2> QED BY <2>1, <2>2 DEF ParentPaths
<1>3. CASE Len(path) = MaxPath
  BY <1>1, <1>2, <1>3 DEF PathUnder, Paths
<1>4. CASE Len(path) # MaxPath
  <2>1. PathUnder(path, name) = Append(path, name)
    BY <1>4 DEF PathUnder
  <2>2. Append(path, name) \in Seq(Names) /\ Len(Append(path, name)) = Len(path) + 1
    BY <1>2
  <2>3. Len(path) + 1 \in 1 .. MaxPath
    BY <1>1, <1>2, <1>4
  <2> QED BY <2>1, <2>2, <2>3 DEF Paths
<1> QED BY <1>3, <1>4

LEMMA PathOfTypes ==
  ASSUME TypeOK, NEW f \in Ids \cup {Root}
  PROVE  PathOf(f) \in ParentPaths
BY RootIsNoFolder DEF PathOf, ParentPaths, FolderRows

LEMMA RowTypes ==
  ASSUME NEW parent \in Nat, NEW path \in ParentPaths, NEW name \in Names
  PROVE  NewRow(parent, path, name) \in FolderRows
         /\ NewRow(parent, path, name).parent = parent
BY PathUnderTypes DEF NewRow, FolderRows

-----------------------------------------------------------------------------
(* Type correctness: a lemma for each way a step writes the rows           *)

\* No row is written.
LEMMA RowsKept ==
  ASSUME TypeOK, NEW r \in Requests, NEW held \in Request, PointsToRows(held),
         req' = [req EXCEPT ![r] = held], UNCHANGED folders, filled' \subseteq Ids,
         begun' \in Nat, serial' \in BOOLEAN, crossed' \in BOOLEAN, raced' \in BOOLEAN
  PROVE  TypeOK'
<1>1. Ids' = Ids /\ Live' = Live
  BY DEF Ids, Live
<1>2. \A q \in Requests : PointsToRows(req[q])'
  BY <1>1 DEF TypeOK, PointsToRows
<1> QED BY <1>1, <1>2 DEF TypeOK

\* One row is overwritten.
LEMMA RowWritten ==
  ASSUME TypeOK, NEW r \in Requests, NEW held \in Request, PointsToRows(held),
         req' = [req EXCEPT ![r] = held], NEW f \in Ids, NEW row \in FolderRows,
         row.parent \in Ids \cup {Root}, folders' = [folders EXCEPT ![f] = row],
         UNCHANGED <<filled, begun, ghosts>>
  PROVE  TypeOK' /\ Ids' = Ids
<1>1. folders \in Seq(FolderRows) /\ f \in DOMAIN folders
  BY DEF TypeOK, Ids
<1>2. folders' \in Seq(FolderRows) /\ DOMAIN folders' = DOMAIN folders
  BY <1>1
<1>3. Ids' = Ids
  BY <1>2 DEF Ids
<1>4. \A g \in Ids : folders'[g].parent \in Ids \cup {Root}
  BY <1>1 DEF TypeOK, Ids
<1>5. \A q \in Requests : PointsToRows(req[q])'
  BY <1>3 DEF TypeOK, PointsToRows
<1> QED BY <1>2, <1>3, <1>4, <1>5 DEF TypeOK, ghosts

\* One row is added.
LEMMA RowAppended ==
  ASSUME TypeOK, NEW r \in Requests, NEW held \in Request, PointsToRows(held)',
         req' = [req EXCEPT ![r] = held], NEW row \in FolderRows,
         row.parent \in Ids \cup {Root}, folders' = Append(folders, row),
         UNCHANGED <<filled, begun, ghosts>>
  PROVE  TypeOK'
<1>1. folders \in Seq(FolderRows) /\ Len(folders) \in Nat /\ Ids = 1 .. Len(folders)
  BY DEF TypeOK, Ids
<1>2. /\ folders' \in Seq(FolderRows) /\ DOMAIN folders' = 1 .. Len(folders) + 1
      /\ folders'[Len(folders) + 1] = row
      /\ \A g \in 1 .. Len(folders) : folders'[g] = folders[g]
  BY <1>1
<1>3. Ids' = 1 .. Len(folders) + 1 /\ Ids \subseteq Ids'
  BY <1>1, <1>2 DEF Ids
<1>4. \A g \in Ids' : folders'[g].parent \in Ids' \cup {Root}
  BY <1>1, <1>2, <1>3 DEF TypeOK
<1>5. \A q \in Requests : PointsToRows(req[q])'
  BY <1>3 DEF TypeOK, PointsToRows
<1> QED BY <1>2, <1>3, <1>4, <1>5 DEF TypeOK, ghosts

LEMMA Slots ==
  ASSUME TypeOK, NEW r \in Requests, NEW held, Begin(r, held) \/ Continue(r, held)
  PROVE  /\ req' = [req EXCEPT ![r] = held] /\ begun' \in Nat
         /\ Continue(r, held) => UNCHANGED <<begun, ghosts>>
BY DEF TypeOK, Begin, Continue

LEMMA InitTypes == Init => TypeOK
<1> SUFFICES ASSUME Init PROVE TypeOK
  OBVIOUS
<1>1. Template \in Seq(Names)
  BY TemplateAssumption
<1>2. \A name \in Names : <<name>> \in Paths
  BY FolderBoundsAssumption DEF Paths
<1>3. Seeded \in Seq(FolderRows) /\ \A f \in DOMAIN Seeded : Seeded[f].parent = Root
  <2> DEFINE row(i) == [deleted |-> FALSE, parent |-> Root, name |-> Template[i],
                        path |-> <<Template[i]>>]
  <2>1. DOMAIN Template = 1 .. Len(Template) /\ Len(Template) \in Nat
    BY <1>1
  <2>2. \A i \in 1 .. Len(Template) : row(i) \in FolderRows /\ row(i).parent = Root
    BY <1>1, <1>2 DEF FolderRows, Root
  <2>3. Seeded = [i \in 1 .. Len(Template) |-> row(i)]
    BY <2>1 DEF Seeded
  <2> HIDE DEF row
  <2>4. Seeded \in [1 .. Len(Template) -> FolderRows]
    BY <2>2, <2>3
  <2> QED BY <2>1, <2>2, <2>3, <2>4
<1>4. folders \in Seq(FolderRows) /\ \A f \in Ids : folders[f].parent \in Ids \cup {Root}
  <2>1. CASE folders = <<>>
    BY <2>1 DEF Ids
  <2>2. CASE folders = Seeded
    BY <1>3, <2>2 DEF Ids
  <2> QED BY <2>1, <2>2 DEF Init
<1>5. filled \subseteq Ids /\ begun \in Nat
  BY DEF Init
<1>6. req \in [Requests -> Request] /\ \A r \in Requests : PointsToRows(req[r])
  BY DEF Init, Request, Idle, PointsToRows, Under, Placing
<1>7. serial \in BOOLEAN /\ crossed \in BOOLEAN /\ raced \in BOOLEAN
  BY Zenon DEF Init
<1> QED BY <1>4, <1>5, <1>6, <1>7 DEF TypeOK

\* What a request holds at each pc.
LEMMA HeldTypes ==
  ASSUME TypeOK, NEW r \in Requests
  PROVE  LET q == req[r] IN
         /\ q.pc = "create" => q.parent \in Nat /\ q.path \in ParentPaths /\ q.name \in Names
         /\ q.pc \in {"seek", "make"} =>
              q.parent \in Nat /\ q.path \in ParentPaths /\ q.todo \in Seq(Names) \ {<<>>}
         /\ q.pc = "place" => q.parent \in Nat
         /\ q.pc \in Placing => q \in Updating
         /\ q.pc = "list" => q.folder \in Nat /\ q.path \in Paths /\ q.stack \in Seq(Calls)
         /\ q.pc = "rebuild" => q.stack \in Seq(Calls) \ {<<>>}
         /\ q.pc = "remove" => q.folder \in Nat /\ q.todo \subseteq {"folders", "files"}
         /\ PointsToRows(q)
<1>1. req[r] \in Request /\ PointsToRows(req[r])
  BY DEF TypeOK
<1> QED BY <1>1 DEF Request, Idle, Placing, Updating

LEMMA IdleTypes == Idle \in Request /\ PointsToRows(Idle)
BY DEF Request, Idle, PointsToRows, Under, Placing

\* Whatever is left of a call and of the calls around it.
LEMMA PendingTypes ==
  ASSUME NEW call \in Calls, NEW stack \in Seq(Calls), NEW S,
         \A child \in call.rest : child.id \in S,
         \A i \in DOMAIN stack : \A child \in stack[i].rest : child.id \in S
  PROVE  /\ Pending(call, stack) \in Seq(Calls)
         /\ \A i \in DOMAIN Pending(call, stack) :
              \A child \in Pending(call, stack)[i].rest : child.id \in S
<1>1. CASE call.rest = {}
  BY <1>1 DEF Pending
<1>2. CASE call.rest # {}
  <2>1. Pending(call, stack) = <<call>> \o stack
    BY <1>2 DEF Pending
  <2>2. <<call>> \o stack \in Seq(Calls) /\ Len(<<call>> \o stack) = Len(stack) + 1
    OBVIOUS
  <2>3. \A i \in 1 .. Len(stack) + 1 :
          (<<call>> \o stack)[i] = IF i = 1 THEN call ELSE stack[i - 1]
    OBVIOUS
  <2>4. DOMAIN (<<call>> \o stack) = 1 .. Len(stack) + 1 /\ DOMAIN stack = 1 .. Len(stack)
        /\ Len(stack) \in Nat
    BY <2>2
  <2>5. ASSUME NEW i \in 1 .. Len(stack) + 1, NEW child \in (<<call>> \o stack)[i].rest
        PROVE  child.id \in S
    BY <2>3, <2>4, <2>5
  <2> QED BY <2>1, <2>2, <2>4, <2>5
<1> QED BY <1>1, <1>2

LEMMA StepTypes ==
  ASSUME TypeOK, [Next]_vars
  PROVE  TypeOK'
<1>1. ASSUME NEW r \in Requests, NEW parent \in Ids \cup {Root}, NEW name \in Names,
             CreateRead(r, parent, name)
      PROVE  TypeOK'
  <2> DEFINE held == [pc |-> "create", parent |-> parent, path |-> PathOf(parent),
                      name |-> name]
  <2>1. Begin(r, held) /\ UNCHANGED <<folders, filled, crossed>>
    BY <1>1 DEF CreateRead
  <2>2. PathOf(parent) \in ParentPaths /\ parent \in Nat
    BY PathOfTypes, RootIsNoFolder DEF Root
  <2>3. held \in Request
    BY <2>2 DEF Request
  <2>4. PointsToRows(held)
    BY DEF PointsToRows, Placing
  <2>5. serial' \in BOOLEAN /\ crossed' \in BOOLEAN /\ raced' \in BOOLEAN
    BY <1>1, Zenon DEF CreateRead, Begin, TypeOK
  <2>6. filled' \subseteq Ids
    BY <2>1 DEF TypeOK
  <2> HIDE DEF held
  <2> QED BY <2>1, <2>3, <2>4, <2>5, <2>6, Slots, RowsKept
<1>2. ASSUME NEW r \in Requests, CreateRow(r)
      PROVE  TypeOK'
  <2> DEFINE q == req[r]
             row == NewRow(q.parent, q.path, q.name)
  <2>1. Continue(r, Idle) /\ folders' = Append(folders, row) /\ UNCHANGED filled
    BY <1>2 DEF CreateRow
  <2>2. row \in FolderRows /\ row.parent \in Ids \cup {Root}
    BY <1>2, HeldTypes, RowTypes DEF CreateRow, PointsToRows, Under
  <2> HIDE DEF row
  <2>3. PointsToRows(Idle)'
    BY DEF Idle, PointsToRows, Under, Placing
  <2> QED BY <2>1, <2>2, <2>3, IdleTypes, Slots, RowAppended
<1>3. ASSUME NEW r \in Requests, NEW parent \in Ids \cup {Root}, NEW todo \in Seq(Names),
             UploadRead(r, parent, todo)
      PROVE  TypeOK'
  <2> DEFINE held == Onward(parent, PathOf(parent), todo)
  <2>1. Begin(r, held) /\ UNCHANGED <<folders, filled, crossed>>
    BY <1>3 DEF UploadRead
  <2>2. PathOf(parent) \in ParentPaths /\ parent \in Nat
    BY PathOfTypes, RootIsNoFolder DEF Root
  <2>3. held \in Request
    BY <2>2 DEF Request, Onward
  <2>4. PointsToRows(held)
    BY DEF PointsToRows, Placing, Onward
  <2>5. serial' \in BOOLEAN /\ crossed' \in BOOLEAN /\ raced' \in BOOLEAN
    BY <1>3, Zenon DEF UploadRead, Begin, TypeOK
  <2>6. filled' \subseteq Ids
    BY <2>1 DEF TypeOK
  <2> HIDE DEF held
  <2> QED BY <2>1, <2>3, <2>4, <2>5, <2>6, Slots, RowsKept
<1>4. ASSUME NEW r \in Requests, UploadSeek(r)
      PROVE  TypeOK'
  <2> DEFINE q == req[r]
  <2>1. /\ q.parent \in Nat /\ q.path \in ParentPaths /\ q.todo \in Seq(Names) \ {<<>>}
        /\ q.parent \in Ids \cup {Root} /\ q.pc = "seek"
    BY <1>4, HeldTypes DEF UploadSeek, PointsToRows, Under
  <2>2. /\ UNCHANGED folders /\ filled' \subseteq Ids /\ begun' \in Nat
        /\ serial' \in BOOLEAN /\ crossed' \in BOOLEAN
    BY <1>4 DEF UploadSeek, TypeOK
  <2>3. raced' \in BOOLEAN
    BY <1>4, Zenon DEF UploadSeek, TypeOK
  <2>4. CASE req' = [req EXCEPT ![r] = [q EXCEPT !.pc = "make"]]
    <3> DEFINE held == [q EXCEPT !.pc = "make"]
    <3>1. q \in Request
      BY DEF TypeOK
    <3>2. held \in Request /\ held.pc = "make" /\ held.parent = q.parent
      BY <2>1, <3>1 DEF Request, Idle, Updating, Placing
    <3>3. PointsToRows(held)
      BY <2>1, <3>2 DEF PointsToRows, Placing
    <3> HIDE DEF held
    <3>4. req' = [req EXCEPT ![r] = held]
      BY <2>4 DEF held
    <3> HIDE DEF q
    <3> QED BY <2>2, <2>3, <3>2, <3>3, <3>4, RowsKept
  <2>5. ASSUME NEW f \in Live,
               req' = [req EXCEPT ![r] = Onward(f, folders[f].path, Tail(q.todo))]
        PROVE  TypeOK'
    <3> DEFINE held == Onward(f, folders[f].path, Tail(q.todo))
    <3>1. f \in Ids /\ f \in Nat /\ folders[f].path \in ParentPaths
      BY RootIsNoFolder DEF Live, FolderRows, ParentPaths
    <3>2. Tail(q.todo) \in Seq(Names)
      BY <2>1
    <3>3. held \in Request
      BY <3>1, <3>2 DEF Request, Onward
    <3>4. PointsToRows(held)
      BY <3>1 DEF PointsToRows, Placing, Onward
    <3>5. req' = [req EXCEPT ![r] = held]
      BY <2>5
    <3> HIDE DEF held
    <3> QED BY <2>2, <2>3, <3>3, <3>4, <3>5, RowsKept
  <2> QED BY <1>4, <2>4, <2>5 DEF UploadSeek
<1>5. ASSUME NEW r \in Requests, UploadMake(r)
      PROVE  TypeOK'
  <2> DEFINE q == req[r]
             row == NewRow(q.parent, q.path, Head(q.todo))
  <2>1. /\ q.parent \in Nat /\ q.path \in ParentPaths /\ q.todo \in Seq(Names) \ {<<>>}
        /\ q.parent \in Ids \cup {Root}
    BY <1>5, HeldTypes DEF UploadMake, PointsToRows, Under
  <2>2. Head(q.todo) \in Names /\ Tail(q.todo) \in Seq(Names)
    BY <2>1
  <2>3. row \in FolderRows /\ row.parent \in Ids \cup {Root}
    BY <2>1, <2>2, RowTypes
  <2>4. PICK id, held : /\ id = Len(folders) + 1
                        /\ held = Onward(id, row.path, Tail(q.todo))
    OBVIOUS
  <2>5. Continue(r, held) /\ folders' = Append(folders, row) /\ UNCHANGED filled
    BY <1>5, <2>4 DEF UploadMake
  <2>6. row.path \in ParentPaths /\ id \in Nat
    BY <2>3, <2>4, RootIsNoFolder DEF FolderRows, ParentPaths
  <2>7. held \in Request
    BY <2>2, <2>4, <2>6 DEF Request, Onward
  <2> HIDE DEF row
  <2>8. id \in Ids'
    BY <2>3, <2>4, <2>5 DEF Ids, TypeOK
  <2>9. held.pc \in {"place", "seek"} /\ held.parent = id
    BY <2>4 DEF Onward
  <2>10. PointsToRows(held)'
    BY <2>8, <2>9 DEF PointsToRows, Placing
  <2> QED BY <2>3, <2>5, <2>7, <2>10, Slots, RowAppended
<1>6. ASSUME NEW r \in Requests, FilePlace(r)
      PROVE  TypeOK'
  <2>1. Continue(r, Idle) /\ UNCHANGED folders
    BY <1>6 DEF FilePlace
  <2>2. req[r].parent \in Ids \cup {Root}
    BY <1>6, HeldTypes DEF FilePlace, PointsToRows, Under
  <2>3. filled' \subseteq Ids
    BY <1>6, <2>2 DEF FilePlace, TypeOK
  <2>4. serial' \in BOOLEAN /\ crossed' \in BOOLEAN /\ raced' \in BOOLEAN
    BY <2>1 DEF Continue, ghosts, TypeOK
  <2> QED BY <2>1, <2>3, <2>4, IdleTypes, Slots, RowsKept
<1>7. ASSUME NEW f \in Ids, FileRemoved(f)
      PROVE  TypeOK'
  BY <1>7 DEF FileRemoved, TypeOK, ghosts, Ids, Live, PointsToRows
<1>8. ASSUME NEW r \in Requests, NEW f \in Ids, NEW name \in Names,
             NEW to \in Ids \cup {Root}, UpdateRead(r, f, name, to)
      PROVE  TypeOK'
  <2> DEFINE held == [pc |-> IF to = Root THEN "write" ELSE "parent",
                      folder |-> f, name |-> name, parent |-> to, path |-> <<>>, at |-> to,
                      moving |-> to # folders[f].parent,
                      rebuild |-> to # folders[f].parent \/ name # folders[f].name]
  <2>1. Begin(r, held) /\ UNCHANGED <<folders, filled>>
    BY <1>8 DEF UpdateRead
  <2>2. f \in Nat /\ to \in Nat
    BY RootIsNoFolder DEF Root
  <2>3. held \in Updating
    BY <2>2 DEF Updating, Placing, ParentPaths
  <2>4. PointsToRows(held)
    BY DEF PointsToRows, Placing, Under
  <2>5. serial' \in BOOLEAN /\ crossed' \in BOOLEAN /\ raced' \in BOOLEAN
    BY <1>8, Zenon DEF UpdateRead, Begin, TypeOK
  <2>6. filled' \subseteq Ids /\ held \in Request
    BY <2>1, <2>3 DEF TypeOK, Request
  <2> HIDE DEF held
  <2> QED BY <2>1, <2>4, <2>5, <2>6, Slots, RowsKept
<1>9. ASSUME NEW r \in Requests, UpdateParent(r) \/ Climb(r)
      PROVE  TypeOK'
  <2> DEFINE q == req[r]
  <2>1. q \in Updating /\ PointsToRows(q) /\ q.pc \in {"parent", "climb"}
    BY <1>9, HeldTypes DEF UpdateParent, Climb, Placing
  <2>2. UNCHANGED <<folders, filled, begun, ghosts>>
    BY <1>9 DEF UpdateParent, Climb, Continue
  <2>3. /\ filled' \subseteq Ids /\ begun' \in Nat
        /\ serial' \in BOOLEAN /\ crossed' \in BOOLEAN /\ raced' \in BOOLEAN
    BY <2>2 DEF ghosts, TypeOK
  <2>4. ASSUME NEW held \in Request, PointsToRows(held), Continue(r, held)
        PROVE  TypeOK'
    BY <2>2, <2>3, <2>4, Slots, RowsKept
  <2>5. q.parent \in Ids \cup {Root} /\ q.folder \in Ids
    BY <2>1 DEF PointsToRows, Under, Placing
  <2>6. CASE UpdateParent(r)
    <3> DEFINE held == [q EXCEPT !.pc = IF q.moving THEN "climb" ELSE "write",
                                 !.path = folders[q.parent].path]
    <3>1. q.pc = "parent" /\ (Continue(r, Idle) \/ Continue(r, held))
      BY <2>6 DEF UpdateParent
    <3>2. q.parent \in Ids
      BY <2>1, <3>1 DEF PointsToRows
    <3>3. folders[q.parent].path \in ParentPaths
      BY <3>2, RootIsNoFolder DEF FolderRows, ParentPaths
    <3>4. held \in Updating /\ held.pc \in {"climb", "write"}
      BY <2>1, <3>3 DEF Updating, Placing
    <3>5. PointsToRows(held)
      <4>1. held.parent = q.parent /\ held.folder = q.folder /\ held.at = q.at
        BY <2>1 DEF Updating
      <4>2. q.at \in Ids
        BY <2>1, <3>1 DEF PointsToRows
      <4> HIDE DEF held, q
      <4> QED BY <2>5, <3>2, <3>4, <4>1, <4>2 DEF PointsToRows, Placing
    <3>6. held \in Request
      BY <3>4 DEF Request
    <3> HIDE DEF held
    <3> QED BY <2>4, <3>1, <3>5, <3>6, IdleTypes
  <2>7. CASE Climb(r)
    <3>1. q.at \in Ids /\ q.pc = "climb"
      BY <2>1, <2>7 DEF Climb, PointsToRows
    <3>2. folders[q.at].parent \in Ids \cup {Root}
      BY <3>1 DEF TypeOK
    <3> DEFINE ready == [q EXCEPT !.pc = "write"]
               higher == [q EXCEPT !.at = folders[q.at].parent]
    <3>3. ready \in Request /\ PointsToRows(ready)
      BY <2>1, <2>5 DEF Request, Updating, Placing, PointsToRows
    <3>4. ASSUME folders[q.at].parent # Root
          PROVE  higher \in Request /\ PointsToRows(higher)
      <4>1. folders[q.at].parent \in Nat /\ folders[q.at].parent \in Ids
        BY <3>2, <3>4, RootIsNoFolder
      <4>2. higher \in Updating
        BY <2>1, <4>1 DEF Updating
      <4>3. PointsToRows(higher)
        BY <2>1, <2>5, <3>1, <4>1 DEF Updating, PointsToRows
      <4> QED BY <4>2, <4>3 DEF Request
    <3>5. \/ Continue(r, Idle) \/ Continue(r, ready)
          \/ folders[q.at].parent # Root /\ Continue(r, higher)
      BY <2>7 DEF Climb
    <3> HIDE DEF ready, higher, q
    <3> QED BY <2>4, <3>3, <3>4, <3>5, IdleTypes
  <2> QED BY <1>9, <2>6, <2>7
<1>10. ASSUME NEW r \in Requests, UpdateWrite(r)
       PROVE  TypeOK'
  <2> DEFINE q == req[r]
             path == PathUnder(q.path, q.name)
             row == [folders[q.folder] EXCEPT !.name = q.name, !.parent = q.parent,
                                              !.path = path]
             next == [pc |-> "list", folder |-> q.folder, path |-> path, stack |-> <<>>]
  <2>1. q \in Updating /\ PointsToRows(q) /\ q.pc = "write"
    BY <1>10, HeldTypes DEF UpdateWrite, Placing
  <2>2. q.folder \in Ids /\ q.parent \in Ids \cup {Root} /\ q.folder \in Nat
    BY <2>1 DEF PointsToRows, Placing, Under, Updating
  <2>3. path \in Paths
    BY <2>1, PathUnderTypes DEF Updating
  <2>4. \/ Continue(r, next) \/ Continue(r, Idle)
    BY <1>10 DEF UpdateWrite
  <2>5. UNCHANGED filled
    BY <1>10 DEF UpdateWrite
  <2> HIDE DEF path
  <2>6. next \in Request /\ PointsToRows(next)
    BY <2>2, <2>3 DEF Request, PointsToRows, Under, Placing
  <2>7. folders[q.folder] \in FolderRows
    BY <2>2, RootIsNoFolder
  <2>8. row \in FolderRows /\ row.parent = q.parent
    BY <2>1, <2>3, <2>7 DEF FolderRows, Updating
  <2>9. folders' = [folders EXCEPT ![q.folder] = row]
    BY <1>10, <2>2, <2>7 DEF UpdateWrite, path, FolderRows, Ids
  <2> HIDE DEF row, next, q
  <2> QED BY <2>2, <2>4, <2>5, <2>6, <2>8, <2>9, IdleTypes, Slots, RowWritten
<1>11. ASSUME NEW r \in Requests, RebuildList(r)
       PROVE  TypeOK'
  <2> DEFINE q == req[r]
             children == {[id |-> f, name |-> folders[f].name] :
                            f \in {g \in Live : folders[g].parent = q.folder}}
             call == [path |-> q.path, rest |-> children]
             stack == Pending(call, q.stack)
             held == IF stack = <<>> THEN Idle ELSE [pc |-> "rebuild", stack |-> stack]
  <2>1. /\ q.path \in Paths /\ q.stack \in Seq(Calls) /\ PointsToRows(q) /\ q.pc = "list"
    BY <1>11, HeldTypes DEF RebuildList
  <2>2. \A child \in children : child.id \in Ids /\ child \in [id : Nat, name : Names]
    BY RootIsNoFolder DEF Live, FolderRows
  <2>3. call \in Calls /\ call.rest = children
    BY <2>1, <2>2 DEF Calls
  <2>4. \A i \in DOMAIN q.stack : \A child \in q.stack[i].rest : child.id \in Ids
    BY <2>1 DEF PointsToRows
  <2>5. Continue(r, held) /\ UNCHANGED <<folders, filled>>
    BY <1>11 DEF RebuildList
  <2> HIDE DEF call, children, q
  <2>6. /\ stack \in Seq(Calls)
        /\ \A i \in DOMAIN stack : \A child \in stack[i].rest : child.id \in Ids
    BY <2>1, <2>2, <2>3, <2>4, PendingTypes
  <2> HIDE DEF stack
  <2>7. held \in Request /\ PointsToRows(held)
    BY <2>6, IdleTypes DEF Request, PointsToRows, Under, Placing
  <2>8. filled' \subseteq Ids /\ serial' \in BOOLEAN /\ crossed' \in BOOLEAN
          /\ raced' \in BOOLEAN
    BY <2>5 DEF Continue, ghosts, TypeOK
  <2> HIDE DEF held
  <2> QED BY <2>5, <2>7, <2>8, Slots, RowsKept
<1>12. ASSUME NEW r \in Requests, RebuildChild(r)
       PROVE  TypeOK'
  <2> DEFINE q == req[r]
             call == Head(q.stack)
  <2>1. q.stack \in Seq(Calls) \ {<<>>} /\ PointsToRows(q) /\ q.pc = "rebuild"
    BY <1>12, HeldTypes DEF RebuildChild
  <2>2. /\ call \in Calls /\ call = q.stack[1] /\ 1 \in DOMAIN q.stack
        /\ Tail(q.stack) \in Seq(Calls)
        /\ DOMAIN Tail(q.stack) = 1 .. Len(q.stack) - 1
        /\ \A i \in 1 .. Len(q.stack) - 1 : /\ Tail(q.stack)[i] = q.stack[i + 1]
                                            /\ i + 1 \in DOMAIN q.stack
    BY <2>1
  <2>3. \A i \in DOMAIN q.stack : \A child \in q.stack[i].rest : child.id \in Ids
    BY <2>1 DEF PointsToRows
  <2>4. PICK child \in call.rest :
           LET path == PathUnder(call.path, child.name) IN
           /\ folders' = [folders EXCEPT ![child.id].path = path]
           /\ Continue(r, Descend(child.id, path,
                                  Pending([path |-> call.path, rest |-> call.rest \ {child}],
                                          Tail(q.stack))))
    BY <1>12 DEF RebuildChild
  <2> DEFINE path == PathUnder(call.path, child.name)
             left == [path |-> call.path, rest |-> call.rest \ {child}]
             stack == Pending(left, Tail(q.stack))
             held == Descend(child.id, path, stack)
             row == [folders[child.id] EXCEPT !.path = path]
  <2>5. child.id \in Ids /\ child \in [id : Nat, name : Names] /\ call.path \in ParentPaths
    BY <2>2, <2>3, <2>4 DEF Calls, ParentPaths
  <2>6. path \in Paths
    BY <2>5, PathUnderTypes
  <2>7. left \in Calls /\ left.rest \subseteq call.rest
    BY <2>2 DEF Calls
  <2>8. Continue(r, held) /\ folders' = [folders EXCEPT ![child.id].path = path]
    BY <2>4
  <2>9. UNCHANGED filled
    BY <1>12 DEF RebuildChild
  <2>10. \A c \in left.rest : c.id \in Ids
    BY <2>2, <2>3, <2>7
  <2>11. \A i \in DOMAIN Tail(q.stack) : \A c \in Tail(q.stack)[i].rest : c.id \in Ids
    BY <2>2, <2>3
  <2> HIDE DEF left, path, call, q
  <2>12. /\ stack \in Seq(Calls)
         /\ \A i \in DOMAIN stack : \A c \in stack[i].rest : c.id \in Ids
    BY <2>2, <2>7, <2>10, <2>11, PendingTypes
  <2> HIDE DEF stack
  <2>13. held \in Request /\ PointsToRows(held)
    BY <2>5, <2>6, <2>12 DEF Request, PointsToRows, Under, Placing, Descend
  <2>14. folders[child.id] \in FolderRows /\ folders[child.id].parent \in Ids \cup {Root}
    BY <2>5, RootIsNoFolder DEF TypeOK
  <2>15. row \in FolderRows /\ row.parent \in Ids \cup {Root}
    BY <2>6, <2>14 DEF FolderRows
  <2>16. folders' = [folders EXCEPT ![child.id] = row]
    BY <2>8
  <2> HIDE DEF held, row
  <2> QED BY <2>5, <2>8, <2>9, <2>13, <2>15, <2>16, Slots, RowWritten
<1>13. ASSUME NEW r \in Requests, NEW f \in Ids, RemoveRead(r, f)
       PROVE  TypeOK'
  <2> DEFINE held == [pc |-> "remove", folder |-> f, todo |-> {"folders", "files"}]
  <2>1. Begin(r, held) /\ UNCHANGED <<folders, filled, crossed>>
    BY <1>13 DEF RemoveRead
  <2>2. held \in Request /\ PointsToRows(held)
    BY RootIsNoFolder DEF Request, PointsToRows, Under, Placing
  <2>3. serial' \in BOOLEAN /\ crossed' \in BOOLEAN /\ raced' \in BOOLEAN
    BY <1>13, Zenon DEF RemoveRead, Begin, TypeOK
  <2>4. filled' \subseteq Ids
    BY <2>1 DEF TypeOK
  <2> HIDE DEF held
  <2> QED BY <2>1, <2>2, <2>3, <2>4, Slots, RowsKept
<1>14. ASSUME NEW r \in Requests, NEW what \in {"folders", "files"}, RemoveCount(r, what)
       PROVE  TypeOK'
  <2> DEFINE q == req[r]
             held == [q EXCEPT !.todo = @ \ {what}]
  <2>1. /\ Continue(r, Idle) \/ Continue(r, held)
        /\ UNCHANGED <<folders, filled>> /\ q.pc = "remove"
    BY <1>14 DEF RemoveCount
  <2>2. q \in Request /\ PointsToRows(q)
    BY DEF TypeOK
  <2>3. q \in [pc : {"remove"}, folder : Nat, todo : SUBSET {"folders", "files"}]
    BY <2>1, <2>2 DEF Request, Idle, Updating, Placing
  <2>4. held \in Request /\ PointsToRows(held)
    BY <2>2, <2>3 DEF Request, PointsToRows, Under, Placing
  <2>5. /\ filled' \subseteq Ids /\ serial' \in BOOLEAN /\ crossed' \in BOOLEAN
        /\ raced' \in BOOLEAN
    BY <2>1 DEF Continue, ghosts, TypeOK
  <2> HIDE DEF held
  <2> QED BY <2>1, <2>4, <2>5, IdleTypes, Slots, RowsKept
<1>15. ASSUME NEW r \in Requests, RemoveMark(r)
       PROVE  TypeOK'
  <2> DEFINE f == req[r].folder
             row == [folders[f] EXCEPT !.deleted = TRUE]
  <2>1. f \in Ids
    BY <1>15, HeldTypes DEF RemoveMark, PointsToRows, Placing
  <2>2. folders[f] \in FolderRows /\ folders[f].parent \in Ids \cup {Root}
    BY <2>1, RootIsNoFolder DEF TypeOK
  <2>3. row \in FolderRows /\ row.parent \in Ids \cup {Root}
    BY <2>2 DEF FolderRows
  <2>4. /\ Continue(r, Idle) /\ folders' = [folders EXCEPT ![f] = row]
        /\ UNCHANGED filled
    BY <1>15 DEF RemoveMark
  <2> HIDE DEF row, f
  <2> QED BY <2>1, <2>3, <2>4, IdleTypes, Slots, RowWritten
<1>16. ASSUME NEW r \in Requests, Abort(r)
       PROVE  TypeOK'
  <2>1. /\ req' = [req EXCEPT ![r] = Idle]
        /\ UNCHANGED <<folders, filled, begun, crossed, raced>>
    BY <1>16 DEF Abort
  <2>2. filled' \subseteq Ids /\ begun' \in Nat /\ crossed' \in BOOLEAN /\ raced' \in BOOLEAN
    BY <2>1 DEF TypeOK
  <2>3. serial' \in BOOLEAN
    BY <1>16, Zenon DEF Abort
  <2> QED BY <2>1, <2>2, <2>3, IdleTypes, RowsKept
<1>17. CASE UNCHANGED vars
  BY <1>17 DEF vars, ghosts, TypeOK, PointsToRows, Ids
<1>18. \A name \in Names : <<name>> \in Seq(Names)
  OBVIOUS
<1>19. <<>> \in Seq(Names)
  OBVIOUS
<1>20. ASSUME NEW r \in Requests, Arrive(r) PROVE TypeOK'
  BY <1>1, <1>3, <1>8, <1>13, <1>18, <1>19, <1>20 DEF Arrive
<1>21. ASSUME NEW r \in Requests, Proceed(r) PROVE TypeOK'
  BY <1>2, <1>4, <1>5, <1>6, <1>9, <1>10, <1>11, <1>12, <1>14, <1>15, <1>21 DEF Proceed
<1> QED BY <1>7, <1>16, <1>17, <1>20, <1>21 DEF Next, FindTree

-----------------------------------------------------------------------------
(* Only updates that cross close a loop                                    *)

\* The tree at most grows, and no update has moved on.
LEMMA TreeGrows ==
  ASSUME TypeOK, LoopInv, Ids \subseteq Ids', UNCHANGED crossed, Root \notin Ids',
         \A f \in Ids : folders'[f].parent = folders[f].parent,
         \A f \in Ids' \ Ids : folders'[f].parent \in Ids \cup {Root},
         \A q \in Requests : req'[q].pc \in Placing => req'[q] = req[q]
  PROVE  LoopInv'
<1> SUFFICES ASSUME ~crossed PROVE Acyclic' /\ UpdateAlone'
  BY DEF LoopInv
<1>1. Acyclic /\ UpdateAlone
  BY DEF LoopInv
<1>2. ASSUME NEW loop \in (SUBSET Ids') \ {{}},
             \A f \in loop : folders'[f].parent \in loop
      PROVE  FALSE
  <2> DEFINE old == loop \cap Ids
  <2>1. \E f : f \in loop
    BY <1>2
  <2>2. \E f : f \in old
    BY <1>2, <2>1
  <2>3. \A g \in old : folders[g].parent \in old
    BY <1>2 DEF TypeOK
  <2>4. old \in (SUBSET Ids) \ {{}}
    BY <2>2
  <2> HIDE DEF old
  <2> QED BY <1>1, <2>3, <2>4 DEF Acyclic
<1>3. Acyclic'
  BY <1>2 DEF Acyclic
<1>4. ASSUME NEW q \in Requests, req'[q].pc \in Placing
      PROVE  Climbed(req[q])'
  <2>1. req'[q] = req[q] /\ Climbed(req[q]) /\ req[q].folder \in Ids
    BY <1>1, <1>4 DEF UpdateAlone, TypeOK, PointsToRows
  <2>2. \A from, goal, folder : \A climbed \in SUBSET Ids :
          LeadsTo(climbed, from, goal, folder)
            => climbed \in SUBSET Ids' /\ LeadsTo(climbed, from, goal, folder)'
    BY DEF LeadsTo
  <2> QED BY <2>1, <2>2 DEF Climbed
<1> QED BY <1>1, <1>3, <1>4 DEF UpdateAlone

\* One update moves on, having established what it must.
LEMMA UpdateMovesOn ==
  ASSUME TypeOK, LoopInv, UNCHANGED folders, NEW r \in Requests, NEW held,
         req' = [req EXCEPT ![r] = held], crossed' \in BOOLEAN,
         ~crossed' => /\ ~crossed
                      /\ \A q \in Requests \ {r} : req[q].pc \notin Placing
                      /\ held.pc \in Placing => Climbed(held)
  PROVE  LoopInv'
<1> SUFFICES ASSUME ~crossed' PROVE Acyclic' /\ UpdateAlone'
  BY DEF LoopInv
<1>1. Ids' = Ids /\ Acyclic
  BY DEF Ids, LoopInv
<1>2. Acyclic'
  BY <1>1 DEF Acyclic
<1>3. req'[r] = held /\ \A q \in Requests \ {r} : req'[q] = req[q]
  BY DEF TypeOK
<1>4. Climbed(held) => Climbed(held)'
  BY <1>1 DEF Climbed, LeadsTo
<1>5. held.pc \in Placing => Climbed(req[r])'
  BY <1>1, <1>3 DEF Climbed, LeadsTo
<1> QED BY <1>2, <1>3, <1>5 DEF UpdateAlone

LEMMA UpdateIsAlone ==
  ASSUME LoopInv, ~crossed, NEW r \in Requests, req[r].pc \in Placing
  PROVE  Climbed(req[r]) /\ \A q \in Requests \ {r} : req[q].pc \notin Placing
BY DEF LoopInv, UpdateAlone

\* Hanging a folder below a place from which the climb does not meet it leaves
\* no loop: what is left of a loop once the climb is over is a loop before.
LEMMA WriteKeepsAcyclic ==
  ASSUME TypeOK, Acyclic, NEW f \in Ids, NEW parent,
         Ids' = Ids, folders'[f].parent = parent,
         \A g \in Ids \ {f} : folders'[g].parent = folders[g].parent,
         \/ parent = folders[f].parent
         \/ \E climbed \in SUBSET Ids : LeadsTo(climbed, parent, Root, f)
  PROVE  Acyclic'
<1>1. CASE parent = folders[f].parent
  BY <1>1 DEF Acyclic
<1>2. ASSUME NEW climbed \in SUBSET Ids, LeadsTo(climbed, parent, Root, f)
      PROVE  Acyclic'
  <2>1. ASSUME NEW loop \in (SUBSET Ids) \ {{}},
               \A g \in loop : folders'[g].parent \in loop
        PROVE  FALSE
    <3>1. Root \notin loop
      BY RootIsNoFolder
    <3>2. CASE f \notin loop
      BY <2>1, <3>2 DEF Acyclic
    <3>3. CASE f \in loop
      <4> DEFINE inner == loop \cap climbed
      <4>1. parent \in inner
        BY <1>2, <2>1, <3>1, <3>3 DEF LeadsTo
      <4>2. \A g \in inner : folders[g].parent \in inner
        BY <1>2, <2>1, <3>1 DEF LeadsTo
      <4>3. inner \in (SUBSET Ids) \ {{}}
        BY <4>1
      <4> HIDE DEF inner
      <4> QED BY <4>2, <4>3 DEF Acyclic
    <3> QED BY <3>2, <3>3
  <2> QED BY <2>1 DEF Acyclic
<1> QED BY <1>1, <1>2

LEMMA LoopStep ==
  ASSUME TypeOK, TypeOK', LoopInv, [Next]_vars
  PROVE  LoopInv'
<1>1. Root \notin Ids /\ Root \notin Ids'
  <2>1. folders \in Seq(FolderRows) /\ folders' \in Seq(FolderRows)
    BY DEF TypeOK
  <2> QED BY <2>1 DEF Ids, Root
<1>2. ASSUME UNCHANGED <<folders, crossed>>,
             \A q \in Requests : req'[q].pc \in Placing => req'[q] = req[q]
      PROVE  LoopInv'
  BY <1>1, <1>2, TreeGrows DEF Ids
<1>3. ASSUME NEW r \in Requests, NEW held, Begin(r, held) \/ Continue(r, held),
             held.pc \notin Placing
      PROVE  \A q \in Requests : req'[q].pc \in Placing => req'[q] = req[q]
  BY <1>3, Slots DEF TypeOK
<1>4. ASSUME NEW r \in Requests, NEW row, folders' = Append(folders, row),
             row.parent \in Ids \cup {Root}, UNCHANGED crossed,
             \A q \in Requests : req'[q].pc \in Placing => req'[q] = req[q]
      PROVE  LoopInv'
  <2>1. folders \in Seq(FolderRows) /\ folders' \in Seq(FolderRows)
    BY DEF TypeOK
  <2>2. /\ Ids = 1 .. Len(folders) /\ Ids' = 1 .. Len(folders) + 1 /\ Len(folders) \in Nat
        /\ \A g \in Ids : folders'[g] = folders[g]
        /\ folders'[Len(folders) + 1] = row
    BY <1>4, <2>1 DEF Ids
  <2>3. Ids \subseteq Ids' /\ \A f \in Ids' \ Ids : folders'[f] = row
    BY <2>2
  <2> QED BY <1>1, <1>4, <2>2, <2>3, TreeGrows
<1>5. ASSUME NEW r \in Requests, CreateRow(r)
      PROVE  LoopInv'
  <2> DEFINE q == req[r]
             row == NewRow(q.parent, q.path, q.name)
  <2>1. Continue(r, Idle) /\ folders' = Append(folders, row)
    BY <1>5 DEF CreateRow
  <2>2. row.parent \in Ids \cup {Root}
    BY <1>5, HeldTypes DEF CreateRow, NewRow, PointsToRows, Under
  <2> HIDE DEF row
  <2> QED BY <1>3, <1>4, <2>1, <2>2 DEF Continue, ghosts, Idle, Placing
<1>6. ASSUME NEW r \in Requests, UploadMake(r)
      PROVE  LoopInv'
  <2> DEFINE q == req[r]
             row == NewRow(q.parent, q.path, Head(q.todo))
             held == Onward(Len(folders) + 1, row.path, Tail(q.todo))
  <2>1. Continue(r, held) /\ folders' = Append(folders, row)
    BY <1>6 DEF UploadMake
  <2>2. row.parent \in Ids \cup {Root}
    BY <1>6, HeldTypes DEF UploadMake, NewRow, PointsToRows, Under
  <2> HIDE DEF row
  <2>3. held.pc \notin Placing
    BY DEF Onward, Placing
  <2> HIDE DEF held
  <2> QED BY <1>3, <1>4, <2>1, <2>2, <2>3 DEF Continue, ghosts
<1>7. ASSUME NEW r \in Requests, UploadSeek(r)
      PROVE  LoopInv'
  <2>1. UNCHANGED <<folders, crossed>> /\ \A q \in Requests : q # r => req'[q] = req[q]
    BY <1>7 DEF UploadSeek, TypeOK
  <2>2. req'[r].pc \notin Placing
    <3>1. req[r] \in [pc : {"seek", "make"}, parent : Nat, path : ParentPaths,
                       todo : Seq(Names) \ {<<>>}]
      BY <1>7 DEF UploadSeek, TypeOK, Request, Idle, Updating, Placing
    <3> QED BY <1>7, <3>1 DEF UploadSeek, Onward, Placing, TypeOK
  <2> QED BY <1>2, <2>1, <2>2
<1>8. ASSUME NEW r \in Requests,
             \/ \E parent \in Ids \cup {Root}, name \in Names : CreateRead(r, parent, name)
             \/ \E parent \in Ids \cup {Root},
                   todo \in {<<>>} \cup {<<name>> : name \in Names} :
                  UploadRead(r, parent, todo)
             \/ \E f \in Ids : RemoveRead(r, f)
      PROVE  LoopInv'
  <2>1. UNCHANGED <<folders, crossed>>
    BY <1>8 DEF CreateRead, UploadRead, RemoveRead
  <2>2. CASE \E parent \in Ids \cup {Root}, name \in Names : CreateRead(r, parent, name)
    BY <1>2, <1>3, <2>1, <2>2 DEF CreateRead, Placing
  <2>3. CASE \E parent \in Ids \cup {Root},
                todo \in {<<>>} \cup {<<name>> : name \in Names} :
               UploadRead(r, parent, todo)
    BY <1>2, <1>3, <2>1, <2>3 DEF UploadRead, Onward, Placing
  <2>4. CASE \E f \in Ids : RemoveRead(r, f)
    BY <1>2, <1>3, <2>1, <2>4 DEF RemoveRead, Placing
  <2> QED BY <1>8, <2>2, <2>3, <2>4
<1>9. ASSUME NEW r \in Requests,
             \/ FilePlace(r) \/ RebuildList(r)
             \/ \E what \in {"folders", "files"} : RemoveCount(r, what)
      PROVE  LoopInv'
  <2>1. UNCHANGED <<folders, crossed>>
    BY <1>9 DEF FilePlace, RebuildList, RemoveCount, Continue, ghosts
  <2>2. CASE FilePlace(r)
    BY <1>2, <1>3, <2>1, <2>2 DEF FilePlace, Idle, Placing
  <2>3. CASE RebuildList(r)
    BY <1>2, <1>3, <2>1, <2>3 DEF RebuildList, Idle, Placing
  <2>4. CASE \E what \in {"folders", "files"} : RemoveCount(r, what)
    <3>1. PICK what : RemoveCount(r, what)
      BY <2>4
    <3>2. req[r].pc = "remove" /\ [req[r] EXCEPT !.todo = @ \ {what}].pc = "remove"
      BY <3>1 DEF RemoveCount, TypeOK, Request, Idle, Updating, Placing
    <3> QED BY <1>2, <1>3, <2>1, <3>1, <3>2 DEF RemoveCount, Idle, Placing
  <2> QED BY <1>9, <2>2, <2>3, <2>4
<1>10. ASSUME NEW r \in Requests, RebuildChild(r)
       PROVE  LoopInv'
  <2>1. PICK id, path, stack : /\ folders' = [folders EXCEPT ![id].path = path]
                               /\ Continue(r, Descend(id, path, stack))
    BY <1>10 DEF RebuildChild
  <2>2. Ids' = Ids
    BY <2>1 DEF Ids
  <2>3. \A g \in Ids : folders'[g].parent = folders[g].parent
    BY <2>1, RootIsNoFolder DEF Ids, FolderRows
  <2>4. Descend(id, path, stack).pc \notin Placing
    BY DEF Descend, Placing
  <2> QED BY <1>1, <1>3, <2>1, <2>2, <2>3, <2>4, TreeGrows DEF Continue, ghosts
<1>11. ASSUME NEW r \in Requests, RemoveMark(r)
       PROVE  LoopInv'
  <2>1. /\ folders' = [folders EXCEPT ![req[r].folder].deleted = TRUE]
        /\ Continue(r, Idle)
    BY <1>11 DEF RemoveMark
  <2>2. Ids' = Ids
    BY <2>1 DEF Ids
  <2>3. \A g \in Ids : folders'[g].parent = folders[g].parent
    BY <2>1, RootIsNoFolder DEF Ids, FolderRows
  <2> QED BY <1>1, <1>3, <2>1, <2>2, <2>3, TreeGrows DEF Continue, ghosts, Idle, Placing
<1>12. ASSUME NEW r \in Requests, Abort(r)
       PROVE  LoopInv'
  BY <1>2, <1>12 DEF Abort, TypeOK, Idle, Placing
<1>13. ASSUME NEW f \in Ids, FileRemoved(f)
       PROVE  LoopInv'
  BY <1>2, <1>13 DEF FileRemoved, ghosts
<1>14. CASE UNCHANGED vars
  BY <1>2, <1>14 DEF vars, ghosts
<1>15. ASSUME NEW r \in Requests, NEW f \in Ids, NEW name \in Names,
              NEW to \in Ids \cup {Root}, UpdateRead(r, f, name, to)
       PROVE  LoopInv'
  <2> DEFINE held == [pc |-> IF to = Root THEN "write" ELSE "parent",
                      folder |-> f, name |-> name, parent |-> to, path |-> <<>>, at |-> to,
                      moving |-> to # folders[f].parent,
                      rebuild |-> to # folders[f].parent \/ name # folders[f].name]
  <2>1. /\ Begin(r, held) /\ UNCHANGED folders
        /\ crossed' = (crossed \/ \E q \in Requests : req[q].pc \in Placing)
    BY <1>15 DEF UpdateRead
  <2>2. crossed' \in BOOLEAN
    BY DEF TypeOK
  <2>3. ~crossed' => ~crossed /\ \A q \in Requests \ {r} : req[q].pc \notin Placing
    BY <2>1
  <2>4. LeadsTo({}, Root, Root, f)
    BY DEF LeadsTo
  <2>5. Climbed(held)
    BY <2>4 DEF Climbed
  <2> HIDE DEF held
  <2> QED BY <2>1, <2>2, <2>3, <2>5, Slots, UpdateMovesOn
<1>16. ASSUME NEW r \in Requests, NEW held, Continue(r, held), UNCHANGED folders,
              req[r].pc \in Placing,
              Climbed(req[r]) /\ held.pc \in Placing => Climbed(held)
       PROVE  LoopInv'
  <2>1. UNCHANGED crossed /\ crossed' \in BOOLEAN
    BY <1>16 DEF Continue, ghosts, TypeOK
  <2>2. ~crossed' => ~crossed
    BY <2>1
  <2> QED BY <1>16, <2>1, <2>2, Slots, UpdateIsAlone, UpdateMovesOn
<1>17. ASSUME NEW r \in Requests, UpdateParent(r)
       PROVE  LoopInv'
  <2> DEFINE q == req[r]
             held == [q EXCEPT !.pc = IF q.moving THEN "climb" ELSE "write",
                               !.path = folders[q.parent].path]
  <2>1. /\ UNCHANGED folders /\ q.pc = "parent" /\ q \in Updating
        /\ Continue(r, Idle) \/ Continue(r, held)
    BY <1>17, HeldTypes DEF UpdateParent, Placing
  <2>2. /\ held.moving = q.moving /\ held.parent = q.parent /\ held.folder = q.folder
        /\ held.at = q.at /\ held.pc = IF q.moving THEN "climb" ELSE "write"
    BY <2>1 DEF Updating
  <2>3. LeadsTo({}, q.parent, q.parent, q.folder)
    BY DEF LeadsTo
  <2>4. Climbed(q) => Climbed(held)
    <3> HIDE DEF held
    <3> QED BY <2>1, <2>2, <2>3 DEF Climbed, Updating
  <2>5. Idle.pc \notin Placing /\ q.pc \in Placing
    BY <2>1 DEF Idle, Placing
  <2> HIDE DEF held
  <2> QED BY <1>16, <2>1, <2>4, <2>5
<1>18. ASSUME NEW r \in Requests, Climb(r)
       PROVE  LoopInv'
  <2> DEFINE q == req[r]
             ready == [q EXCEPT !.pc = "write"]
             higher == [q EXCEPT !.at = folders[q.at].parent]
  <2>1. /\ UNCHANGED folders /\ q.pc = "climb" /\ q \in Updating /\ PointsToRows(q)
    BY <1>18, HeldTypes DEF Climb, Placing
  <2>2. \/ Continue(r, Idle)
        \/ q.at # q.folder /\ folders[q.at].parent = Root /\ Continue(r, ready)
        \/ q.at # q.folder /\ Continue(r, higher)
    BY <1>18 DEF Climb
  <2>3. q.at \in Ids
    BY <2>1 DEF PointsToRows
  <2>4. ASSUME NEW climbed \in SUBSET Ids, LeadsTo(climbed, q.parent, q.at, q.folder),
               q.at # q.folder
        PROVE  \E further \in SUBSET Ids :
                 LeadsTo(further, q.parent, folders[q.at].parent, q.folder)
    <3>1. LeadsTo(climbed \cup {q.at}, q.parent, folders[q.at].parent, q.folder)
      BY <2>3, <2>4 DEF LeadsTo
    <3> QED BY <2>3, <3>1
  <2>5. q.at # q.folder /\ folders[q.at].parent = Root /\ Climbed(q) => Climbed(ready)
    <3>1. /\ ready.moving = q.moving /\ ready.parent = q.parent /\ ready.folder = q.folder
          /\ ready.pc = "write"
      BY <2>1 DEF Updating
    <3> HIDE DEF ready
    <3> QED BY <2>1, <2>4, <3>1 DEF Climbed
  <2>6. q.at # q.folder /\ Climbed(q) => Climbed(higher)
    <3>1. /\ higher.moving = q.moving /\ higher.parent = q.parent /\ higher.folder = q.folder
          /\ higher.pc = "climb" /\ higher.at = folders[q.at].parent
      BY <2>1 DEF Updating
    <3> HIDE DEF higher
    <3> QED BY <2>1, <2>4, <3>1 DEF Climbed
  <2>7. Idle.pc \notin Placing /\ q.pc \in Placing
    BY <2>1 DEF Idle, Placing
  <2> HIDE DEF ready, higher
  <2> QED BY <1>16, <2>1, <2>2, <2>5, <2>6, <2>7
<1>19. ASSUME NEW r \in Requests, UpdateWrite(r)
       PROVE  LoopInv'
  <2> DEFINE q == req[r]
             path == PathUnder(q.path, q.name)
             next == [pc |-> "list", folder |-> q.folder, path |-> path, stack |-> <<>>]
  <2>1. q.pc = "write" /\ q \in Updating /\ PointsToRows(q)
    BY <1>19, HeldTypes DEF UpdateWrite, Placing
  <2>2. q.folder \in Ids /\ q.pc \in Placing
    BY <2>1 DEF PointsToRows, Placing
  <2>3. /\ folders' = [folders EXCEPT ![q.folder].name = q.name,
                                      ![q.folder].parent = q.parent,
                                      ![q.folder].path = path]
        /\ Continue(r, next) \/ Continue(r, Idle)
    BY <1>19 DEF UpdateWrite
  <2>4. next.pc \notin Placing /\ Idle.pc \notin Placing
    BY DEF Idle, Placing
  <2> HIDE DEF path, next
  <2>5. \A q2 \in Requests : req'[q2].pc \in Placing => req'[q2] = req[q2] /\ q2 # r
    BY <2>3, <2>4, Slots DEF TypeOK
  <2>6. Ids' = Ids
    BY <2>3 DEF Ids
  <2>7. \A g \in Ids : folders'[g].parent = IF g = q.folder THEN q.parent ELSE folders[g].parent
    BY <2>2, <2>3, RootIsNoFolder DEF Ids, FolderRows
  <2>8. UNCHANGED crossed
    BY <2>3 DEF Continue, ghosts
  <2>9. SUFFICES ASSUME ~crossed PROVE Acyclic' /\ UpdateAlone'
    BY <2>8 DEF LoopInv
  <2>10. Climbed(q) /\ \A p \in Requests \ {r} : req[p].pc \notin Placing
    BY <2>2, <2>9, UpdateIsAlone
  <2>11. \/ q.parent = folders[q.folder].parent
         \/ \E climbed \in SUBSET Ids : LeadsTo(climbed, q.parent, Root, q.folder)
    BY <2>1, <2>10 DEF Climbed, Updating
  <2>12. PICK f, parent : f \in Ids /\ f = q.folder /\ parent = q.parent
    BY <2>2
  <2>13. Acyclic'
    BY <2>6, <2>7, <2>9, <2>11, <2>12, WriteKeepsAcyclic DEF LoopInv
  <2>14. UpdateAlone'
    BY <2>5, <2>10 DEF UpdateAlone
  <2> QED BY <2>13, <2>14
<1>20. ASSUME NEW r \in Requests, Arrive(r) PROVE LoopInv'
  BY <1>8, <1>15, <1>20 DEF Arrive
<1>21. ASSUME NEW r \in Requests, Proceed(r) PROVE LoopInv'
  BY <1>5, <1>6, <1>7, <1>9, <1>10, <1>11, <1>17, <1>18, <1>19, <1>21 DEF Proceed
<1> QED BY <1>12, <1>13, <1>14, <1>20, <1>21 DEF Next, FindTree

-----------------------------------------------------------------------------
(* Only a removal that races leaves an orphan                              *)

Housed == (\A f \in Live : Exists(folders[f].parent)) /\ filled \subseteq Live

\* Nobody removes a folder under which another works.
Apart ==
  \A r, s \in Requests :
    req[r].pc \in Under /\ req[s].pc = "remove" => req[r].parent # req[s].folder

\* A parent that was found live still is, and what a removal has counted empty too.
Grounded(q) ==
  /\ q.pc \in Under /\ (q.pc = "parent" => ~q.moving) => Exists(q.parent)
  /\ q.pc = "remove" => \A what \in {"folders", "files"} \ q.todo : ~Holds(q.folder, what)

OrphanInv == ~raced => Housed /\ Apart /\ \A r \in Requests : Grounded(req[r])

\* What a request goes on to hold meets no other's.
Meets(r, held) ==
  \E s \in Requests \ {r} :
    \/ held.pc \in Under /\ req[s].pc = "remove" /\ held.parent = req[s].folder
    \/ held.pc = "remove" /\ req[s].pc \in Under /\ req[s].parent = held.folder

LEMMA IdleQuiet ==
  /\ Idle.pc \notin Under /\ Idle.pc # "remove" /\ Grounded(Idle)
  /\ \A r : ~Meets(r, Idle)
BY DEF Idle, Under, Placing, Grounded, Meets

LEMMA ApartStays ==
  ASSUME TypeOK, Apart, NEW r \in Requests, NEW held, req' = [req EXCEPT ![r] = held],
         ~Meets(r, held)
  PROVE  Apart'
<1>1. req'[r] = held /\ \A q \in Requests \ {r} : req'[q] = req[q]
  BY DEF TypeOK
<1>2. held.pc # "remove" \/ held.pc \notin Under
  BY DEF Under, Placing
<1> QED BY <1>1, <1>2 DEF Apart, Meets

\* The tree stays, but for paths and for files that go, and one request moves on.
LEMMA TreeStays ==
  ASSUME TypeOK, OrphanInv, Live' = Live, filled' \subseteq filled,
         \A f \in Live : folders'[f].parent = folders[f].parent,
         NEW r \in Requests, NEW held, req' = [req EXCEPT ![r] = held],
         ~raced' => ~raced /\ (Housed => Grounded(held)) /\ ~Meets(r, held)
  PROVE  OrphanInv'
<1> SUFFICES ASSUME ~raced' PROVE Housed' /\ Apart' /\ \A q \in Requests : Grounded(req[q])'
  BY DEF OrphanInv
<1>1. Housed /\ Apart /\ Grounded(held) /\ \A q \in Requests : Grounded(req[q])
  BY DEF OrphanInv
<1>2. req'[r] = held /\ \A q \in Requests \ {r} : req'[q] = req[q]
  BY DEF TypeOK
<1>3. \A f : Exists(f)' <=> Exists(f)
  BY DEF Exists
<1>4. \A f, what : Holds(f, what)' => Holds(f, what)
  BY DEF Holds
<1>5. Housed'
  BY <1>1, <1>3 DEF Housed
<1>6. Apart'
  BY <1>1, ApartStays
<1>7. \A q \in Requests : Grounded(req'[q])
  BY <1>1, <1>2
<1>8. \A q \in Requests : Grounded(req[q])'
  BY <1>3, <1>4, <1>7 DEF Grounded
<1> QED BY <1>5, <1>6, <1>8

\* One request puts something under the folder it works under, and moves on.
LEMMA TreeTakes ==
  ASSUME TypeOK, OrphanInv, UNCHANGED raced, Root \notin filled', Live \subseteq Live',
         NEW r \in Requests, req[r].pc \in Under \ {"parent"}, req[r].parent \in Ids \cup {Root},
         \A f \in Live' : \/ folders'[f].parent = req[r].parent
                          \/ f \in Live /\ folders'[f].parent = folders[f].parent,
         filled' \subseteq filled \cup {req[r].parent},
         NEW held, req' = [req EXCEPT ![r] = held],
         ~raced => Grounded(held)' /\ ~Meets(r, held), held.pc # "remove"
  PROVE  OrphanInv'
<1> SUFFICES ASSUME ~raced PROVE Housed' /\ Apart' /\ \A q \in Requests : Grounded(req[q])'
  BY DEF OrphanInv
<1>1. Housed /\ Apart /\ \A q \in Requests : Grounded(req[q])
  BY DEF OrphanInv
<1>2. req'[r] = held /\ \A q \in Requests \ {r} : req'[q] = req[q]
  BY DEF TypeOK
<1>3. \A f : Exists(f) => Exists(f)'
  BY DEF Exists
<1>4. Exists(req[r].parent)
  BY <1>1 DEF Grounded
<1>5. Housed'
  <2>1. \A f \in Live' : Exists(folders'[f].parent)
    BY <1>1, <1>4 DEF Housed
  <2>2. filled' \subseteq Live'
    BY <1>1, <1>4 DEF Housed, Exists
  <2> QED BY <1>3, <2>1, <2>2 DEF Housed, Exists
<1>6. Apart'
  BY <1>1, ApartStays
<1>7. ASSUME NEW q \in Requests PROVE Grounded(req[q])'
  <2>1. CASE q = r
    BY <1>2, <2>1 DEF Grounded, Exists, Holds, Live, Ids
  <2>2. CASE q # r
    <3>1. req'[q] = req[q] /\ Grounded(req[q])
      BY <1>1, <1>2, <2>2
    <3>2. req[q].pc = "remove" => req[r].parent # req[q].folder
      BY <1>1 DEF Apart
    <3>3. ASSUME NEW what, req[q].pc = "remove", Holds(req[q].folder, what)'
          PROVE  Holds(req[q].folder, what)
      <4>1. \/ what = "folders" /\ \E g \in Live' : folders'[g].parent = req[q].folder
            \/ what = "files" /\ req[q].folder \in filled'
        BY <3>1, <3>3 DEF Holds
      <4> QED BY <3>2, <3>3, <4>1 DEF Holds
    <3> QED BY <1>3, <3>1, <3>3 DEF Grounded
  <2> QED BY <2>1, <2>2
<1> QED BY <1>5, <1>6, <1>7

\* A request that works under a folder meets none as long as it does so.
LEMMA MeetsNone ==
  ASSUME OrphanInv, ~raced, NEW r \in Requests, NEW held,
         \/ held.pc \notin Under /\ held.pc # "remove"
         \/ held.pc \in Under /\ req[r].pc \in Under /\ held.parent = req[r].parent
         \/ held.pc = "remove" /\ req[r].pc = "remove" /\ held.folder = req[r].folder
  PROVE  ~Meets(r, held)
<1>1. held.pc # "remove" \/ held.pc \notin Under
  BY DEF Under, Placing
<1> QED BY <1>1 DEF OrphanInv, Apart, Meets

LEMMA MarkKeepsHoused ==
  ASSUME TypeOK, OrphanInv, NEW r \in Requests, RemoveMark(r) PROVE OrphanInv'
<1> SUFFICES ASSUME ~raced PROVE Housed' /\ Apart' /\ \A q \in Requests : Grounded(req[q])'
  BY DEF OrphanInv, RemoveMark, Continue, ghosts
<1>1. Housed /\ Apart /\ \A q \in Requests : Grounded(req[q])
  BY DEF OrphanInv
<1>2. /\ req[r].pc = "remove" /\ req[r].todo = {} /\ UNCHANGED filled
      /\ folders' = [folders EXCEPT ![req[r].folder].deleted = TRUE]
      /\ req' = [req EXCEPT ![r] = Idle]
  BY DEF RemoveMark, Continue
<1>3. PICK f \in Ids : f = req[r].folder
  BY <1>2, HeldTypes DEF PointsToRows
<1>4. Ids' = Ids /\ Live' = Live \ {f} /\ \A g \in Ids : folders'[g].parent = folders[g].parent
  <2>1. Ids' = Ids
    BY <1>2 DEF Ids
  <2>2. \A g \in Ids : /\ folders'[g].parent = folders[g].parent
                       /\ folders'[g].deleted = IF g = f THEN TRUE ELSE folders[g].deleted
    BY <1>2, <1>3, RootIsNoFolder DEF Ids, FolderRows
  <2> QED BY <2>1, <2>2 DEF Live
<1>5. f \notin filled /\ \A g \in Live : folders[g].parent # f
  BY <1>1, <1>2, <1>3 DEF Grounded, Holds
<1>6. \A e : Exists(e) /\ e # f => Exists(e)'
  BY <1>4 DEF Exists
<1>7. Housed'
  <2>1. \A g \in Live' : /\ folders'[g].parent = folders[g].parent
                        /\ Exists(folders[g].parent) /\ folders[g].parent # f
    BY <1>1, <1>4, <1>5 DEF Housed, Live
  <2>2. \A g \in Live' : folders'[g].parent = Root \/ folders'[g].parent \in Live'
    BY <1>4, <2>1 DEF Exists
  <2> QED BY <1>1, <1>2, <1>4, <1>5, <2>2 DEF Housed, Exists
<1>8. Apart'
  BY <1>1, <1>2, ApartStays, IdleQuiet
<1>9. ASSUME NEW q \in Requests PROVE Grounded(req[q])'
  <2>1. CASE q = r
    BY <1>2, <2>1 DEF Grounded, Idle, Under, Placing, TypeOK
  <2>2. CASE q # r
    <3>1. req'[q] = req[q] /\ Grounded(req[q])
      BY <1>1, <1>2, <2>2 DEF TypeOK
    <3>2. req[q].pc \in Under => req[q].parent # f
      BY <1>1, <1>2, <1>3 DEF Apart
    <3>3. \A what : Holds(req[q].folder, what)' => Holds(req[q].folder, what)
      BY <1>2, <1>4, <3>1 DEF Holds, Live
    <3> QED BY <1>6, <3>1, <3>2, <3>3 DEF Grounded
  <2> QED BY <2>1, <2>2
<1> QED BY <1>7, <1>8, <1>9

LEMMA OrphanStep ==
  ASSUME TypeOK, TypeOK', OrphanInv, [Next]_vars PROVE OrphanInv'
<1>1. Root \notin Ids /\ Root \notin Ids' /\ filled' \subseteq Ids'
  <2>1. folders \in Seq(FolderRows) /\ folders' \in Seq(FolderRows)
    BY DEF TypeOK
  <2> QED BY <2>1 DEF Ids, Root, TypeOK
<1>2. ASSUME NEW r \in Requests, NEW held, req' = [req EXCEPT ![r] = held],
             UNCHANGED <<folders, filled>>,
             ~raced' => ~raced /\ (Housed => Grounded(held)) /\ ~Meets(r, held)
      PROVE  OrphanInv'
  <2>1. Live' = Live
    BY <1>2 DEF Live, Ids
  <2> QED BY <1>2, <2>1, TreeStays
<1>3. ASSUME NEW r \in Requests, NEW held, Begin(r, held) PROVE req' = [req EXCEPT ![r] = held]
  BY <1>3 DEF Begin
<1>4. ASSUME NEW r \in Requests, NEW parent \in Ids \cup {Root}, NEW held,
             Exists(parent), req' = [req EXCEPT ![r] = held], UNCHANGED <<folders, filled>>,
             held.pc \in Under, held.parent = parent, raced' = (raced \/ parent \in Removing)
      PROVE  OrphanInv'
  <2>1. parent \notin Removing => ~Meets(r, held)
    BY <1>4 DEF Removing, Meets, Under, Placing
  <2>2. Grounded(held)
    BY <1>4 DEF Grounded, Under, Placing
  <2> QED BY <1>2, <1>4, <2>1, <2>2
<1>5. \A parent, path, todo : /\ Onward(parent, path, todo).pc \in {"place", "seek"}
                              /\ Onward(parent, path, todo).parent = parent
  BY DEF Onward
<1>6. ASSUME NEW r \in Requests, NEW parent \in Ids \cup {Root}, NEW name \in Names,
             CreateRead(r, parent, name)
      PROVE  OrphanInv'
  <2>1. PICK held : /\ Begin(r, held) /\ held.pc = "create" /\ held.parent = parent
    BY <1>6 DEF CreateRead
  <2> QED BY <1>3, <1>4, <1>6, <2>1 DEF CreateRead, Under
<1>7. ASSUME NEW r \in Requests, NEW parent \in Ids \cup {Root}, NEW todo,
             UploadRead(r, parent, todo)
      PROVE  OrphanInv'
  <2>1. PICK held : Begin(r, held) /\ held.pc \in {"place", "seek"} /\ held.parent = parent
    BY <1>5, <1>7 DEF UploadRead
  <2> QED BY <1>3, <1>4, <1>7, <2>1 DEF UploadRead, Under
<1>8. ASSUME NEW r \in Requests, NEW f \in Ids, NEW name \in Names,
             NEW to \in Ids \cup {Root}, UpdateRead(r, f, name, to)
      PROVE  OrphanInv'
  <2>1. PICK held : /\ Begin(r, held) /\ held.pc = IF to = Root THEN "write" ELSE "parent"
                    /\ held.parent = to /\ held.moving = (to # folders[f].parent)
    BY <1>8 DEF UpdateRead
  <2>2. /\ UNCHANGED <<folders, filled>> /\ f \in Live /\ raced' = (raced \/ to \in Removing)
    BY <1>8 DEF UpdateRead
  <2>3. to \notin Removing => ~Meets(r, held)
    BY <2>1 DEF Removing, Meets
  <2>4. Housed => Grounded(held)
    BY <2>1, <2>2 DEF Grounded, Housed, Exists
  <2> QED BY <1>2, <1>3, <2>1, <2>2, <2>3, <2>4
<1>9. ASSUME NEW r \in Requests, NEW f \in Ids, RemoveRead(r, f) PROVE OrphanInv'
  <2>1. PICK held : /\ Begin(r, held) /\ held.pc = "remove" /\ held.folder = f
                    /\ held.todo = {"folders", "files"}
    BY <1>9 DEF RemoveRead
  <2>2. UNCHANGED <<folders, filled>> /\ raced' = (raced \/ f \in Targets)
    BY <1>9 DEF RemoveRead
  <2>3. f \notin Targets => ~Meets(r, held)
    BY <2>1 DEF Targets, Meets, Under, Placing
  <2>4. Grounded(held)
    BY <2>1 DEF Grounded, Under, Placing
  <2> QED BY <1>2, <1>3, <2>1, <2>2, <2>3, <2>4
<1>10. ASSUME NEW r \in Requests, NEW held, Continue(r, held), UNCHANGED <<folders, filled>>,
              ~raced => Grounded(held) /\ ~Meets(r, held)
       PROVE  OrphanInv'
  BY <1>2, <1>10 DEF Continue, ghosts
<1>11. ASSUME NEW r \in Requests, UploadSeek(r) PROVE OrphanInv'
  <2>1. /\ UNCHANGED <<folders, filled>> /\ req[r].pc = "seek"
    BY <1>11 DEF UploadSeek
  <2>2. CASE req' = [req EXCEPT ![r] = [req[r] EXCEPT !.pc = "make"]] /\ UNCHANGED raced
    <3>1. req[r] \in [pc : {"seek", "make"}, parent : Nat, path : ParentPaths,
                      todo : Seq(Names) \ {<<>>}]
      BY <2>1 DEF TypeOK, Request, Idle, Updating, Placing
    <3> DEFINE held == [req[r] EXCEPT !.pc = "make"]
    <3>2. /\ req' = [req EXCEPT ![r] = held] /\ held.pc = "make"
          /\ held.parent = req[r].parent
      BY <2>2, <3>1
    <3> HIDE DEF held
    <3>3. ~raced => Grounded(held) /\ ~Meets(r, held)
      BY <2>1, <3>2, MeetsNone DEF OrphanInv, Grounded, Under, Placing
    <3> QED BY <1>2, <2>1, <2>2, <3>2, <3>3
  <2>3. CASE \E f \in Live : /\ req' = [req EXCEPT ![r] = Onward(f, folders[f].path,
                                                              Tail(req[r].todo))]
                             /\ raced' = (raced \/ f \in Removing)
    <3>1. PICK f \in Live : /\ req' = [req EXCEPT ![r] = Onward(f, folders[f].path,
                                                              Tail(req[r].todo))]
                            /\ raced' = (raced \/ f \in Removing)
      BY <2>3
    <3> DEFINE held == Onward(f, folders[f].path, Tail(req[r].todo))
    <3>2. held.pc \in {"place", "seek"} /\ held.parent = f
      BY <1>5
    <3>3. req' = [req EXCEPT ![r] = held]
      BY <3>1
    <3> HIDE DEF held
    <3>4. f \in Ids /\ Exists(f)
      BY DEF Live, Exists
    <3> QED BY <1>4, <2>1, <3>1, <3>2, <3>3, <3>4 DEF Under
  <2> QED BY <1>11, <2>2, <2>3 DEF UploadSeek
<1>12. ASSUME NEW r \in Requests, UpdateParent(r) \/ Climb(r) PROVE OrphanInv'
  <2>1. /\ UNCHANGED <<folders, filled>> /\ req[r].pc \in {"parent", "climb"}
        /\ req[r] \in Updating
    BY <1>12, HeldTypes DEF UpdateParent, Climb, Placing
  <2>2. \/ Continue(r, Idle)
        \/ \E held : /\ Continue(r, held) /\ held.pc \in {"climb", "write"}
                     /\ held.parent = req[r].parent
                     /\ (req[r].pc = "parent" /\ req[r].moving => Exists(req[r].parent))
    <3>1. CASE UpdateParent(r)
      <4> DEFINE held == [req[r] EXCEPT !.pc = IF req[r].moving THEN "climb" ELSE "write",
                                        !.path = folders[req[r].parent].path]
      <4>1. held.pc \in {"climb", "write"} /\ held.parent = req[r].parent
        BY <2>1 DEF Updating
      <4>2. \/ Continue(r, Idle)
            \/ Continue(r, held) /\ (req[r].moving => Exists(req[r].parent))
        <5>1. CASE req[r].moving /\ ~Exists(req[r].parent)
          BY <3>1, <5>1 DEF UpdateParent
        <5>2. CASE ~(req[r].moving /\ ~Exists(req[r].parent))
          BY <3>1, <5>2 DEF UpdateParent
        <5> QED BY <5>1, <5>2
      <4> HIDE DEF held
      <4> QED BY <4>1, <4>2
    <3>2. CASE Climb(r)
      <4> DEFINE ready == [req[r] EXCEPT !.pc = "write"]
                 higher == [req[r] EXCEPT !.at = folders[req[r].at].parent]
      <4>1. /\ ready.pc = "write" /\ ready.parent = req[r].parent
            /\ req[r].pc = "climb" /\ higher.pc = "climb" /\ higher.parent = req[r].parent
        BY <2>1, <3>2 DEF Updating, Climb
      <4>2. Continue(r, Idle) \/ Continue(r, ready) \/ Continue(r, higher)
        BY <3>2 DEF Climb
      <4> HIDE DEF ready, higher
      <4> QED BY <4>1, <4>2
    <3> QED BY <1>12, <3>1, <3>2
  <2>3. CASE Continue(r, Idle)
    BY <1>10, <2>1, <2>3, IdleQuiet
  <2>4. ASSUME NEW held, Continue(r, held), held.pc \in {"climb", "write"},
               held.parent = req[r].parent,
               req[r].pc = "parent" /\ req[r].moving => Exists(req[r].parent)
        PROVE  OrphanInv'
    <3>1. held.pc \in Under /\ req[r].pc \in Under
      BY <2>1, <2>4 DEF Under, Placing
    <3>2. ~raced => ~Meets(r, held)
      BY <2>4, <3>1, MeetsNone
    <3>3. ~raced => Grounded(held)
      BY <2>1, <2>4, <3>1 DEF OrphanInv, Grounded
    <3> QED BY <1>10, <2>1, <2>4, <3>2, <3>3
  <2> QED BY <2>2, <2>3, <2>4
<1>13. ASSUME NEW r \in Requests, RebuildList(r) PROVE OrphanInv'
  <2>1. PICK held : /\ Continue(r, held) /\ held.pc \in {"idle", "rebuild"}
    BY <1>13 DEF RebuildList, Idle
  <2>2. Grounded(held) /\ ~Meets(r, held)
    BY <2>1 DEF Grounded, Meets, Under, Placing
  <2> QED BY <1>10, <1>13, <2>1, <2>2 DEF RebuildList
<1>14. ASSUME NEW r \in Requests, RebuildChild(r) PROVE OrphanInv'
  <2>1. PICK id, path, stack, held : /\ folders' = [folders EXCEPT ![id].path = path]
                                     /\ Continue(r, held) /\ held = Descend(id, path, stack)
    BY <1>14 DEF RebuildChild
  <2>2. Ids' = Ids
    BY <2>1 DEF Ids
  <2>3. \A g \in Ids : /\ folders'[g].parent = folders[g].parent
                       /\ folders'[g].deleted = folders[g].deleted
    BY <2>1, RootIsNoFolder DEF Ids, FolderRows
  <2>4. Grounded(held) /\ ~Meets(r, held)
    BY <2>1 DEF Descend, Grounded, Meets, Under, Placing
  <2>5. Live' = Live /\ \A g \in Live : folders'[g].parent = folders[g].parent
    BY <2>2, <2>3 DEF Live
  <2>6. UNCHANGED <<filled, raced>> /\ req' = [req EXCEPT ![r] = held]
    BY <1>14, <2>1 DEF RebuildChild, Continue, ghosts
  <2> QED BY <2>4, <2>5, <2>6, TreeStays
<1>15. ASSUME NEW r \in Requests, NEW what \in {"folders", "files"}, RemoveCount(r, what)
       PROVE  OrphanInv'
  <2> DEFINE held == [req[r] EXCEPT !.todo = @ \ {what}]
  <2>1. /\ UNCHANGED <<folders, filled>> /\ req[r].pc = "remove"
        /\ \/ Continue(r, Idle)
           \/ Continue(r, held) /\ ~Holds(req[r].folder, what)
    <3>1. CASE Holds(req[r].folder, what)
      BY <1>15, <3>1 DEF RemoveCount
    <3>2. CASE ~Holds(req[r].folder, what)
      BY <1>15, <3>2 DEF RemoveCount
    <3> QED BY <3>1, <3>2
  <2>2. /\ held.pc = "remove" /\ held.folder = req[r].folder /\ held.todo = req[r].todo \ {what}
    BY <2>1 DEF TypeOK, Request, Idle, Updating, Placing
  <2> HIDE DEF held
  <2>3. CASE Continue(r, Idle)
    BY <1>10, <2>1, <2>3, IdleQuiet
  <2>4. CASE Continue(r, held) /\ ~Holds(req[r].folder, what)
    <3>1. ~raced => ~Meets(r, held)
      BY <2>1, <2>2, MeetsNone
    <3>2. held.pc \notin Under
      BY <2>2 DEF Under, Placing
    <3>3. ~raced => Grounded(held)
      BY <2>1, <2>2, <2>4, <3>2 DEF OrphanInv, Grounded
    <3> QED BY <1>10, <2>1, <2>4, <3>1, <3>3
  <2> QED BY <2>1, <2>3, <2>4
<1>16. ASSUME NEW r \in Requests, NEW row, folders' = Append(folders, row),
              row.parent = req[r].parent, row.deleted = FALSE,
              req[r].pc \in Under \ {"parent"}, NEW held, Continue(r, held), UNCHANGED filled,
              ~raced => Grounded(held)' /\ ~Meets(r, held), held.pc # "remove"
       PROVE  OrphanInv'
  <2>1. folders \in Seq(FolderRows) /\ folders' \in Seq(FolderRows)
    BY DEF TypeOK
  <2>2. /\ Ids = 1 .. Len(folders) /\ Ids' = 1 .. Len(folders) + 1 /\ Len(folders) \in Nat
        /\ \A g \in Ids : folders'[g] = folders[g]
        /\ folders'[Len(folders) + 1] = row
    BY <1>16, <2>1 DEF Ids
  <2>3. Live \subseteq Live' /\ \A f \in Live' : \/ folders'[f].parent = req[r].parent
                                                 \/ /\ f \in Live
                                                    /\ folders'[f].parent = folders[f].parent
    BY <1>16, <2>2 DEF Live
  <2>4. UNCHANGED raced /\ req' = [req EXCEPT ![r] = held]
    BY <1>16 DEF Continue, ghosts
  <2>5. Root \notin filled' /\ req[r].parent \in Ids \cup {Root}
    BY <1>1, <1>16, HeldTypes DEF PointsToRows
  <2> QED BY <1>16, <2>3, <2>4, <2>5, TreeTakes
<1>17. ASSUME NEW r \in Requests, CreateRow(r) PROVE OrphanInv'
  <2>1. PICK row : /\ folders' = Append(folders, row) /\ row.parent = req[r].parent
                   /\ row.deleted = FALSE
    BY <1>17 DEF CreateRow, NewRow
  <2>2. req[r].pc \in Under \ {"parent"} /\ Continue(r, Idle) /\ UNCHANGED filled
    BY <1>17 DEF CreateRow, Under
  <2>3. Grounded(Idle)'
    BY DEF Grounded, Idle, Under, Placing
  <2> QED BY <1>16, <2>1, <2>2, <2>3, IdleQuiet
<1>18. ASSUME NEW r \in Requests, UploadMake(r) PROVE OrphanInv'
  <2>1. PICK row, held : /\ folders' = Append(folders, row) /\ row.parent = req[r].parent
                         /\ row.deleted = FALSE
                         /\ Continue(r, held) /\ held.pc \in {"place", "seek"}
                         /\ held.parent = Len(folders) + 1
    BY <1>5, <1>18 DEF UploadMake, NewRow
  <2>2. req[r].pc \in Under \ {"parent"} /\ UNCHANGED filled
    BY <1>18 DEF UploadMake, Under
  <2>3. folders \in Seq(FolderRows) /\ folders' \in Seq(FolderRows)
    BY DEF TypeOK
  <2>4. Len(folders) + 1 \in Live' /\ Len(folders) + 1 \notin Ids
    BY <2>1, <2>3 DEF Live, Ids
  <2>5. ~Meets(r, held)
    BY <2>1, <2>4, HeldTypes DEF Meets, PointsToRows
  <2>6. Grounded(held)'
    BY <2>1, <2>4 DEF Grounded, Exists, Under, Placing
  <2> QED BY <1>16, <2>1, <2>2, <2>5, <2>6
<1>19. ASSUME NEW r \in Requests, FilePlace(r) PROVE OrphanInv'
  <2>1. /\ req[r].pc \in Under \ {"parent"} /\ Continue(r, Idle) /\ UNCHANGED folders
        /\ filled' \subseteq filled \cup {req[r].parent} /\ Root \notin filled'
    BY <1>1, <1>19 DEF FilePlace, Under
  <2>2. Live' = Live /\ Grounded(Idle)' /\ UNCHANGED raced /\ req' = [req EXCEPT ![r] = Idle]
    BY <2>1 DEF Live, Ids, Grounded, Idle, Under, Placing, Continue, ghosts
  <2>3. req[r].parent \in Ids \cup {Root}
    BY <2>1, HeldTypes DEF PointsToRows
  <2> QED BY <2>1, <2>2, <2>3, TreeTakes, IdleQuiet
<1>20. ASSUME NEW r \in Requests, UpdateWrite(r) PROVE OrphanInv'
  <2>1. req[r].pc = "write" /\ req[r] \in Updating /\ PointsToRows(req[r]) /\ UNCHANGED filled
    BY <1>20, HeldTypes DEF UpdateWrite, Placing
  <2>2. PICK held, path : /\ Continue(r, held) /\ held.pc \in {"idle", "list"}
                          /\ folders' = [folders EXCEPT ![req[r].folder].name = req[r].name,
                                                        ![req[r].folder].parent = req[r].parent,
                                                        ![req[r].folder].path = path]
    BY <1>20 DEF UpdateWrite, Idle
  <2>3. Ids' = Ids
    BY <2>2 DEF Ids
  <2>4. req[r].folder \in Ids /\ req[r].pc \in Under \ {"parent"}
        /\ req[r].parent \in Ids \cup {Root}
    BY <2>1 DEF PointsToRows, Under, Placing
  <2>5. \A g \in Ids : /\ folders'[g].deleted = folders[g].deleted
                       /\ folders'[g].parent = IF g = req[r].folder THEN req[r].parent
                                               ELSE folders[g].parent
    BY <2>2, <2>4, RootIsNoFolder DEF Ids, FolderRows
  <2>6. Live' = Live
    BY <2>3, <2>5 DEF Live
  <2>7. \A f \in Live' : \/ folders'[f].parent = req[r].parent
                         \/ f \in Live /\ folders'[f].parent = folders[f].parent
    BY <2>5, <2>6 DEF Live
  <2>8. Grounded(held)' /\ ~Meets(r, held) /\ held.pc # "remove"
    BY <2>2 DEF Grounded, Meets, Under, Placing
  <2>9. UNCHANGED raced /\ req' = [req EXCEPT ![r] = held] /\ Root \notin filled'
    BY <1>1, <2>2 DEF Continue, ghosts
  <2> QED BY <2>1, <2>4, <2>6, <2>7, <2>8, <2>9, TreeTakes
<1>21. ASSUME NEW r \in Requests, Abort(r) PROVE OrphanInv'
  BY <1>2, <1>21, IdleQuiet DEF Abort
<1>22. ASSUME UNCHANGED <<folders, req, raced>>, filled' \subseteq filled PROVE OrphanInv'
  <2> SUFFICES ASSUME ~raced PROVE Housed' /\ Apart' /\ \A q \in Requests : Grounded(req[q])'
    BY <1>22 DEF OrphanInv
  <2>1. Housed /\ Apart /\ \A q \in Requests : Grounded(req[q])
    BY DEF OrphanInv
  <2>2. Live' = Live
    BY <1>22 DEF Live, Ids
  <2> QED BY <1>22, <2>1, <2>2 DEF Housed, Apart, Grounded, Holds, Exists
<1>23. ASSUME NEW r \in Requests, Arrive(r) PROVE OrphanInv'
  BY <1>6, <1>7, <1>8, <1>9, <1>23 DEF Arrive
<1>24. ASSUME NEW r \in Requests, Proceed(r) PROVE OrphanInv'
  BY <1>11, <1>12, <1>13, <1>14, <1>15, <1>17, <1>18, <1>19, <1>20, <1>24, MarkKeepsHoused
     DEF Proceed
<1>25. ASSUME NEW f \in Ids, FileRemoved(f) PROVE OrphanInv'
  BY <1>22, <1>25 DEF FileRemoved, ghosts
<1>26. CASE UNCHANGED vars
  BY <1>22, <1>26 DEF vars, ghosts
<1> QED BY <1>21, <1>23, <1>24, <1>25, <1>26 DEF Next, FindTree

-----------------------------------------------------------------------------
(* Requests in turn keep the paths                                         *)

Agrees(f) == folders[f].path = PathUnder(PathOf(folders[f].parent), folders[f].name)

AllAgree == \A f \in Live : Agrees(f)

\* The rebuild has f still to visit.
Awaited(stack, f) == \E i \in DOMAIN stack : \E child \in stack[i].rest : child.id = f

\* What awaits a visit is not listed itself, is held in one call alone, and has its
\* name and the path of its parent, a folder listed, as they are.
Waiting(listed, stack) ==
  \A i \in DOMAIN stack : \A child \in stack[i].rest :
    /\ child.id \notin listed /\ folders[child.id].parent \in listed
    /\ child.name = folders[child.id].name
    /\ stack[i].path = folders[folders[child.id].parent].path
    /\ \A j \in DOMAIN stack \ {i} : \A other \in stack[j].rest : other.id # child.id

\* The folders whose children a rebuild has listed hang together below top.
Hanging(listed, top) ==
  listed \subseteq Ids /\ \A f \in listed \ {top} : folders[f].parent \in listed

\* A folder about to be listed is met for the first time, and has its new path.
Meeting(listed, top, q) ==
  /\ q.folder \notin listed /\ ~Awaited(q.stack, q.folder)
  /\ q.folder # top => folders[q.folder].parent \in listed
  /\ q.path = folders[q.folder].path

Rebuilding(q) ==
  \E listed \in SUBSET Ids, top \in Ids :
    /\ Hanging(listed, top) /\ Waiting(listed, q.stack)
    /\ q.pc = "list" => Meeting(listed, top, q)
    /\ \A f \in Live : \/ Agrees(f) \/ Awaited(q.stack, f)
                       \/ q.pc = "list" /\ folders[f].parent = q.folder

\* What a request holds of paths, and which folders agree, at each await.
PathStage(q) ==
  /\ q.pc \in {"create", "seek", "make", "climb", "write"} => q.path = PathOf(q.parent)
  /\ q.pc \in Placing =>
       /\ q.folder \in Live
       /\ ~q.rebuild => /\ q.parent = folders[q.folder].parent
                        /\ q.name = folders[q.folder].name
  /\ IF q.pc \in {"list", "rebuild"} THEN Rebuilding(q) ELSE AllAgree

PathInv ==
  serial => /\ ~crossed
            /\ \A r, q \in Busy : r = q
            /\ Busy = {} => AllAgree
            /\ \A r \in Busy : PathStage(req[r])

\* What awaits a visit is what the call and the calls around it have left.
LEMMA PendingWaits ==
  ASSUME NEW call \in Calls, NEW stack \in Seq(Calls), NEW listed,
         Waiting(listed, stack),
         \A child \in call.rest :
           /\ child.id \notin listed /\ folders[child.id].parent \in listed
           /\ child.name = folders[child.id].name
           /\ call.path = folders[folders[child.id].parent].path
           /\ ~Awaited(stack, child.id)
  PROVE  /\ Waiting(listed, Pending(call, stack))
         /\ \A f : Awaited(Pending(call, stack), f)
                     <=> Awaited(stack, f) \/ \E child \in call.rest : child.id = f
<1>1. CASE call.rest = {}
  BY <1>1 DEF Pending
<1>2. CASE call.rest # {}
  <2>1. PICK all : all = <<call>> \o stack
    OBVIOUS
  <2>2. Pending(call, stack) = all
    BY <1>2, <2>1 DEF Pending
  <2>3. /\ DOMAIN all = 1 .. Len(stack) + 1 /\ DOMAIN stack = 1 .. Len(stack)
        /\ Len(stack) \in Nat /\ all[1] = call
        /\ \A i \in 1 .. Len(stack) : all[i + 1] = stack[i]
    BY <2>1
  <2>4. \A i \in DOMAIN all : \/ i = 1 /\ all[i] = call
                              \/ i - 1 \in DOMAIN stack /\ all[i] = stack[i - 1]
    BY <2>3
  <2>5. \A i \in DOMAIN stack : i + 1 \in DOMAIN all /\ all[i + 1] = stack[i]
    BY <2>3
  <2>6. 1 \in DOMAIN all
    BY <2>3
  <2>7. \A f : Awaited(all, f) <=> Awaited(stack, f) \/ \E child \in call.rest : child.id = f
    <3>1. ASSUME NEW f, Awaited(all, f)
          PROVE  Awaited(stack, f) \/ \E child \in call.rest : child.id = f
      BY <2>4, <3>1, Zenon DEF Awaited
    <3>2. ASSUME NEW f, Awaited(stack, f) PROVE Awaited(all, f)
      BY <2>5, <3>2, Zenon DEF Awaited
    <3>3. ASSUME NEW f, \E child \in call.rest : child.id = f PROVE Awaited(all, f)
      BY <2>3, <2>6, <3>3, Zenon DEF Awaited
    <3> QED BY <3>1, <3>2, <3>3
  <2>8. ASSUME NEW i \in DOMAIN all, NEW child \in all[i].rest
        PROVE  /\ child.id \notin listed /\ folders[child.id].parent \in listed
               /\ child.name = folders[child.id].name
               /\ all[i].path = folders[folders[child.id].parent].path
    BY <2>4, <2>8 DEF Waiting
  <2>9. ASSUME NEW i \in DOMAIN all, NEW child \in all[i].rest,
               NEW j \in DOMAIN all \ {i}, NEW other \in all[j].rest, other.id = child.id
        PROVE  FALSE
    <3>1. CASE i = 1 /\ all[i] = call
      <4>1. j - 1 \in DOMAIN stack /\ all[j] = stack[j - 1]
        BY <2>4, <3>1
      <4> QED BY <2>9, <3>1, <4>1 DEF Awaited
    <3>2. CASE j = 1 /\ all[j] = call
      <4>1. i - 1 \in DOMAIN stack /\ all[i] = stack[i - 1]
        BY <2>4, <3>2
      <4> QED BY <2>9, <3>2, <4>1 DEF Awaited
    <3>3. CASE /\ i - 1 \in DOMAIN stack /\ all[i] = stack[i - 1]
               /\ j - 1 \in DOMAIN stack /\ all[j] = stack[j - 1]
      <4>1. j - 1 \in DOMAIN stack \ {i - 1}
        BY <2>3, <3>3
      <4> QED BY <2>9, <3>3, <4>1 DEF Waiting
    <3> QED BY <2>4, <3>1, <3>2, <3>3
  <2> QED BY <2>2, <2>7, <2>8, <2>9 DEF Waiting
<1> QED BY <1>1, <1>2

\* The innermost call, and the calls around it.
LEMMA HeadWaits ==
  ASSUME NEW stack \in Seq(Calls) \ {<<>>}, NEW listed, Waiting(listed, stack)
  PROVE  /\ Waiting(listed, Tail(stack))
         /\ \A f : Awaited(stack, f)
                     <=> Awaited(Tail(stack), f) \/ \E child \in Head(stack).rest : child.id = f
         /\ \A child \in Head(stack).rest :
              /\ child.id \notin listed /\ folders[child.id].parent \in listed
              /\ child.name = folders[child.id].name
              /\ Head(stack).path = folders[folders[child.id].parent].path
              /\ ~Awaited(Tail(stack), child.id)
<1>1. PICK call, rest : call = Head(stack) /\ rest = Tail(stack)
  OBVIOUS
<1>2. /\ call = stack[1] /\ Len(stack) \in Nat /\ DOMAIN stack = 1 .. Len(stack)
      /\ 1 \in DOMAIN stack /\ DOMAIN rest = 1 .. Len(stack) - 1
      /\ \A i \in 1 .. Len(stack) - 1 : rest[i] = stack[i + 1]
  BY <1>1
<1>3. \A i \in DOMAIN rest : i + 1 \in DOMAIN stack \ {1} /\ rest[i] = stack[i + 1]
  BY <1>2
<1>4. \A i \in DOMAIN stack : \/ i = 1 /\ stack[i] = call
                              \/ i - 1 \in DOMAIN rest /\ stack[i] = rest[i - 1]
  BY <1>2
<1>5. \A f : Awaited(stack, f) <=> Awaited(rest, f) \/ \E child \in call.rest : child.id = f
  BY <1>2, <1>3, <1>4, Zenon DEF Awaited
<1>6. ASSUME NEW i \in DOMAIN rest, NEW child \in rest[i].rest
      PROVE  /\ child.id \notin listed /\ folders[child.id].parent \in listed
             /\ child.name = folders[child.id].name
             /\ rest[i].path = folders[folders[child.id].parent].path
             /\ \A j \in DOMAIN rest \ {i} : \A other \in rest[j].rest : other.id # child.id
  <2>1. i + 1 \in DOMAIN stack /\ child \in stack[i + 1].rest /\ rest[i] = stack[i + 1]
    BY <1>3, <1>6
  <2>2. \A j \in DOMAIN rest \ {i} : j + 1 \in DOMAIN stack \ {i + 1} /\ rest[j] = stack[j + 1]
    BY <1>2
  <2> QED BY <2>1, <2>2 DEF Waiting
<1>7. Waiting(listed, rest)
  BY <1>6 DEF Waiting
<1>8. ASSUME NEW child \in call.rest
      PROVE  /\ child.id \notin listed /\ folders[child.id].parent \in listed
             /\ child.name = folders[child.id].name
             /\ call.path = folders[folders[child.id].parent].path
             /\ \A j \in DOMAIN rest : \A other \in rest[j].rest : other.id # child.id
  BY <1>2, <1>3, <1>8 DEF Waiting
<1>9. \A child \in call.rest : ~Awaited(rest, child.id)
  BY <1>8 DEF Awaited
<1> QED BY <1>1, <1>5, <1>7, <1>8, <1>9

\* Only the path of a folder that is not listed is written.
LEMMA WaitsOn ==
  ASSUME NEW listed, NEW stack, Waiting(listed, stack),
         \A i \in DOMAIN stack : \A child \in stack[i].rest :
           /\ folders'[child.id].parent = folders[child.id].parent
           /\ folders'[child.id].name = folders[child.id].name,
         \A f \in listed : folders'[f].path = folders[f].path
  PROVE  Waiting(listed, stack)'
BY DEF Waiting

LEMMA StageKept ==
  ASSUME UNCHANGED folders, NEW q, PathStage(q)
  PROVE  PathStage(q)'
<1>1. Ids' = Ids /\ Live' = Live /\ (AllAgree => AllAgree')
  BY DEF Ids, Live, AllAgree, Agrees, PathOf
<1>2. ASSUME Rebuilding(q) PROVE Rebuilding(q)'
  <2>1. PICK listed \in SUBSET Ids, top \in Ids :
          /\ Hanging(listed, top) /\ Waiting(listed, q.stack)
          /\ q.pc = "list" => Meeting(listed, top, q)
          /\ \A f \in Live : \/ Agrees(f) \/ Awaited(q.stack, f)
                             \/ q.pc = "list" /\ folders[f].parent = q.folder
    BY <1>2 DEF Rebuilding
  <2>2. Hanging(listed, top)' /\ Waiting(listed, q.stack)'
    BY <2>1, <1>1 DEF Hanging, Waiting
  <2>3. (q.pc = "list" => Meeting(listed, top, q))'
    BY <2>1 DEF Meeting
  <2>4. \A f \in Live' : \/ Agrees(f)' \/ Awaited(q.stack, f)
                         \/ q.pc = "list" /\ folders'[f].parent = q.folder
    BY <1>1, <2>1 DEF Agrees, PathOf
  <2> QED BY <1>1, <2>2, <2>3, <2>4 DEF Rebuilding, Awaited
<1> QED BY <1>1, <1>2 DEF PathStage, PathOf

\* The one request under way goes on.
LEMMA PathGoesOn ==
  ASSUME TypeOK, PathInv, NEW r \in Busy, NEW held, req' = [req EXCEPT ![r] = held],
         UNCHANGED <<serial, crossed>>, serial => PathStage(held)'
  PROVE  PathInv'
<1> SUFFICES ASSUME serial PROVE /\ ~crossed'
                                 /\ \A s, q \in Busy' : s = q
                                 /\ Busy' = {} => AllAgree'
                                 /\ \A s \in Busy' : PathStage(req[s])'
  BY DEF PathInv
<1>1. Busy = {r} /\ ~crossed
  BY DEF PathInv
<1>2. req'[r] = held /\ \A s \in Requests \ {r} : req'[s] = req[s]
  BY DEF TypeOK, Busy
<1>3. Busy' \subseteq {r} /\ (Busy' = {} => held.pc = "idle")
  BY <1>1, <1>2 DEF Busy
<1>4. held.pc = "idle" => AllAgree'
  BY DEF PathStage
<1>5. PathStage(req[r])'
  BY <1>2 DEF PathStage, Rebuilding, Hanging, Waiting, Meeting, Awaited, Agrees, AllAgree
<1> QED BY <1>1, <1>3, <1>4, <1>5

\* A request that meets no other begins among paths that agree.
LEMMA PathBegins ==
  ASSUME TypeOK, PathInv, NEW r \in Requests, NEW held, Begin(r, held), UNCHANGED folders,
         crossed' \in {crossed, crossed \/ \E q \in Requests : req[q].pc \in Placing},
         AllAgree => PathStage(held)
  PROVE  PathInv'
<1> SUFFICES ASSUME serial' PROVE /\ ~crossed'
                                  /\ \A s, q \in Busy' : s = q
                                  /\ Busy' = {} => AllAgree'
                                  /\ \A s \in Busy' : PathStage(req[s])'
  BY DEF PathInv
<1>1. serial /\ Busy = {}
  BY DEF Begin
<1>2. AllAgree /\ ~crossed
  BY <1>1 DEF PathInv
<1>3. ~crossed'
  BY <1>1, <1>2 DEF Busy, Placing
<1>4. req'[r] = held /\ \A s \in Requests \ {r} : req'[s] = req[s]
  BY DEF TypeOK, Begin
<1>5. Busy' \subseteq {r}
  BY <1>1, <1>4 DEF Busy
<1>6. AllAgree' /\ PathStage(held)'
  BY <1>2, StageKept DEF AllAgree, Agrees, PathOf, Live, Ids
<1>7. PathStage(held)'
  BY <1>6
<1>8. PathStage(req[r])'
  BY <1>4, <1>7 DEF PathStage, Rebuilding, Hanging, Waiting, Meeting, Awaited, Agrees, AllAgree
<1> QED BY <1>3, <1>5, <1>6, <1>8

\* A new row has its parent's path and its own name.
LEMMA AppendAgrees ==
  ASSUME TypeOK, AllAgree, NEW parent \in Ids \cup {Root}, NEW path, NEW name,
         path = PathOf(parent), folders' = Append(folders, NewRow(parent, path, name))
  PROVE  /\ AllAgree' /\ Len(folders) + 1 # Root
         /\ folders'[Len(folders) + 1].path = PathUnder(path, name)
         /\ \A f \in Ids \cup {Root} : PathOf(f)' = PathOf(f)
<1>1. PICK new, row : new = Len(folders) + 1 /\ row = NewRow(parent, path, name)
  OBVIOUS
<1>2. /\ Ids = 1 .. Len(folders) /\ Len(folders) \in Nat /\ Root \notin Ids
      /\ folders \in Seq(FolderRows)
  BY RootIsNoFolder DEF TypeOK
<1>3. /\ Ids' = Ids \cup {new} /\ new \notin Ids /\ new # Root
      /\ folders'[new] = row /\ \A f \in Ids : folders'[f] = folders[f]
  BY <1>1, <1>2 DEF Ids, Root
<1>4. row.parent = parent /\ row.path = PathUnder(path, name) /\ row.name = name
  BY <1>1 DEF NewRow
<1>5. \A f \in Ids \cup {Root} : (IF f = Root THEN <<>> ELSE folders'[f].path) = PathOf(f)
  BY <1>2, <1>3 DEF PathOf
<1>6. ASSUME NEW f \in Ids', ~folders'[f].deleted
      PROVE  folders'[f].path
               = PathUnder(IF folders'[f].parent = Root THEN <<>>
                           ELSE folders'[folders'[f].parent].path, folders'[f].name)
  <2>1. CASE f = new
    BY <1>3, <1>4, <1>5, <2>1
  <2>2. CASE f \in Ids
    <3>1. folders'[f] = folders[f] /\ folders[f].parent \in Ids \cup {Root}
      BY <1>3, <2>2 DEF TypeOK
    <3>2. folders[f].path = PathUnder(PathOf(folders[f].parent), folders[f].name)
      BY <1>6, <2>2, <3>1 DEF AllAgree, Agrees, Live
    <3> QED BY <1>5, <3>1, <3>2
  <2> QED BY <1>3, <2>1, <2>2
<1>7. AllAgree'
  BY <1>6 DEF AllAgree, Agrees, Live, PathOf
<1>8. \A f \in Ids \cup {Root} : PathOf(f)' = PathOf(f)
  BY <1>5 DEF PathOf
<1> QED BY <1>1, <1>3, <1>4, <1>7, <1>8

LEMMA Staged ==
  ASSUME PathInv, serial, NEW r \in Requests, req[r].pc # "idle"
  PROVE  r \in Busy /\ PathStage(req[r]) /\ ~crossed
BY DEF PathInv, Busy

\* A request that writes no folder goes on, or ends.
LEMMA PathKeepsRows ==
  ASSUME TypeOK, PathInv, NEW r \in Requests, req[r].pc # "idle", NEW held,
         req' = [req EXCEPT ![r] = held], UNCHANGED <<folders, serial, crossed>>,
         serial /\ PathStage(req[r]) => PathStage(held)
  PROVE  PathInv'
<1>1. r \in Busy
  BY DEF Busy
<1>2. serial => PathStage(held)'
  BY <1>1, Staged, StageKept
<1> QED BY <1>1, <1>2, PathGoesOn

LEMMA ArrivePaths ==
  ASSUME TypeOK, PathInv, NEW r \in Requests, Arrive(r)
  PROVE  PathInv'
<1>1. ASSUME NEW parent \in Ids \cup {Root}, NEW name \in Names, CreateRead(r, parent, name)
      PROVE  PathInv'
  <2>1. PICK held : held = [pc |-> "create", parent |-> parent, path |-> PathOf(parent),
                            name |-> name]
    OBVIOUS
  <2>2. AllAgree => PathStage(held)
    BY <2>1 DEF PathStage, Placing
  <2> QED BY <1>1, <2>1, <2>2, PathBegins DEF CreateRead
<1>2. ASSUME NEW parent \in Ids \cup {Root}, NEW todo, UploadRead(r, parent, todo)
      PROVE  PathInv'
  <2>1. PICK held : held = Onward(parent, PathOf(parent), todo)
    OBVIOUS
  <2>2. AllAgree => PathStage(held)
    BY <2>1 DEF PathStage, Placing, Onward
  <2> QED BY <1>2, <2>1, <2>2, PathBegins DEF UploadRead
<1>3. ASSUME NEW f \in Ids, NEW name \in Names, NEW to \in Ids \cup {Root},
             UpdateRead(r, f, name, to)
      PROVE  PathInv'
  <2>1. PICK held :
          held = [pc |-> IF to = Root THEN "write" ELSE "parent",
                  folder |-> f, name |-> name, parent |-> to, path |-> <<>>, at |-> to,
                  moving |-> to # folders[f].parent,
                  rebuild |-> to # folders[f].parent \/ name # folders[f].name]
    OBVIOUS
  <2>2. f \in Live /\ Begin(r, held) /\ UNCHANGED folders
    BY <1>3, <2>1 DEF UpdateRead
  <2>3. AllAgree => PathStage(held)
    BY <2>1, <2>2 DEF PathStage, Placing, PathOf
  <2>4. crossed' = (crossed \/ \E q \in Requests : req[q].pc \in Placing)
    BY <1>3 DEF UpdateRead
  <2> QED BY <2>2, <2>3, <2>4, PathBegins
<1>4. ASSUME NEW f \in Ids, RemoveRead(r, f) PROVE PathInv'
  <2>1. PICK held : held = [pc |-> "remove", folder |-> f, todo |-> {"folders", "files"}]
    OBVIOUS
  <2>2. AllAgree => PathStage(held)
    BY <2>1 DEF PathStage, Placing
  <2> QED BY <1>4, <2>1, <2>2, PathBegins DEF RemoveRead
<1> QED BY <1>1, <1>2, <1>3, <1>4 DEF Arrive

LEMMA CreateRowPaths ==
  ASSUME TypeOK, PathInv, NEW r \in Requests, CreateRow(r)
  PROVE  PathInv'
<1>1. PICK q : q = req[r]
  OBVIOUS
<1>2. /\ q.pc = "create" /\ folders' = Append(folders, NewRow(q.parent, q.path, q.name))
      /\ req' = [req EXCEPT ![r] = Idle] /\ UNCHANGED <<serial, crossed>>
      /\ q.parent \in Ids \cup {Root} /\ r \in Busy
  BY <1>1, HeldTypes DEF CreateRow, Continue, ghosts, PointsToRows, Under, Busy
<1>3. ASSUME serial PROVE PathStage(Idle)'
  <2>1. AllAgree /\ q.path = PathOf(q.parent)
    BY <1>1, <1>2, <1>3, Staged DEF PathStage
  <2>2. AllAgree'
    BY <1>2, <2>1, AppendAgrees
  <2> QED BY <2>2 DEF PathStage, Idle, Placing
<1> QED BY <1>2, <1>3, PathGoesOn

LEMMA UploadMakePaths ==
  ASSUME TypeOK, PathInv, NEW r \in Requests, UploadMake(r)
  PROVE  PathInv'
<1>1. PICK q, new, path, held :
        /\ q = req[r] /\ new = Len(folders) + 1 /\ path = PathUnder(q.path, Head(q.todo))
        /\ held = Onward(new, path, Tail(q.todo))
  OBVIOUS
<1>2. /\ q.pc = "make" /\ req' = [req EXCEPT ![r] = held] /\ UNCHANGED <<serial, crossed>>
      /\ folders' = Append(folders, NewRow(q.parent, q.path, Head(q.todo)))
      /\ q.parent \in Ids \cup {Root} /\ r \in Busy
  BY <1>1, HeldTypes DEF UploadMake, NewRow, Continue, ghosts, PointsToRows, Under, Busy
<1>3. ASSUME serial PROVE PathStage(held)'
  <2>1. AllAgree /\ q.path = PathOf(q.parent)
    BY <1>1, <1>2, <1>3, Staged DEF PathStage
  <2>2. AllAgree' /\ new # Root /\ folders'[new].path = path
    BY <1>1, <1>2, <2>1, AppendAgrees
  <2>3. \/ held.pc = "place"
        \/ held.pc = "seek" /\ held.parent = new /\ held.path = path
    BY <1>1 DEF Onward
  <2>4. AllAgree'
    BY <2>2
  <2> QED BY <2>2, <2>3, <2>4 DEF PathStage, Placing, PathOf
<1> QED BY <1>2, <1>3, PathGoesOn

LEMMA UpdateReadsPaths ==
  ASSUME TypeOK, PathInv, NEW r \in Requests, UpdateParent(r) \/ Climb(r)
  PROVE  PathInv'
<1>1. PICK q : q = req[r]
  OBVIOUS
<1>2. /\ q \in Updating /\ q.pc \in {"parent", "climb"} /\ PointsToRows(q)
      /\ UNCHANGED <<folders, serial, crossed>>
  BY <1>1, HeldTypes DEF UpdateParent, Climb, Placing, Continue, ghosts
<1>3. ASSUME PathStage(q) PROVE PathStage(Idle)
  BY <1>2, <1>3 DEF PathStage, Idle, Placing
<1>4. CASE UpdateParent(r)
  <2>1. PICK held : held = [q EXCEPT !.pc = IF q.moving THEN "climb" ELSE "write",
                                     !.path = folders[q.parent].path]
    OBVIOUS
  <2>2. q.pc = "parent" /\ (Continue(r, Idle) \/ Continue(r, held))
    BY <1>1, <1>4, <2>1 DEF UpdateParent
  <2>3. q.parent \in Ids /\ q.parent # Root
    BY <1>2, <2>2, RootIsNoFolder DEF PointsToRows
  <2>4. /\ held.pc \in {"climb", "write"} /\ held.path = folders[q.parent].path
        /\ held.parent = q.parent /\ held.folder = q.folder /\ held.name = q.name
        /\ held.rebuild = q.rebuild
    BY <1>2, <2>1 DEF Updating
  <2>5. ASSUME PathStage(q) PROVE PathStage(held)
    BY <1>2, <2>2, <2>3, <2>4, <2>5 DEF PathStage, Placing, PathOf
  <2> QED BY <1>1, <1>2, <1>3, <2>2, <2>5, PathKeepsRows DEF Continue
<1>5. CASE Climb(r)
  <2>1. PICK ready, higher :
          ready = [q EXCEPT !.pc = "write"] /\ higher = [q EXCEPT !.at = folders[q.at].parent]
    OBVIOUS
  <2>2. q.pc = "climb" /\ \E held \in {Idle, ready, higher} : Continue(r, held)
    BY <1>1, <1>5, <2>1 DEF Climb
  <2>3. \A held \in {ready, higher} :
          /\ held.pc \in {"climb", "write"} /\ held.path = q.path
          /\ held.parent = q.parent /\ held.folder = q.folder /\ held.name = q.name
          /\ held.rebuild = q.rebuild
    BY <1>2, <2>1, <2>2 DEF Updating
  <2>4. ASSUME PathStage(q), NEW held \in {ready, higher} PROVE PathStage(held)
    BY <2>2, <2>3, <2>4 DEF PathStage, Placing
  <2> QED BY <1>1, <1>2, <1>3, <2>2, <2>4, PathKeepsRows DEF Continue
<1> QED BY <1>4, <1>5

LEMMA UploadSeekPaths ==
  ASSUME TypeOK, PathInv, NEW r \in Requests, UploadSeek(r)
  PROVE  PathInv'
<1>1. PICK q, make : q = req[r] /\ make = [q EXCEPT !.pc = "make"]
  OBVIOUS
<1>2. /\ q.pc = "seek" /\ UNCHANGED <<folders, serial, crossed>>
      /\ \/ req' = [req EXCEPT ![r] = make]
         \/ \E f \in Live :
              req' = [req EXCEPT ![r] = Onward(f, folders[f].path, Tail(q.todo))]
  BY <1>1 DEF UploadSeek
<1>3. q \in [pc : {"seek", "make"}, parent : Nat, path : ParentPaths, todo : Seq(Names) \ {<<>>}]
  BY <1>1, <1>2 DEF TypeOK, Request, Idle, Updating, Placing
<1>4. ASSUME PathStage(q) PROVE PathStage(make)
  <2>1. make.pc = "make" /\ make.path = q.path /\ make.parent = q.parent
    BY <1>1, <1>3
  <2> QED BY <1>2, <1>4, <2>1 DEF PathStage, Placing
<1>5. ASSUME NEW f \in Live, NEW held, held = Onward(f, folders[f].path, Tail(q.todo)),
             PathStage(q)
      PROVE  PathStage(held)
  <2>1. f # Root
    BY RootIsNoFolder DEF Live
  <2>2. \/ held.pc = "place"
        \/ held.pc = "seek" /\ held.parent = f /\ held.path = folders[f].path
    BY <1>5 DEF Onward
  <2> QED BY <1>2, <1>5, <2>1, <2>2 DEF PathStage, Placing, PathOf
<1> QED BY <1>1, <1>2, <1>4, <1>5, PathKeepsRows

\* Between requests, and in one that neither reads nor writes a path.
LEMMA QuietPaths ==
  ASSUME TypeOK, PathInv, NEW r \in Requests,
         FilePlace(r) \/ \E what \in {"folders", "files"} : RemoveCount(r, what)
  PROVE  PathInv'
<1>1. PICK q : q = req[r]
  OBVIOUS
<1>2. CASE FilePlace(r)
  <2>1. PathStage(q) => PathStage(Idle)
    BY <1>1, <1>2 DEF FilePlace, PathStage, Idle, Placing
  <2> QED BY <1>1, <1>2, <2>1, PathKeepsRows DEF FilePlace, Continue, ghosts
<1>3. ASSUME NEW what \in {"folders", "files"}, RemoveCount(r, what) PROVE PathInv'
  <2>1. PICK held : held = [q EXCEPT !.todo = @ \ {what}]
    OBVIOUS
  <2>2. /\ q.pc = "remove" /\ UNCHANGED <<folders, serial, crossed>>
        /\ \E next \in {Idle, held} : req' = [req EXCEPT ![r] = next]
    BY <1>1, <1>3, <2>1 DEF RemoveCount, Continue, ghosts
  <2>3. q \in [pc : {"remove"}, folder : Nat, todo : SUBSET {"folders", "files"}]
    BY <1>1, <2>2 DEF TypeOK, Request, Idle, Updating, Placing
  <2>4. held.pc = "remove"
    BY <2>1, <2>3
  <2>5. ASSUME PathStage(q), NEW next \in {Idle, held} PROVE PathStage(next)
    BY <2>2, <2>4, <2>5 DEF PathStage, Idle, Placing
  <2> QED BY <1>1, <2>2, <2>5, PathKeepsRows
<1> QED BY <1>2, <1>3

\* A folder that is hidden leaves the paths of the others as they are.
LEMMA RemoveMarkPaths ==
  ASSUME TypeOK, PathInv, NEW r \in Requests, RemoveMark(r)
  PROVE  PathInv'
<1>1. PICK q, f : q = req[r] /\ f = q.folder
  OBVIOUS
<1>2. /\ q.pc = "remove" /\ f \in Ids /\ r \in Busy
      /\ folders' = [folders EXCEPT ![f].deleted = TRUE]
      /\ req' = [req EXCEPT ![r] = Idle] /\ UNCHANGED <<serial, crossed>>
  BY <1>1, HeldTypes DEF RemoveMark, Continue, ghosts, PointsToRows, Busy
<1>3. folders[f] \in FolderRows /\ Ids' = Ids
  BY <1>2, RootIsNoFolder DEF Ids
<1>4. \A g \in Ids : /\ folders'[g].path = folders[g].path
                     /\ folders'[g].parent = folders[g].parent
                     /\ folders'[g].name = folders[g].name
                     /\ g # f => folders'[g] = folders[g]
  BY <1>2, <1>3 DEF FolderRows, Ids
<1>5. folders'[f].deleted
  BY <1>2, <1>3 DEF FolderRows, Ids
<1>6. Live' \subseteq Live
  BY <1>3, <1>4, <1>5 DEF Live
<1>7. ASSUME serial PROVE PathStage(Idle)'
  <2>1. AllAgree
    BY <1>1, <1>2, <1>7, Staged DEF PathStage
  <2>2. \A g \in Live : g \in Ids /\ folders[g].parent \in Ids \cup {Root}
    BY DEF Live, TypeOK
  <2>3. AllAgree'
    BY <1>4, <1>6, <2>1, <2>2 DEF AllAgree, Agrees, PathOf
  <2> QED BY <2>3 DEF PathStage, Idle, Placing
<1> QED BY <1>2, <1>7, PathGoesOn

\* The folder written agrees, for its parent is another; only its children may not.
LEMMA UpdateWritePaths ==
  ASSUME TypeOK, PathInv, LoopInv', NEW r \in Requests, UpdateWrite(r)
  PROVE  PathInv'
<1>1. PICK q, f, path : q = req[r] /\ f = q.folder /\ path = PathUnder(q.path, q.name)
  OBVIOUS
<1>2. PICK list : list = [pc |-> "list", folder |-> f, path |-> path, stack |-> <<>>]
  OBVIOUS
<1>3. /\ q.pc = "write" /\ f \in Ids /\ q.parent \in Ids \cup {Root} /\ r \in Busy
      /\ folders' = [folders EXCEPT ![f].name = q.name, ![f].parent = q.parent,
                                    ![f].path = path]
      /\ req' = [req EXCEPT ![r] = IF q.rebuild THEN list ELSE Idle]
      /\ UNCHANGED <<serial, crossed>>
  BY <1>1, <1>2, HeldTypes DEF UpdateWrite, Continue, ghosts, PointsToRows, Placing, Under,
     Busy
<1>4. folders[f] \in FolderRows /\ Ids' = Ids
  BY <1>3, RootIsNoFolder DEF Ids
<1>5. /\ folders'[f].name = q.name /\ folders'[f].parent = q.parent
      /\ folders'[f].path = path /\ folders'[f].deleted = folders[f].deleted
      /\ \A g \in Ids \ {f} : folders'[g] = folders[g]
  BY <1>3, <1>4 DEF FolderRows, Ids
<1>6. Live' = Live
  BY <1>4, <1>5 DEF Live
<1> SUFFICES ASSUME serial PROVE PathStage(IF q.rebuild THEN list ELSE Idle)'
  BY <1>3, PathGoesOn
<1>7. /\ ~crossed /\ f \in Live /\ AllAgree /\ q.path = PathOf(q.parent)
      /\ ~q.rebuild => q.parent = folders[f].parent /\ q.name = folders[f].name
  BY <1>1, <1>3, Staged DEF PathStage, Placing
<1>8. q.parent # f
  <2>1. Acyclic'
    BY <1>3, <1>7 DEF LoopInv
  <2>2. {f} \in (SUBSET Ids') \ {{}}
    BY <1>3, <1>4
  <2>3. \E g \in {f} : folders'[g].parent \notin {f}
    BY <2>1, <2>2 DEF Acyclic
  <2> QED BY <1>5, <2>3
<1>9. \A g \in Ids \cup {Root} : g # f => PathOf(g)' = PathOf(g)
  BY <1>5 DEF PathOf
<1>10. Agrees(f)'
  <2>1. folders'[f].path = PathUnder(PathOf(q.parent), q.name)
    BY <1>1, <1>5, <1>7
  <2> QED BY <1>3, <1>5, <1>8, <1>9, <2>1 DEF Agrees, PathOf
<1>11. ASSUME NEW g \in Live \ {f}, folders[g].parent # f PROVE Agrees(g)'
  <2>1. /\ folders'[g] = folders[g] /\ folders[g].parent \in Ids \cup {Root}
        /\ folders[g].path = PathUnder(PathOf(folders[g].parent), folders[g].name)
    BY <1>5, <1>7 DEF Live, TypeOK, AllAgree, Agrees
  <2> QED BY <1>5, <1>11, <2>1 DEF Agrees, PathOf
<1>12. CASE q.rebuild
  <2>1. Hanging({}, f)' /\ Waiting({}, list.stack)'
    BY <1>2 DEF Hanging, Waiting
  <2>2. Meeting({}, f, list)' /\ list.pc = "list" /\ list.folder = f
    BY <1>2, <1>5 DEF Meeting, Awaited
  <2>3. \A g \in Live' : Agrees(g)' \/ folders'[g].parent = f
    BY <1>5, <1>6, <1>10, <1>11 DEF Live
  <2>4. Rebuilding(list)'
    BY <1>3, <1>4, <2>1, <2>2, <2>3 DEF Rebuilding
  <2> QED BY <1>12, <2>2, <2>4 DEF PathStage, Placing
<1>13. CASE ~q.rebuild
  <2>1. /\ folders'[f].path = folders[f].path /\ folders'[f].parent = folders[f].parent
        /\ folders'[f].name = folders[f].name
    BY <1>1, <1>5, <1>7, <1>13 DEF AllAgree, Agrees
  <2>2. \A g \in Live : g \in Ids /\ folders[g].parent \in Ids \cup {Root}
    BY DEF Live, TypeOK
  <2>3. \A g \in Ids : /\ folders'[g].path = folders[g].path
                       /\ folders'[g].parent = folders[g].parent
                       /\ folders'[g].name = folders[g].name
    BY <1>5, <2>1
  <2>4. AllAgree'
    BY <1>6, <1>7, <2>2, <2>3 DEF AllAgree, Agrees, PathOf
  <2> QED BY <1>13, <2>4 DEF PathStage, Idle, Placing
<1> QED BY <1>12, <1>13

\* In a tree without loops the children of the folder a rebuild comes to are met
\* for the first time.
LEMMA ChildrenAreNew ==
  ASSUME TypeOK, Acyclic, NEW listed \in SUBSET Ids, NEW top, NEW stack, NEW f \in Ids,
         Hanging(listed, top), Waiting(listed, stack), f \notin listed,
         f # top => folders[f].parent \in listed,
         NEW g \in Ids, folders[g].parent = f
  PROVE  g \notin listed /\ g # f /\ ~Awaited(stack, g)
<1>1. g # f
  <2>1. {f} \in (SUBSET Ids) \ {{}}
    OBVIOUS
  <2> QED BY <2>1 DEF Acyclic
<1>2. g \notin listed
  <2> SUFFICES ASSUME g \in listed PROVE FALSE
    OBVIOUS
  <2>1. g = top /\ f # top
    BY <1>1 DEF Hanging
  <2>2. \A h \in listed \cup {f} : folders[h].parent \in listed \cup {f}
    BY <2>1 DEF Hanging
  <2>3. listed \cup {f} \in (SUBSET Ids) \ {{}}
    OBVIOUS
  <2> QED BY <2>2, <2>3 DEF Acyclic
<1>3. ~Awaited(stack, g)
  BY DEF Awaited, Waiting
<1> QED BY <1>1, <1>2, <1>3

LEMMA RebuildListPaths ==
  ASSUME TypeOK, PathInv, LoopInv, NEW r \in Requests, RebuildList(r)
  PROVE  PathInv'
<1>1. PICK q, children, call :
        /\ q = req[r]
        /\ children = {[id |-> f, name |-> folders[f].name] :
                         f \in {g \in Live : folders[g].parent = q.folder}}
        /\ call = [path |-> q.path, rest |-> children]
  OBVIOUS
<1>2. PICK stack : stack = Pending(call, q.stack)
  OBVIOUS
<1>3. PICK held : held = IF stack = <<>> THEN Idle ELSE [pc |-> "rebuild", stack |-> stack]
  OBVIOUS
<1>4. /\ q.pc = "list" /\ q.path \in Paths /\ q.stack \in Seq(Calls) /\ q.folder \in Ids
      /\ req' = [req EXCEPT ![r] = held] /\ UNCHANGED <<folders, serial, crossed>>
  BY <1>1, <1>2, <1>3, HeldTypes
     DEF RebuildList, Continue, ghosts, PointsToRows, Placing
<1> SUFFICES ASSUME serial, PathStage(q) PROVE PathStage(held)
  BY <1>1, <1>4, PathKeepsRows
<1>5. Acyclic
  BY <1>1, <1>4, Staged DEF LoopInv
<1>6. PICK listed \in SUBSET Ids, top \in Ids :
        /\ Hanging(listed, top) /\ Waiting(listed, q.stack) /\ Meeting(listed, top, q)
        /\ \A f \in Live : \/ Agrees(f) \/ Awaited(q.stack, f)
                           \/ folders[f].parent = q.folder
  BY <1>4 DEF PathStage, Rebuilding
<1>7. PICK more \in SUBSET Ids : more = listed \cup {q.folder}
  BY <1>4
<1>8. Hanging(more, top)
  BY <1>4, <1>6, <1>7 DEF Hanging, Meeting
<1>9. Waiting(more, q.stack)
  <2>1. \A i \in DOMAIN q.stack : \A child \in q.stack[i].rest : child.id # q.folder
    BY <1>6 DEF Meeting, Awaited
  <2> QED BY <1>6, <1>7, <2>1 DEF Waiting
<1>10. \A child \in children :
         /\ child.id \in Live /\ folders[child.id].parent = q.folder
         /\ child.name = folders[child.id].name /\ child \in [id : Nat, name : Names]
  BY <1>1, RootIsNoFolder DEF Live, FolderRows
<1>11. call \in Calls /\ call.rest = children /\ call.path = q.path
  BY <1>1, <1>4, <1>10 DEF Calls
<1>12. ASSUME NEW child \in children
       PROVE  /\ child.id \notin more /\ folders[child.id].parent \in more
              /\ child.name = folders[child.id].name
              /\ call.path = folders[folders[child.id].parent].path
              /\ ~Awaited(q.stack, child.id)
  <2>1. child.id \in Ids /\ folders[child.id].parent = q.folder
    BY <1>10, <1>12 DEF Live
  <2>2. child.id \notin listed /\ child.id # q.folder /\ ~Awaited(q.stack, child.id)
    BY <1>4, <1>5, <1>6, <2>1, ChildrenAreNew DEF Meeting
  <2> QED BY <1>6, <1>7, <1>10, <1>11, <1>12, <2>1, <2>2 DEF Meeting
<1>13. /\ Waiting(more, stack)
       /\ \A f : Awaited(stack, f) <=> Awaited(q.stack, f) \/ \E child \in children : child.id = f
  BY <1>2, <1>4, <1>9, <1>11, <1>12, PendingWaits
<1>14. \A f \in Live : Agrees(f) \/ Awaited(stack, f)
  <2>1. ASSUME NEW f \in Live, folders[f].parent = q.folder
        PROVE  \E child \in children : child.id = f
    <3>1. [id |-> f, name |-> folders[f].name] \in children
      BY <1>1, <2>1
    <3> QED BY <3>1
  <2> QED BY <1>6, <1>13, <2>1
<1>15. CASE stack = <<>>
  <2>1. AllAgree
    BY <1>14, <1>15 DEF AllAgree, Awaited
  <2> QED BY <1>3, <1>15, <2>1 DEF PathStage, Idle, Placing
<1>16. CASE stack # <<>>
  <2>1. held.pc = "rebuild" /\ held.stack = stack
    BY <1>3, <1>16
  <2>2. Rebuilding(held)
    BY <1>8, <1>13, <1>14, <2>1 DEF Rebuilding
  <2> QED BY <2>1, <2>2 DEF PathStage, Placing
<1> QED BY <1>15, <1>16

\* A visit writes the path the folder's parent and name ask for, and leaves only
\* its children to be visited.
LEMMA RebuildChildPaths ==
  ASSUME TypeOK, PathInv, NEW r \in Requests, RebuildChild(r)
  PROVE  PathInv'
<1>1. PICK q, call, rest : q = req[r] /\ call = Head(q.stack) /\ rest = Tail(q.stack)
  OBVIOUS
<1>2. q.pc = "rebuild" /\ q.stack \in Seq(Calls) \ {<<>>} /\ PointsToRows(q)
  BY <1>1, HeldTypes DEF RebuildChild
<1>3. PICK child, path, left, stack, held :
        /\ child \in call.rest /\ path = PathUnder(call.path, child.name)
        /\ left = [path |-> call.path, rest |-> call.rest \ {child}]
        /\ stack = Pending(left, rest) /\ held = Descend(child.id, path, stack)
        /\ folders' = [folders EXCEPT ![child.id].path = path]
        /\ Continue(r, held)
  BY <1>1 DEF RebuildChild
<1>4. /\ call \in Calls /\ rest \in Seq(Calls) /\ call = q.stack[1] /\ 1 \in DOMAIN q.stack
  BY <1>1, <1>2
<1>5. PICK f : f = child.id
  OBVIOUS
<1>6. f \in Ids /\ f \in Nat /\ r \in Busy /\ folders[f] \in FolderRows
  BY <1>1, <1>2, <1>3, <1>4, <1>5, RootIsNoFolder DEF PointsToRows, Busy
<1>7. /\ Ids' = Ids /\ folders'[f].path = path
      /\ \A g \in Ids : /\ folders'[g].parent = folders[g].parent
                        /\ folders'[g].name = folders[g].name
                        /\ folders'[g].deleted = folders[g].deleted
                        /\ g # f => folders'[g].path = folders[g].path
  BY <1>3, <1>5, <1>6 DEF FolderRows, Ids
<1>8. Live' = Live
  BY <1>7 DEF Live
<1> SUFFICES ASSUME serial PROVE PathStage(held)'
  BY <1>3, <1>6, PathGoesOn DEF Continue, ghosts
<1>9. PICK listed \in SUBSET Ids, top \in Ids :
        /\ Hanging(listed, top) /\ Waiting(listed, q.stack)
        /\ \A g \in Live : Agrees(g) \/ Awaited(q.stack, g)
  BY <1>1, <1>2, Staged DEF PathStage, Rebuilding
<1>10. /\ Waiting(listed, rest)
       /\ \A g : Awaited(q.stack, g) <=> Awaited(rest, g) \/ \E c \in call.rest : c.id = g
       /\ \A c \in call.rest :
            /\ c.id \notin listed /\ folders[c.id].parent \in listed
            /\ c.name = folders[c.id].name
            /\ call.path = folders[folders[c.id].parent].path
            /\ ~Awaited(rest, c.id)
  BY <1>1, <1>2, <1>9, HeadWaits
<1>11. left \in Calls /\ left.rest = call.rest \ {child} /\ left.path = call.path
  BY <1>3, <1>4 DEF Calls
<1>12. /\ Waiting(listed, stack)
       /\ \A g : Awaited(stack, g) <=> Awaited(rest, g) \/ \E c \in left.rest : c.id = g
  <2>1. \A c \in left.rest :
          /\ c.id \notin listed /\ folders[c.id].parent \in listed
          /\ c.name = folders[c.id].name
          /\ left.path = folders[folders[c.id].parent].path
          /\ ~Awaited(rest, c.id)
    BY <1>10, <1>11
  <2>2. \A all : all = Pending(left, rest) =>
          /\ Waiting(listed, all)
          /\ \A g : Awaited(all, g) <=> Awaited(rest, g) \/ \E c \in left.rest : c.id = g
    BY <1>4, <1>10, <1>11, <2>1, PendingWaits
  <2> QED BY <1>3, <2>2
<1>13. \A c \in left.rest : c.id # f
  <2>1. \A c \in call.rest : c \in [id : Nat, name : Names]
    BY <1>4 DEF Calls
  <2>2. ASSUME NEW c \in call.rest, c.id = f PROVE c = child
    BY <1>3, <1>5, <1>10, <2>1, <2>2
  <2> QED BY <1>11, <2>2
<1>14. ~Awaited(stack, f) /\ f \notin listed /\ folders[f].parent \in listed
  BY <1>3, <1>5, <1>10, <1>12, <1>13
<1>15. \A g \in Live : g = f \/ Agrees(g) \/ Awaited(stack, g)
  BY <1>5, <1>9, <1>10, <1>11, <1>12
<1>16. /\ held.pc = "list" /\ held.folder = f /\ held.path = path /\ held.stack = stack
  BY <1>3, <1>5 DEF Descend
<1>17. /\ \A g \in listed : g \in Ids /\ folders'[g].path = folders[g].path
       /\ Root \notin listed
  BY <1>7, <1>14, RootIsNoFolder
<1>18. Waiting(listed, stack)'
  <2>1. \A i \in DOMAIN stack : \A c \in stack[i].rest : c.id \in Ids
    <3>1. \A c \in left.rest : c.id \in Ids
      BY <1>1, <1>2, <1>3, <1>4, <1>11 DEF PointsToRows
    <3>2. \A i \in DOMAIN rest : i + 1 \in DOMAIN q.stack /\ rest[i] = q.stack[i + 1]
      BY <1>1, <1>2
    <3>3. \A i \in DOMAIN rest : \A c \in rest[i].rest : c.id \in Ids
      BY <1>2, <3>2 DEF PointsToRows
    <3> QED BY <1>3, <1>4, <1>11, <3>1, <3>3, PendingTypes
  <2> QED BY <1>7, <1>12, <1>17, <2>1, WaitsOn
<1>19. Hanging(listed, top)'
  BY <1>7, <1>9, <1>17 DEF Hanging
<1>20. Meeting(listed, top, held)'
  BY <1>6, <1>7, <1>14, <1>16 DEF Meeting, Awaited
<1>21. Agrees(f)'
  <2>1. /\ folders[f].parent # f /\ folders[f].parent # Root /\ folders[f].parent \in listed
        /\ path = PathUnder(folders[folders[f].parent].path, folders[f].name)
    BY <1>3, <1>5, <1>10, <1>14, <1>17
  <2> QED BY <1>6, <1>7, <1>17, <2>1 DEF Agrees, PathOf
<1>22. ASSUME NEW g \in Live, g # f, folders[g].parent # f, Agrees(g) PROVE Agrees(g)'
  <2>1. g \in Ids /\ folders[g].parent \in Ids \cup {Root}
    BY <1>22 DEF Live, TypeOK
  <2> QED BY <1>7, <1>22, <2>1 DEF Agrees, PathOf
<1>23. \A g \in Live' : \/ Agrees(g)' \/ Awaited(stack, g)
                        \/ folders'[g].parent = f
  BY <1>7, <1>8, <1>15, <1>21, <1>22 DEF Live
<1>24. Rebuilding(held)'
  BY <1>7, <1>9, <1>16, <1>18, <1>19, <1>20, <1>23 DEF Rebuilding, Awaited
<1> QED BY <1>16, <1>24 DEF PathStage, Placing

LEMMA PathStep ==
  ASSUME TypeOK, PathInv, LoopInv, LoopInv', [Next]_vars
  PROVE  PathInv'
<1>1. ASSUME NEW r \in Requests, Proceed(r) PROVE PathInv'
  BY <1>1, CreateRowPaths, UploadSeekPaths, UploadMakePaths, QuietPaths, UpdateReadsPaths,
     UpdateWritePaths, RebuildListPaths, RebuildChildPaths, RemoveMarkPaths DEF Proceed
<1>2. ASSUME NEW r \in Requests, Abort(r) PROVE PathInv'
  BY <1>2 DEF Abort, PathInv
<1>3. ASSUME UNCHANGED <<folders, req, serial, crossed>> PROVE PathInv'
  <2> SUFFICES ASSUME serial PROVE /\ ~crossed' /\ \A r, q \in Busy' : r = q
                                   /\ Busy' = {} => AllAgree'
                                   /\ \A r \in Busy' : PathStage(req[r])'
    BY <1>3 DEF PathInv
  <2>1. /\ ~crossed' /\ \A r, q \in Busy : r = q
        /\ Busy = {} => AllAgree
        /\ \A r \in Busy : PathStage(req[r])
    BY <1>3 DEF PathInv
  <2>2. Busy' = Busy /\ (AllAgree => AllAgree')
    BY <1>3 DEF Busy, AllAgree, Agrees, PathOf, Live, Ids
  <2>3. ASSUME NEW r \in Busy PROVE PathStage(req[r])'
    <3>1. PICK q : q = req[r]
      OBVIOUS
    <3>2. PathStage(q)' /\ req'[r] = q
      BY <1>3, <2>1, <3>1, StageKept
    <3> QED BY <3>2 DEF PathStage, Rebuilding, Hanging, Waiting, Meeting, Awaited, Agrees,
                        AllAgree
  <2> QED BY <2>1, <2>2, <2>3
<1>4. ASSUME NEW f \in Ids, FileRemoved(f) PROVE PathInv'
  BY <1>3, <1>4 DEF FileRemoved, ghosts
<1>5. CASE UNCHANGED vars
  BY <1>3, <1>5 DEF vars, ghosts
<1> QED BY <1>1, <1>2, <1>4, <1>5, ArrivePaths DEF Next, FindTree

-----------------------------------------------------------------------------
(* The theorems *)

LEMMA InitLoop == Init => LoopInv
<1> SUFFICES ASSUME Init PROVE LoopInv
  OBVIOUS
<1>1. TypeOK
  BY InitTypes
<1>2. \A f \in Ids : folders[f].parent = Root
  BY DEF Init, Seeded, Ids
<1>3. Acyclic
  BY <1>1, <1>2, RootIsNoFolder DEF Acyclic
<1>4. UpdateAlone
  BY DEF Init, Idle, UpdateAlone, Placing
<1> QED BY <1>3, <1>4 DEF LoopInv

\* Every row and every request in flight keeps its shape, and what points at a
\* folder points at one there is.
THEOREM TypeCorrect == Spec => []TypeOK
<1>1. TypeOK /\ [Next]_vars => TypeOK'
  BY StepTypes
<1> QED BY InitTypes, <1>1, PTL DEF Spec

\* Whatever creates, uploads, removals and aborts do meanwhile, a loop comes
\* only of two updates that meet (:63-91): one that climbs alone has shown
\* that its folder is not above its new parent, and a rename that is alone
\* writes the parent its folder has.
THEOREM LoopsNeedCrossing == Spec => []OnlyCrossingUpdatesLoop
<1> DEFINE IInv == TypeOK /\ LoopInv
<1>1. Init => IInv
  BY InitTypes, InitLoop
<1>2. IInv /\ [Next]_vars => IInv'
  BY StepTypes, LoopStep
<1>3. IInv => OnlyCrossingUpdatesLoop
  BY DEF LoopInv, OnlyCrossingUpdatesLoop
<1> HIDE DEF IInv
<1> QED BY <1>1, <1>2, <1>3, PTL DEF Spec

LEMMA InitOrphan == Init => OrphanInv
<1> SUFFICES ASSUME Init PROVE Housed /\ Apart /\ \A r \in Requests : Grounded(req[r])
  BY DEF OrphanInv
<1>1. \A f \in Ids : folders[f].parent = Root
  BY DEF Init, Seeded, Ids
<1>2. filled = {} /\ \A r \in Requests : req[r] = Idle
  BY DEF Init
<1> QED BY <1>1, <1>2, IdleQuiet DEF Housed, Exists, Live, Apart

\* Unless a removal is in flight with a request that works under the folder
\* removed, every live folder and file is in a live folder (:112-123): what a
\* removal has counted empty stays so, and what a request has found live too.
THEOREM OrphansNeedRace == Spec => []OnlyRacedRemovalsOrphan
<1> DEFINE IInv == TypeOK /\ OrphanInv
<1>1. Init => IInv
  BY InitTypes, InitOrphan
<1>2. IInv /\ [Next]_vars => IInv'
  BY StepTypes, OrphanStep
<1>3. IInv => OnlyRacedRemovalsOrphan
  BY DEF OrphanInv, Housed, OnlyRacedRemovalsOrphan
<1> HIDE DEF IInv
<1> QED BY <1>1, <1>2, <1>3, PTL DEF Spec

LEMMA InitPaths == Init => PathInv
<1> SUFFICES ASSUME Init PROVE PathInv
  OBVIOUS
<1>1. Busy = {} /\ ~crossed
  BY DEF Init, Busy, Idle
<1>2. ASSUME NEW f \in Ids PROVE Agrees(f)
  <2>1. folders = Seeded
    BY DEF Init, Ids
  <2>2. Template \in Seq(Names) /\ f \in DOMAIN Template
    BY <2>1, TemplateAssumption DEF Ids, Seeded
  <2>3. folders[f].parent = Root /\ folders[f].name = Template[f]
        /\ folders[f].path = <<Template[f]>>
    BY <2>1, <2>2 DEF Seeded
  <2>4. PathUnder(<<>>, Template[f]) = <<Template[f]>>
    BY <2>2, FolderBoundsAssumption DEF PathUnder
  <2> QED BY <2>3, <2>4 DEF Agrees, PathOf
<1> QED BY <1>1, <1>2 DEF PathInv, AllAgree, Live

\* Requests one after the other leave the path of every live folder as its place in
\* the tree asks (:93-95, :235-247): the rebuild after a rename or a move comes once
\* to every folder below, with the path its parent has by then.
THEOREM PathsInTurn == Spec => []PathsAgree
<1> DEFINE IInv == TypeOK /\ LoopInv /\ PathInv
<1>1. Init => IInv
  BY InitTypes, InitLoop, InitPaths
<1>2. IInv /\ [Next]_vars => IInv'
  BY StepTypes, LoopStep, PathStep
<1>3. IInv => PathsAgree
  BY DEF PathInv, AllAgree, Agrees, PathsAgree
<1> HIDE DEF IInv
<1> QED BY <1>1, <1>2, <1>3, PTL DEF Spec
=============================================================================
