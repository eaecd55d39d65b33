--------------------------- MODULE RoomPagesProofs --------------------------
(***************************************************************************)
(* That no object URL outlives its preview, and that what a page shows has *)
(* the tab's own writes, for every number of folders, writes, clicks and   *)
(* previews: the cleanup of the preview's effect meets a fetch under way,  *)
(* closing, navigation and the writes that leave a page; an invalidation   *)
(* meets fetches under way and pages that open and close.                  *)
(***************************************************************************)
EXTENDS RoomPages, TLAPS

Pages == [place : Places, folder : Folders \cup {Root}, search : BOOLEAN,
          modal : {"none", "versions", "preview"}]

Previews == [pc : {"fetching", "done"}, cancelled : BOOLEAN]

\* A preview that is not cancelled is the last one, and it is open.
OpenLast ==
  /\ page \in Pages
  /\ preview \in Seq(Previews)
  /\ \A i \in DOMAIN preview :
       ~preview[i].cancelled => page.modal = "preview" /\ i = Len(preview)
  /\ page.modal = "preview" => Len(preview) \in DOMAIN preview
  /\ UrlsRevoked

\* What the two assignments to a preview leave of it.
LEMMA PreviewFields ==
  ASSUME NEW row \in Previews
  PROVE  /\ [row EXCEPT !.cancelled = TRUE] \in Previews
         /\ [row EXCEPT !.cancelled = TRUE].cancelled
         /\ [row EXCEPT !.pc = "done"] \in Previews
         /\ [row EXCEPT !.pc = "done"].cancelled = row.cancelled
<1>1. PICK pc \in {"fetching", "done"}, c \in BOOLEAN : row = [pc |-> pc, cancelled |-> c]
  BY Zenon DEF Previews
<1>2. \A f, g : [[pc |-> pc, cancelled |-> f] EXCEPT !.cancelled = g]
                  = [pc |-> pc, cancelled |-> g]
  BY SMT
<1>3. [[pc |-> pc, cancelled |-> c] EXCEPT !.pc = "done"] = [pc |-> "done", cancelled |-> c]
  BY SMT
<1> QED BY <1>1, <1>2, <1>3, Zenon DEF Previews

LEMMA FreshPage ==
  ASSUME NEW place \in Places
  PROVE  Fresh(place) \in Pages /\ Fresh(place).modal = "none"
BY DEF Fresh, Pages

\* The page changes, and the cleanup runs if the preview goes with it.
LEMMA Turned ==
  ASSUME OpenLast, NEW p \in Pages, page' = p, Cleanup(p),
         p.modal = "preview" => page.modal = "preview"
  PROVE  OpenLast'
<1>1. CASE page.modal = "preview" /\ p.modal # "preview"
  <2>1. PICK n : n = Len(preview)
    OBVIOUS
  <2>2. n \in DOMAIN preview /\ preview \in Seq(Previews)
    BY <1>1, <2>1 DEF OpenLast
  <2> DEFINE closed == [preview[n] EXCEPT !.cancelled = TRUE]
  <2>3. closed \in Previews /\ closed.cancelled
    <3>1. preview[n] \in Previews
      BY <2>2
    <3> QED BY <3>1, PreviewFields
  <2>4. preview' = [preview EXCEPT ![n] = closed] /\ urls' = urls \ {n}
    BY <1>1, <2>1 DEF Cleanup
  <2> HIDE DEF closed
  <2>5. /\ preview' \in Seq(Previews) /\ DOMAIN preview' = DOMAIN preview
        /\ preview'[n] = closed
        /\ \A i \in DOMAIN preview : i # n => preview'[i] = preview[i]
    BY <2>2, <2>3, <2>4
  <2>6. \A i \in DOMAIN preview' : preview'[i].cancelled
    BY <2>1, <2>3, <2>5 DEF OpenLast
  <2>7. urls' = {}
    BY <1>1, <2>1, <2>4 DEF OpenLast, UrlsRevoked
  <2> QED BY <1>1, <2>5, <2>6, <2>7 DEF OpenLast, UrlsRevoked
<1>2. CASE ~(page.modal = "preview" /\ p.modal # "preview")
  <2>1. UNCHANGED <<preview, urls>> /\ (page.modal = "preview" <=> p.modal = "preview")
    BY <1>2 DEF Cleanup
  <2> QED BY <2>1 DEF OpenLast, UrlsRevoked
<1> QED BY <1>1, <1>2

\* The page stays, or what of it is not the modal changes.
LEMMA Stayed ==
  ASSUME OpenLast, page' \in Pages, page'.modal = page.modal, UNCHANGED <<preview, urls>>
  PROVE  OpenLast'
BY DEF OpenLast, UrlsRevoked

LEMMA Clicked ==
  ASSUME OpenLast, NEW p \in Pages, Click(p), p.modal = "preview" => page.modal = "preview"
  PROVE  OpenLast'
BY Turned DEF Click, Turn, Show

LEMMA NavigateOpenLast ==
  ASSUME OpenLast, NEW place \in Places, Navigate(place)
  PROVE  OpenLast'
BY FreshPage, Clicked DEF Navigate

LEMMA SelectOpenLast ==
  ASSUME OpenLast, NEW d \in Folders \cup {Root}, Select(d)
  PROVE  OpenLast'
<1> DEFINE p == [page EXCEPT !.folder = d]
<1>1. p \in Pages /\ p.modal = page.modal
  BY DEF OpenLast, Pages
<1>2. Click(p)
  BY DEF Select
<1> QED BY <1>1, <1>2, Clicked

LEMMA DeleteFolderOpenLast ==
  ASSUME OpenLast, NEW d \in Folders, DeleteFolder(d)
  PROVE  OpenLast'
<1> DEFINE to == IF page.folder = d THEN Root ELSE page.folder
           p == [page EXCEPT !.folder = to]
<1>1. p \in Pages /\ p.modal = page.modal
  BY DEF OpenLast, Pages
<1>2. page' = p /\ UNCHANGED <<preview, urls>>
  BY DEF DeleteFolder, Show
<1> QED BY <1>1, <1>2, Stayed

LEMMA ModalOpenLast ==
  ASSUME OpenLast, Search \/ OpenVersions \/ CloseVersions \/ ClosePreview
  PROVE  OpenLast'
<1>1. page \in Pages
  BY DEF OpenLast
<1>2. CASE Search
  <2> DEFINE p == [page EXCEPT !.search = ~@]
  <2>1. p \in Pages /\ p.modal = page.modal
    BY <1>1 DEF Pages
  <2> QED BY <1>2, <2>1, Clicked DEF Search
<1>3. CASE OpenVersions
  <2> DEFINE p == [page EXCEPT !.modal = "versions"]
  <2>1. p \in Pages /\ p.modal = "versions"
    BY <1>1 DEF Pages
  <2> QED BY <1>3, <2>1, Clicked DEF OpenVersions
<1>4. CASE CloseVersions \/ ClosePreview
  <2> DEFINE p == [page EXCEPT !.modal = "none"]
  <2>1. p \in Pages /\ p.modal = "none"
    BY <1>1 DEF Pages
  <2> QED BY <1>4, <2>1, Turned DEF CloseVersions, ClosePreview, CloseModal, Show
<1> QED BY <1>2, <1>3, <1>4

LEMMA OpenPreviewOpenLast ==
  ASSUME OpenLast, OpenPreview
  PROVE  OpenLast'
<1> DEFINE new == [pc |-> "fetching", cancelled |-> FALSE]
<1>1. preview \in Seq(Previews) /\ new \in Previews /\ page \in Pages
  BY DEF OpenLast, Previews
<1>2. /\ page.modal = "none" /\ page' = [page EXCEPT !.modal = "preview"]
      /\ preview' = Append(preview, new) /\ urls' = urls
  BY DEF OpenPreview, Free, Turn, Show
<1>3. page' \in Pages /\ page'.modal = "preview"
  BY <1>1, <1>2 DEF Pages
<1>4. urls' = {} /\ \A i \in DOMAIN preview : preview[i].cancelled
  BY <1>2 DEF OpenLast, UrlsRevoked
<1> HIDE DEF new
<1>5. /\ preview' \in Seq(Previews)
      /\ Len(preview') \in DOMAIN preview'
      /\ \A i \in DOMAIN preview' : i # Len(preview') => i \in DOMAIN preview /\ preview'[i] = preview[i]
  BY <1>1, <1>2
<1> QED BY <1>3, <1>4, <1>5 DEF OpenLast, UrlsRevoked

\* The blob arrives, or does not: of a cancelled preview it leaves no URL.
LEMMA PreviewEnds ==
  ASSUME OpenLast, NEW i \in 1 .. Len(preview), PreviewArrives(i) \/ PreviewFails(i)
  PROVE  OpenLast'
<1> DEFINE done == [preview[i] EXCEPT !.pc = "done"]
<1>1. preview \in Seq(Previews) /\ i \in DOMAIN preview
  BY DEF OpenLast
<1>2. done \in Previews /\ done.cancelled = preview[i].cancelled
  <2>1. preview[i] \in Previews
    BY <1>1
  <2> QED BY <2>1, PreviewFields
<1>3. page' = page /\ preview' = [preview EXCEPT ![i] = done]
  BY DEF PreviewArrives, PreviewFails
<1>4. urls' = urls \/ (~preview[i].cancelled /\ urls' = urls \cup {i})
  BY DEF PreviewArrives, PreviewFails, Cancelled
<1> HIDE DEF done
<1>5. /\ preview' \in Seq(Previews) /\ DOMAIN preview' = DOMAIN preview
      /\ Len(preview') = Len(preview)
      /\ \A k \in DOMAIN preview : preview'[k].cancelled = preview[k].cancelled
  BY <1>1, <1>2, <1>3
<1> QED BY <1>1, <1>3, <1>4, <1>5 DEF OpenLast, UrlsRevoked

LEMMA SettleOpenLast ==
  ASSUME OpenLast, NEW i \in 1 .. Len(write), Settle(i)
  PROVE  OpenLast'
<1> DEFINE p == Onward(write[i].op)
<1>1. p \in Pages /\ (p.modal = "preview" => page.modal = "preview")
  BY FreshPage DEF Onward, OpenLast, Places
<1>2. page' = p /\ Cleanup(p)
  BY DEF Settle, Show
<1> HIDE DEF p
<1> QED BY <1>1, <1>2, Turned

LEMMA InitOpenLast == Init => OpenLast
<1> SUFFICES ASSUME Init PROVE OpenLast
  OBVIOUS
<1>1. page \in Pages /\ page.modal = "none"
  BY FreshPage DEF Init
<1> QED BY <1>1 DEF Init, OpenLast, UrlsRevoked

LEMMA NextOpenLast == OpenLast /\ [Next]_vars => OpenLast'
<1> SUFFICES ASSUME OpenLast, [Next]_vars PROVE OpenLast'
  OBVIOUS
<1>1. ASSUME NEW k \in Keys, Arrive(k) \/ Fails(k) PROVE OpenLast'
  BY <1>1, Stayed DEF Arrive, Fails, Show, OpenLast
<1>2. ASSUME NEW place \in Places, Navigate(place) PROVE OpenLast'
  BY <1>2, NavigateOpenLast
<1>3. ASSUME NEW d \in Folders \cup {Root}, Select(d) PROVE OpenLast'
  BY <1>3, SelectOpenLast
<1>4. ASSUME NEW d \in Folders, DeleteFolder(d) PROVE OpenLast'
  BY <1>4, DeleteFolderOpenLast
<1>5. CASE Search \/ OpenVersions \/ CloseVersions \/ ClosePreview
  BY <1>5, ModalOpenLast
<1>6. CASE OpenPreview
  BY <1>6, OpenPreviewOpenLast
<1>7. ASSUME NEW i \in 1 .. Len(preview), PreviewArrives(i) \/ PreviewFails(i) PROVE OpenLast'
  BY <1>7, PreviewEnds
<1>8. ASSUME NEW i \in 1 .. Len(write), Settle(i) PROVE OpenLast'
  BY <1>8, SettleOpenLast
<1>9. CASE UNCHANGED <<page, preview, urls>>
  BY <1>9, Stayed DEF OpenLast
<1>10. ASSUME NEW i \in 1 .. Len(write), Commit(i) \/ Lost(i) PROVE OpenLast'
  BY <1>9, <1>10 DEF Commit, Lost, Stays
<1>11. CASE Upload \/ EditFile \/ EditFolder \/ Drop \/ AddVersion \/ EditMembers
            \/ EditRoom \/ CreateRoom
  BY <1>9, <1>11 DEF Upload, EditFile, EditFolder, Drop, AddVersion, EditMembers, EditRoom,
     CreateRoom, Stays
<1>12. CASE UNCHANGED vars
  BY <1>9, <1>12 DEF vars
<1> QED BY <1>1, <1>2, <1>3, <1>4, <1>5, <1>6, <1>7, <1>8, <1>10, <1>11, <1>12 DEF Next

\* Of whatever order blobs, clicks, navigation and answered writes come in, the only
\* object URL there ever is belongs to the preview that is open.
THEOREM NoUrlOutlivesPreview == Spec => []UrlsRevoked
<1>1. OpenLast => UrlsRevoked
  BY DEF OpenLast
<1> QED BY <1>1, InitOpenLast, NextOpenLast, PTL DEF Spec
-----------------------------------------------------------------------------
(* The tab's own writes *)

\* A key is under its first parts.
LEMMA PrefixOfConcat ==
  ASSUME NEW S, NEW s \in Seq(S), NEW t \in Seq(S)
  PROVE  IsPrefix(s, s \o t)
<1>1. s \o t \in Seq(S) /\ Len(s \o t) = Len(s) + Len(t) /\ Len(s) \in Nat /\ Len(t) \in Nat
  OBVIOUS
<1>2. \A i \in 1 .. Len(s) : (s \o t)[i] = s[i]
  OBVIOUS
<1>3. SubSeq(s, 1, Len(s)) = SubSeq(s \o t, 1, Len(s))
  BY <1>1, <1>2
<1> QED BY <1>1, <1>3 DEF IsPrefix

LEMMA FilesBelowRoom ==
  ASSUME NEW d, NEW q
  PROVE  /\ IsPrefix(Room \o <<"files">>, FilesKey(d, q))
         /\ IsPrefix(Room, FilesKey(d, q))
<1>0. PICK c : c = <<d, q>>
  OBVIOUS
<1>1. PICK S : S = {"data-rooms", "room", "files", c}
  OBVIOUS
<1>2. Room \in Seq(S) /\ <<"files">> \in Seq(S) /\ <<c>> \in Seq(S) /\ <<"files", c>> \in Seq(S)
  BY <1>1 DEF Room
<1>3. Room \o <<"files">> \in Seq(S)
  BY <1>2
<1>4. Room \o <<"files", c>> = (Room \o <<"files">>) \o <<c>>
  BY DEF Room
<1>5. FilesKey(d, q) = Room \o <<"files", c>>
  BY <1>0 DEF FilesKey
<1>6. IsPrefix(Room \o <<"files">>, FilesKey(d, q))
  BY <1>2, <1>3, <1>4, <1>5, PrefixOfConcat
<1>7. IsPrefix(Room, FilesKey(d, q))
  BY <1>2, <1>5, PrefixOfConcat
<1> QED BY <1>6, <1>7

LEMMA KeysBelow ==
  /\ IsPrefix(Room, Room) /\ IsPrefix(FoldersKey, FoldersKey) /\ IsPrefix(VersionsKey, VersionsKey)
  /\ IsPrefix(MembersKey, MembersKey) /\ IsPrefix(RoomsKey, RoomsKey)
  /\ IsPrefix(Room, FoldersKey) /\ IsPrefix(Room, LogKey) /\ IsPrefix(Room, ReportsKey)
  /\ IsPrefix(RoomsKey, LogKey) /\ IsPrefix(RoomsKey, ReportsKey) /\ IsPrefix(RoomsKey, Room)
<1>1. \A s : s \in Seq({"data-rooms", "room", "folders", "files", File, "versions", "members", "audit-logs", "reports"}) =>  IsPrefix(s, s)
  BY DEF IsPrefix
<1> QED BY <1>1 DEF Room, RoomsKey, FoldersKey, VersionsKey, MembersKey, LogKey, ReportsKey, IsPrefix

LEMMA KeysThere ==
  /\ Keys = FileLists \cup {RoomsKey, Room, AccessKey, FoldersKey, VersionsKey, MembersKey,
                            LogKey, ReportsKey}
  /\ \A p \in Pages : \A c : Mounted(p, c) \subseteq Keys
<1>1. \A p \in Pages : FilesKey(p.folder, p.search) \in FileLists
  BY DEF Pages, FileLists
<1> QED BY <1>1 DEF Keys, Mounted

\* With less data a page shows no more.
LEMMA MountedLess ==
  ASSUME NEW p, NEW c, NEW d, \A k \in Keys : d[k].data # None => c[k].data # None
  PROVE  Mounted(p, d) \subseteq Mounted(p, c)
<1>1. Room \in Keys /\ AccessKey \in Keys
  BY KeysThere
<1> QED BY <1>1 DEF Mounted

\* A hook invalidates what it promises to show.
LEMMA PromisesInvalidated ==
  ASSUME NEW op \in Ops
  PROVE  Promises(op) \subseteq Under(Invalidates(op)) /\ Promises(op) \subseteq Keys
<1> USE KeysThere
<1>1. \A k \in FileLists : IsPrefix(Room \o <<"files">>, k) /\ IsPrefix(Room, k)
  BY FilesBelowRoom DEF FileLists
<1>2. CASE op \in MailOps
  BY <1>2 DEF Promises, MailOps, RoomOps
<1>3. CASE op \in {"uploadFiles", "deleteFile"}
  <2>1. Invalidates(op) = {Room \o <<"files">>, Room}
    BY <1>3 DEF Invalidates, FileInvalidates, FolderInvalidates, MemberInvalidates, RoomInvalidates,
       FolderOps, MemberOps, MailOps
  <2>2. Changes(op) \subseteq FileLists \cup {FoldersKey}
    BY <1>3 DEF Changes, MailOps, MemberOps, FolderOps, RoomOps
  <2>3. Promises(op) \subseteq FileLists \cup {FoldersKey, LogKey, ReportsKey}
    BY <2>2 DEF Promises
  <2> QED BY <1>1, <2>1, <2>3, KeysBelow DEF Under
<1>4. CASE op \in {"updateFile", "addVersion"}
  <2>1. Room \o <<"files">> \in Invalidates(op) /\ (op = "addVersion" => VersionsKey \in Invalidates(op))
    BY <1>4 DEF Invalidates, FileInvalidates
  <2>2. \/ Changes(op) \subseteq FileLists
        \/ op = "addVersion" /\ Changes(op) \subseteq FileLists \cup {VersionsKey}
    BY <1>4 DEF Changes, MailOps, MemberOps, FolderOps, RoomOps
  <2>3. Promises(op) \subseteq Changes(op)
    BY <1>4 DEF Promises, RoomOps
  <2> QED BY <1>1, <2>1, <2>2, <2>3, KeysBelow DEF Under
<1>5. CASE op \in FolderOps
  <2>1. FoldersKey \in Invalidates(op)
    BY <1>5 DEF Invalidates, FolderInvalidates
  <2>2. Changes(op) = {FoldersKey} /\ Promises(op) \subseteq Changes(op)
    <3>1. Changes(op) = {FoldersKey}
      BY <1>5 DEF Changes, FolderOps, MailOps, MemberOps, RoomOps
    <3>2. Promises(op) \subseteq Changes(op)
      BY <1>5 DEF Promises, RoomOps, FolderOps
    <3> QED BY <3>1, <3>2
  <2> QED BY <2>1, <2>2, KeysBelow DEF Under
<1>6. CASE op \in MemberOps \ MailOps
  <2>1. MembersKey \in Invalidates(op)
    BY <1>6 DEF Invalidates, MemberInvalidates
  <2>2. Changes(op) = {MembersKey}
    BY <1>6 DEF Changes, MailOps, MemberOps, RoomOps, FolderOps
  <2>3. Promises(op) \subseteq Changes(op)
    BY <1>6 DEF Promises, MailOps, MemberOps, RoomOps
  <2> QED BY <2>1, <2>2, <2>3, KeysBelow DEF Under
<1>7. CASE op \in RoomOps \cup {"createRoom"}
  <2>1. RoomsKey \in Invalidates(op)
    BY <1>7 DEF Invalidates, RoomInvalidates, RoomOps
  <2>2. Changes(op) \subseteq {RoomsKey, Room}
    BY <1>7 DEF Changes, MailOps, MemberOps, RoomOps, FolderOps
  <2>3. Promises(op) \subseteq {RoomsKey, Room, LogKey, ReportsKey}
    BY <2>2 DEF Promises
  <2> QED BY <2>1, <2>3, KeysBelow DEF Under
<1> QED BY <1>2, <1>3, <1>4, <1>5, <1>6, <1>7 DEF Ops, FileOps, MemberOps

Moments == Nat \cup {None}
Queries == [data : Moments, invalid : BOOLEAN, asked : Moments, failed : BOOLEAN,
            missed : BOOLEAN, lacks : BOOLEAN]
Writes == [op : Ops, pc : {"sent", "done"}, n : Nat] \cup {Over}

\* A query shows write n if it is current, and will if its fetch is not too old for it.
Keeps(q, n) ==
  /\ q.data # None /\ ~q.invalid /\ ~q.lacks => q.data >= n
  /\ q.asked # None /\ ~q.missed => q.asked >= n

\* A query is current, or being fetched, or has failed.
Tended(q) ==
  \/ q.data # None /\ ~q.invalid
  \/ q.asked # None
  \/ q.failed

ShownInv ==
  /\ clock \in Nat /\ cache \in [Keys -> Queries] /\ own \in [Keys -> Nat]
  /\ write \in Seq(Writes)
  /\ \A i \in DOMAIN write : write[i].n <= clock
  /\ \A k \in Keys : own[k] <= clock /\ Keeps(cache[k], own[k])
  /\ \A k \in Mounted(page, cache) : Tended(cache[k])

LEMMA Fetched ==
  ASSUME clock \in Nat, NEW q \in Queries
  PROVE  /\ Fetch(q) \in Queries /\ Fetch(q).asked = clock /\ Fetch(q).asked # None
         /\ Fetch(q).data = q.data /\ Fetch(q).invalid = q.invalid
         /\ Tended(Fetch(q))
         /\ \A n \in Nat : n <= clock /\ Keeps(q, n) => Keeps(Fetch(q), n)
<1> DEFINE f == Fetch(q)
<1>1. clock \in Moments /\ clock # None
  BY DEF Moments, None
<1>2. /\ f \in Queries /\ f.asked = clock
      /\ f.data = q.data /\ f.invalid = q.invalid /\ f.lacks = q.lacks
  BY <1>1 DEF Fetch, Queries
<1> HIDE DEF f
<1>3. \A n \in Nat : n <= clock /\ Keeps(q, n) => Keeps(f, n)
  BY <1>2 DEF Keeps
<1> QED BY <1>1, <1>2, <1>3 DEF Tended, f

LEMMA NoQueryKeeps == NoQuery \in Queries /\ \A n : Keeps(NoQuery, n)
BY DEF NoQuery, Queries, Moments, None, Keeps

\* What a page newly shows is fetched, or is current.
LEMMA ShowKeeps ==
  ASSUME clock \in Nat, NEW c \in [Keys -> Queries], NEW p \in Pages, Show(c, p),
         NEW o \in [Keys -> Nat],
         \A k \in Keys : o[k] <= clock /\ Keeps(c[k], o[k]),
         \A k \in Mounted(page, cache) : Tended(c[k])
  PROVE  /\ cache' \in [Keys -> Queries]
         /\ \A k \in Keys : Keeps(cache'[k], o[k])
         /\ \A k \in Mounted(p, cache') : Tended(cache'[k])
<1> DEFINE new == Mounted(p, c) \ Mounted(page, cache)
<1>1. PICK young \in SUBSET {k \in new : c[k].data # None /\ ~c[k].invalid},
           dropped \in SUBSET {k \in new : c[k].asked = None} :
        cache' = [k \in Keys |->
                    CASE k \in dropped -> Fetch(NoQuery)
                      [] k \in new \ (young \cup dropped) /\ c[k].asked = None -> Fetch(c[k])
                      [] OTHER -> c[k]]
  BY Zenon DEF Show
<1>2. ASSUME NEW k \in Keys
      PROVE  /\ k \in dropped => cache'[k] = Fetch(NoQuery)
             /\ k \notin dropped /\ k \in new \ young /\ c[k].asked = None => cache'[k] = Fetch(c[k])
             /\ k \notin dropped /\ ~(k \in new \ young /\ c[k].asked = None) => cache'[k] = c[k]
  BY <1>1
<1>3. ASSUME NEW k \in Keys
      PROVE  /\ cache'[k] \in Queries /\ Keeps(cache'[k], o[k])
             /\ cache'[k].data # None => c[k].data # None
             /\ k \in Mounted(p, c) => Tended(cache'[k])
  <2>1. c[k] \in Queries /\ o[k] \in Nat
    OBVIOUS
  <2>2. CASE k \in dropped
    <3>1. cache'[k] = Fetch(NoQuery) /\ NoQuery.data = None
      BY <1>2, <2>2 DEF NoQuery
    <3> QED BY <2>1, <3>1, Fetched, NoQueryKeeps
  <2>3. CASE k \notin dropped /\ k \in new \ young /\ c[k].asked = None
    <3>1. cache'[k] = Fetch(c[k])
      BY <1>2, <2>3
    <3> QED BY <2>1, <3>1, Fetched
  <2>4. CASE k \notin dropped /\ ~(k \in new \ young /\ c[k].asked = None)
    <3>1. cache'[k] = c[k]
      BY <1>2, <2>4
    <3>2. k \in Mounted(p, c) => Tended(c[k])
      BY <1>1, <2>4 DEF Tended
    <3> QED BY <2>1, <3>1, <3>2
  <2> QED BY <2>2, <2>3, <2>4
<1>4. cache' \in [Keys -> Queries]
  <2>1. cache' = [k \in Keys |-> cache'[k]]
    BY <1>1
  <2> QED BY <1>3, <2>1
<1>5. Mounted(p, cache') \subseteq Mounted(p, c) /\ Mounted(p, c) \subseteq Keys
  <2>1. Mounted(p, c) \subseteq Keys
    BY KeysThere
  <2> QED BY <1>3, <2>1, MountedLess
<1> QED BY <1>3, <1>4, <1>5

\* The writes under way are of this clock.
Numbered(w, n) == w \in Seq(Writes) /\ \A i \in DOMAIN w : w[i].n <= n

LEMMA LookShown ==
  ASSUME ShownInv, NEW p \in Pages, Show(cache, p), UNCHANGED <<clock, own>>,
         Numbered(write', clock)
  PROVE  ShownInv'
<1>1. /\ clock \in Nat /\ cache \in [Keys -> Queries] /\ own \in [Keys -> Nat]
      /\ \A k \in Keys : own[k] <= clock /\ Keeps(cache[k], own[k])
      /\ \A k \in Mounted(page, cache) : Tended(cache[k])
  BY DEF ShownInv
<1>2. /\ cache' \in [Keys -> Queries]
      /\ \A k \in Keys : Keeps(cache'[k], own[k])
      /\ \A k \in Mounted(p, cache') : Tended(cache'[k])
  BY <1>1, ShowKeeps
<1>3. page' = p
  BY DEF Show
<1> QED BY <1>1, <1>2, <1>3 DEF ShownInv, Numbered

LEMMA SendNumbered ==
  ASSUME clock \in Nat, Numbered(write, clock), NEW op \in Ops, NEW count \in {1, 2},
         Send(op, count)
  PROVE  Numbered(write', clock)
<1> DEFINE sent == [i \in 1 .. count |-> [op |-> op, pc |-> "sent", n |-> 0]]
<1>1. PICK row : row = [op |-> op, pc |-> "sent", n |-> 0]
  OBVIOUS
<1>2. row \in Writes /\ row.n <= clock
  BY <1>1 DEF Writes
<1>3. sent \in Seq(Writes) /\ DOMAIN sent = 1 .. count /\ \A i \in 1 .. count : sent[i] = row
  BY <1>1, <1>2
<1>4. write' = write \o sent
  BY DEF Send
<1> HIDE DEF sent
<1>5. /\ write' \in Seq(Writes)
      /\ \A i \in DOMAIN write' :
           write'[i] \in {write[k] : k \in DOMAIN write} \cup {sent[k] : k \in DOMAIN sent}
  BY <1>3, <1>4 DEF Numbered
<1> QED BY <1>2, <1>3, <1>5 DEF Numbered

\* One write is replaced.
LEMMA RowNumbered ==
  ASSUME NEW n \in Nat, NEW m \in Nat, n <= m, Numbered(write, n), NEW i \in DOMAIN write,
         NEW row \in Writes, row.n <= m, write' = [write EXCEPT ![i] = row]
  PROVE  Numbered(write', m)
<1>1. write \in Seq(Writes) /\ \A k \in DOMAIN write : write[k] \in Writes /\ write[k].n <= n
  BY DEF Numbered
<1>2. \A k \in DOMAIN write : write[k].n \in Nat
  BY <1>1 DEF Writes, Over
<1>3. /\ write' \in Seq(Writes) /\ DOMAIN write' = DOMAIN write
      /\ \A k \in DOMAIN write : write'[k] = IF k = i THEN row ELSE write[k]
  BY <1>1
<1>4. \A k \in DOMAIN write : write'[k].n <= m
  BY <1>1, <1>2, <1>3
<1> QED BY <1>3, <1>4 DEF Numbered

LEMMA OverRow == Over \in Writes /\ Over.n = 0
BY DEF Over, Writes

LEMMA QuietShown ==
  ASSUME ShownInv, UNCHANGED <<clock, own, cache, page>>, Numbered(write', clock)
  PROVE  ShownInv'
BY DEF ShownInv, Numbered

LEMMA SendShown ==
  ASSUME ShownInv, Stays, NEW op \in Ops, NEW count \in {1, 2}, Send(op, count)
  PROVE  ShownInv'
BY SendNumbered, QuietShown DEF ShownInv, Numbered, Stays

LEMMA CommittedRow ==
  ASSUME NEW row \in [op : Ops, pc : {"sent", "done"}, n : Nat], NEW m \in Nat
  PROVE  /\ [row EXCEPT !.pc = "done", !.n = m] \in Writes
         /\ [row EXCEPT !.pc = "done", !.n = m].n = m
BY DEF Writes

LEMMA AnswerFields ==
  ASSUME NEW d \in Moments, NEW b \in BOOLEAN
  PROVE  LET q == [NoQuery EXCEPT !.data = d, !.lacks = b]
         IN  /\ q \in Queries /\ q.data = d /\ q.lacks = b
             /\ q.asked = None /\ ~q.invalid
<1>1. PICK q : q = NoQuery
  OBVIOUS
<1>2. q \in Queries /\ q.asked = None /\ ~q.invalid
  BY <1>1, NoQueryKeeps DEF NoQuery
<1>3. LET r == [q EXCEPT !.data = d, !.lacks = b]
      IN  r \in Queries /\ r.data = d /\ r.lacks = b /\ r.asked = None /\ ~r.invalid
  BY <1>2 DEF Queries
<1> QED BY <1>1, <1>3, Zenon

LEMMA CommitShown ==
  ASSUME ShownInv, NEW i \in 1 .. Len(write), Commit(i)
  PROVE  ShownInv'
<1> DEFINE row == [write[i] EXCEPT !.pc = "done", !.n = clock + 1]
<1>1. /\ clock \in Nat /\ write \in Seq(Writes) /\ own \in [Keys -> Nat]
      /\ Numbered(write, clock) /\ i \in DOMAIN write
  BY DEF ShownInv, Numbered
<1>2. row \in Writes /\ row.n = clock + 1
  <2>1. write[i] \in Writes /\ write[i].pc = "sent"
    BY <1>1 DEF Commit
  <2>2. write[i] \in [op : Ops, pc : {"sent", "done"}, n : Nat] /\ clock + 1 \in Nat
    BY <1>1, <2>1 DEF Writes, Over
  <2> QED BY <2>2, CommittedRow
<1>3. clock' = clock + 1 /\ write' = [write EXCEPT ![i] = row] /\ UNCHANGED <<own, cache, page>>
  BY DEF Commit
<1> HIDE DEF row
<1>4. Numbered(write', clock')
  <2>1. PICK m \in Nat : m = clock + 1 /\ clock <= m /\ row.n <= m
    BY <1>1, <1>2
  <2>2. Numbered(write', m)
    BY <1>1, <1>2, <1>3, <2>1, RowNumbered, Zenon
  <2> QED BY <1>3, <2>1, <2>2
<1>5. \A k \in Keys : own[k] <= clock'
  BY <1>1, <1>3 DEF ShownInv
<1> QED BY <1>1, <1>3, <1>4, <1>5 DEF ShownInv, Numbered

LEMMA LostShown ==
  ASSUME ShownInv, NEW i \in 1 .. Len(write), Lost(i)
  PROVE  ShownInv'
<1>1. clock \in Nat /\ Numbered(write, clock) /\ i \in DOMAIN write
  BY DEF ShownInv, Numbered
<1>2. write' = [write EXCEPT ![i] = Over] /\ UNCHANGED <<clock, own, cache, page>>
  BY DEF Lost, Stays
<1>3. Numbered(write', clock)
  <2>1. clock <= clock /\ Over.n <= clock
    BY <1>1, OverRow
  <2> QED BY <1>1, <1>2, <2>1, OverRow, RowNumbered, Zenon
<1> QED BY <1>2, <1>3, QuietShown

\* The answer of a fetch that nothing was done behind shows every write promised.
LEMMA ArriveShown ==
  ASSUME ShownInv, page \in Pages, NEW k \in Keys, Arrive(k)
  PROVE  ShownInv'
<1>1. PICK d \in Answers(k) :
        Show([cache EXCEPT ![k] = [NoQuery EXCEPT !.data = d, !.lacks = cache[k].missed]], page)
  BY DEF Arrive
<1> DEFINE q == [NoQuery EXCEPT !.data = d, !.lacks = cache[k].missed]
           c == [cache EXCEPT ![k] = q]
<1>2. /\ clock \in Nat /\ cache \in [Keys -> Queries] /\ own \in [Keys -> Nat]
      /\ \A l \in Keys : own[l] <= clock /\ Keeps(cache[l], own[l])
      /\ \A l \in Mounted(page, cache) : Tended(cache[l])
      /\ Numbered(write, clock)
  BY DEF ShownInv, Numbered
<1>3. cache[k] \in Queries /\ cache[k].asked \in Nat /\ cache[k].asked # None
  BY <1>2 DEF Arrive, Queries, Moments
<1>4. d \in Nat /\ d >= cache[k].asked
  BY <1>2, <1>3 DEF Answers
<1>5. q \in Queries /\ Tended(q) /\ q.data = d /\ q.lacks = cache[k].missed /\ q.asked = None
  <2>1. cache[k].missed \in BOOLEAN
    BY <1>3 DEF Queries
  <2>2. d # None /\ d \in Moments
    BY <1>4 DEF None, Moments
  <2>3. /\ q \in Queries /\ q.data = d /\ q.lacks = cache[k].missed
        /\ q.asked = None /\ ~q.invalid
    BY <2>1, <2>2, AnswerFields
  <2> HIDE DEF q
  <2> QED BY <2>2, <2>3 DEF Tended
<1> HIDE DEF q
<1>6. Keeps(q, own[k])
  <2>1. own[k] \in Nat /\ Keeps(cache[k], own[k])
    BY <1>2
  <2> QED BY <1>3, <1>4, <1>5, <2>1 DEF Keeps
<1>7. c \in [Keys -> Queries] /\ \A l \in Keys : c[l] = IF l = k THEN q ELSE cache[l]
  BY <1>2, <1>5
<1>8. Show(c, page)
  BY <1>1 DEF q
<1> HIDE DEF c
<1>9. /\ \A l \in Keys : own[l] <= clock /\ Keeps(c[l], own[l])
      /\ \A l \in Mounted(page, cache) : Tended(c[l])
  BY <1>2, <1>5, <1>6, <1>7, KeysThere
<1>10. /\ cache' \in [Keys -> Queries]
       /\ \A l \in Keys : Keeps(cache'[l], own[l])
       /\ \A l \in Mounted(page, cache') : Tended(cache'[l])
  BY <1>2, <1>7, <1>8, <1>9, ShowKeeps
<1>11. UNCHANGED <<clock, own, write, page>>
  BY <1>8 DEF Arrive, Show
<1> QED BY <1>2, <1>10, <1>11 DEF ShownInv, Numbered

LEMMA FailsShown ==
  ASSUME ShownInv, page \in Pages, NEW k \in Keys, Fails(k)
  PROVE  ShownInv'
<1> DEFINE q == [cache[k] EXCEPT !.asked = None, !.missed = FALSE, !.failed = TRUE]
<1>1. cache \in [Keys -> Queries] /\ cache[k] \in Queries /\ Keeps(cache[k], own[k])
  BY DEF ShownInv
<1>2. /\ q \in Queries /\ q.asked = None /\ q.failed
      /\ q.data = cache[k].data /\ q.invalid = cache[k].invalid /\ q.lacks = cache[k].lacks
  BY <1>1 DEF Queries, Moments
<1>3. cache' = [cache EXCEPT ![k] = q] /\ UNCHANGED <<clock, own, write, page>>
  BY DEF Fails
<1> HIDE DEF q
<1>4. Keeps(q, own[k]) /\ Tended(q)
  BY <1>1, <1>2 DEF Keeps, Tended
<1>5. cache' \in [Keys -> Queries] /\ \A l \in Keys : cache'[l] = IF l = k THEN q ELSE cache[l]
  BY <1>1, <1>2, <1>3
<1>6. Mounted(page, cache') \subseteq Mounted(page, cache) /\ Mounted(page, cache) \subseteq Keys
  <2>1. \A l \in Keys : cache'[l].data # None => cache[l].data # None
    BY <1>2, <1>5
  <2> QED BY <2>1, MountedLess, KeysThere
<1> QED BY <1>3, <1>4, <1>5, <1>6 DEF ShownInv

\* After an invalidation no write committed so far is taken for shown that is not.
LEMMA InvalidateKeeps ==
  ASSUME clock \in Nat, NEW q \in Queries, NEW mounted \in BOOLEAN
  PROVE  /\ Invalidate(q, mounted) \in Queries
         /\ \A n \in Nat : n <= clock => Keeps(Invalidate(q, mounted), n)
         /\ mounted /\ Tended(q) => Tended(Invalidate(q, mounted))
<1> DEFINE replaces == mounted /\ (q.data # None \/ q.asked = None)
           missed == q.missed \/ q.asked # None
<1>1. CASE q = NoQuery
  <2>1. Invalidate(q, mounted) = q
    BY <1>1 DEF Invalidate
  <2> QED BY <1>1, <2>1, NoQueryKeeps
<1>2. CASE q # NoQuery /\ replaces
  <2>1. Invalidate(q, mounted) = [Fetch(q) EXCEPT !.invalid = TRUE]
    BY <1>2 DEF Invalidate
  <2>2. PICK f : f = Fetch(q)
    OBVIOUS
  <2>3. f \in Queries /\ f.asked = clock /\ f.asked # None
    BY <2>2, Fetched
  <2> DEFINE g == [f EXCEPT !.invalid = TRUE]
  <2>4. g \in Queries /\ g.asked = clock /\ g.asked # None /\ g.invalid
    BY <2>3 DEF Queries
  <2>5. Invalidate(q, mounted) = g
    BY <2>1, <2>2
  <2> HIDE DEF g
  <2> QED BY <2>4, <2>5 DEF Keeps, Tended
<1>3. CASE q # NoQuery /\ ~replaces
  <2> DEFINE f == [q EXCEPT !.missed = missed]
             g == [f EXCEPT !.invalid = TRUE]
  <2>1. Invalidate(q, mounted) = g
    BY <1>3 DEF Invalidate
  <2>2. missed \in BOOLEAN
    BY DEF Queries
  <2>3. f \in Queries /\ f.missed = missed /\ f.asked = q.asked
    BY <2>2 DEF Queries
  <2> HIDE DEF f
  <2>4. g \in Queries /\ g.missed = missed /\ g.asked = q.asked /\ g.invalid
    BY <2>3 DEF Queries
  <2> HIDE DEF g
  <2>5. mounted => q.asked # None
    BY <1>3
  <2>6. g.asked = None \/ g.missed
    BY <2>4
  <2> QED BY <2>1, <2>4, <2>5, <2>6 DEF Keeps, Tended
<1> QED BY <1>1, <1>2, <1>3

\* An answered write is shown or marked by every list its hook promises.
LEMMA SettleShown ==
  ASSUME ShownInv, page \in Pages, NEW i \in 1 .. Len(write), Settle(i)
  PROVE  ShownInv'
<1> DEFINE op == write[i].op
           mounted(k) == k \in Mounted(page, cache)
           c == [k \in Keys |-> IF k \in Under(Invalidates(op))
                                THEN Invalidate(cache[k], mounted(k)) ELSE cache[k]]
           p == Onward(op)
<1>1. /\ clock \in Nat /\ cache \in [Keys -> Queries] /\ own \in [Keys -> Nat]
      /\ \A k \in Keys : own[k] <= clock /\ Keeps(cache[k], own[k])
      /\ \A k \in Mounted(page, cache) : Tended(cache[k])
      /\ Numbered(write, clock) /\ i \in DOMAIN write
  BY DEF ShownInv, Numbered
<1>2. op \in Ops /\ write[i].n \in Nat /\ write[i].n <= clock
  <2>1. write[i] \in Writes /\ write[i].pc = "done" /\ write[i].n <= clock
    BY <1>1 DEF Settle, Numbered
  <2> QED BY <2>1 DEF Writes, Over
<1>3. /\ own' = [k \in Keys |-> IF k \in Promises(op) /\ own[k] < write[i].n
                                THEN write[i].n ELSE own[k]]
      /\ write' = [write EXCEPT ![i] = Over] /\ Show(c, p) /\ UNCHANGED clock
  BY DEF Settle
<1>4. own' \in [Keys -> Nat] /\ \A k \in Keys : own'[k] <= clock
  BY <1>1, <1>2, <1>3
<1>5. \A k \in Keys : k \notin Promises(op) => own'[k] = own[k]
  BY <1>3
<1>6. \A k \in Keys : k \in Promises(op) => k \in Under(Invalidates(op))
  BY <1>2, PromisesInvalidated
<1>7. p \in Pages
  BY FreshPage DEF Onward, Places
<1> HIDE DEF op, p
<1>8. ASSUME NEW k \in Keys
      PROVE  /\ c[k] \in Queries /\ Keeps(c[k], own'[k])
             /\ mounted(k) => Tended(c[k])
  <2>1. cache[k] \in Queries /\ mounted(k) \in BOOLEAN /\ own'[k] \in Nat /\ own'[k] <= clock
    BY <1>1, <1>4
  <2>2. CASE k \in Under(Invalidates(op))
    <3>1. c[k] = Invalidate(cache[k], mounted(k))
      BY <2>2
    <3> QED BY <1>1, <2>1, <3>1, InvalidateKeeps
  <2>3. CASE k \notin Under(Invalidates(op))
    <3>1. c[k] = cache[k] /\ own'[k] = own[k]
      BY <1>5, <1>6, <2>3
    <3> QED BY <1>1, <3>1
  <2> QED BY <2>2, <2>3
<1>9. c \in [Keys -> Queries]
  BY <1>8
<1> HIDE DEF c
<1>10. \A k \in Mounted(page, cache) : Tended(c[k])
  BY <1>8, KeysThere
<1>11. /\ cache' \in [Keys -> Queries]
       /\ \A k \in Keys : Keeps(cache'[k], own'[k])
       /\ \A k \in Mounted(p, cache') : Tended(cache'[k])
  <2>1. PICK o \in [Keys -> Nat] : o = own'
    BY <1>4
  <2>2. \A k \in Keys : o[k] <= clock /\ Keeps(c[k], o[k])
    BY <1>4, <1>8, <2>1
  <2> QED BY <1>1, <1>3, <1>7, <1>9, <1>10, <2>1, <2>2, ShowKeeps
<1>12. Numbered(write', clock)
  <2>1. clock <= clock /\ Over.n <= clock
    BY <1>1, OverRow
  <2> QED BY <1>1, <1>3, <2>1, OverRow, RowNumbered, Zenon
<1>13. page' = p
  BY <1>3 DEF Show
<1> QED BY <1>1, <1>3, <1>4, <1>11, <1>12, <1>13 DEF ShownInv, Numbered

\* A click, and the writes that turn the page by themselves.
LEMMA ClickShown ==
  ASSUME ShownInv, OpenLast, OpenLast',
         \/ \E place \in Places : Navigate(place)
         \/ \E d \in Folders \cup {Root} : Select(d)
         \/ Search \/ OpenVersions \/ CloseVersions \/ OpenPreview \/ ClosePreview
  PROVE  ShownInv'
<1>1. page' \in Pages
  BY DEF OpenLast
<1>2. PICK p : Show(cache, p) /\ UNCHANGED <<clock, own, write>>
  BY DEF Navigate, Select, Search, OpenVersions, CloseVersions, OpenPreview, ClosePreview,
     Click, Turn, CloseModal
<1>3. p \in Pages
  BY <1>1, <1>2 DEF Show
<1>4. Numbered(write', clock)
  BY <1>2 DEF ShownInv, Numbered
<1> QED BY <1>2, <1>3, <1>4, LookShown

LEMMA DeleteFolderShown ==
  ASSUME ShownInv, OpenLast', NEW d \in Folders, DeleteFolder(d)
  PROVE  ShownInv'
<1>1. PICK p : Show(cache, p) /\ UNCHANGED <<clock, own>>
  BY DEF DeleteFolder
<1>2. p \in Pages
  BY <1>1 DEF Show, OpenLast
<1>3. Numbered(write', clock)
  <2>1. Send("deleteFolder", 1) /\ "deleteFolder" \in Ops
    BY DEF DeleteFolder, Ops, FolderOps
  <2> QED BY <2>1, SendNumbered DEF ShownInv, Numbered
<1> QED BY <1>1, <1>2, <1>3, LookShown

LEMMA WriteShown ==
  ASSUME ShownInv,
         Upload \/ EditFile \/ EditFolder \/ Drop \/ AddVersion \/ EditMembers
           \/ EditRoom \/ CreateRoom
  PROVE  ShownInv'
<1>1. Stays /\ \E op \in Ops, count \in {1, 2} : Send(op, count)
  BY DEF Upload, EditFile, EditFolder, Drop, AddVersion, EditMembers, EditRoom, CreateRoom,
     Ops, FileOps, FolderOps, MemberOps, MailOps, RoomOps
<1> QED BY <1>1, SendShown

LEMMA InitShown == Init => ShownInv
<1> SUFFICES ASSUME Init PROVE ShownInv
  OBVIOUS
<1> DEFINE none == [l \in Keys |-> NoQuery]
<1>1. /\ clock = 0 /\ write = <<>> /\ own = [k \in Keys |-> 0]
      /\ cache = [k \in Keys |-> IF k \in Mounted(page, none) THEN Fetch(NoQuery) ELSE NoQuery]
      /\ page \in Pages
  BY FreshPage DEF Init
<1>2. clock \in Nat /\ write \in Seq(Writes) /\ own \in [Keys -> Nat]
  BY <1>1
<1>3. /\ Fetch(NoQuery) \in Queries /\ Tended(Fetch(NoQuery)) /\ Keeps(Fetch(NoQuery), 0)
      /\ Fetch(NoQuery).data = None /\ NoQuery.data = None
      /\ NoQuery \in Queries /\ Keeps(NoQuery, 0)
  <2>1. NoQuery.data = None
    BY DEF NoQuery
  <2>2. 0 \in Nat /\ 0 <= clock
    BY <1>1
  <2> QED BY <1>2, <2>1, <2>2, NoQueryKeeps, Fetched
<1>4. cache \in [Keys -> Queries] /\ \A k \in Keys : own[k] <= clock /\ Keeps(cache[k], own[k])
  BY <1>1, <1>3
<1>5. Mounted(page, cache) \subseteq Mounted(page, none) /\ Mounted(page, none) \subseteq Keys
  <2>1. \A k \in Keys : cache[k].data # None => none[k].data # None
    BY <1>1, <1>3
  <2> QED BY <1>1, <2>1, MountedLess, KeysThere
<1>6. \A k \in Mounted(page, cache) : Tended(cache[k])
  <2> HIDE DEF none
  <2> QED BY <1>1, <1>3, <1>5
<1> QED BY <1>1, <1>2, <1>4, <1>6 DEF ShownInv

LEMMA NextShown == OpenLast /\ ShownInv /\ [Next]_vars => ShownInv'
<1> SUFFICES ASSUME OpenLast, ShownInv, [Next]_vars PROVE ShownInv'
  OBVIOUS
<1>1. OpenLast' /\ page \in Pages
  BY NextOpenLast DEF OpenLast
<1>2. ASSUME NEW k \in Keys, Arrive(k) \/ Fails(k) PROVE ShownInv'
  BY <1>1, <1>2, ArriveShown, FailsShown
<1>3. CASE \/ \E place \in Places : Navigate(place)
           \/ \E d \in Folders \cup {Root} : Select(d)
           \/ Search \/ OpenVersions \/ CloseVersions \/ OpenPreview \/ ClosePreview
  BY <1>1, <1>3, ClickShown
<1>4. ASSUME NEW d \in Folders, DeleteFolder(d) PROVE ShownInv'
  BY <1>1, <1>4, DeleteFolderShown
<1>5. ASSUME NEW i \in 1 .. Len(write), Commit(i) \/ Settle(i) \/ Lost(i) PROVE ShownInv'
  BY <1>1, <1>5, CommitShown, SettleShown, LostShown
<1>6. CASE Upload \/ EditFile \/ EditFolder \/ Drop \/ AddVersion \/ EditMembers
           \/ EditRoom \/ CreateRoom
  BY <1>6, WriteShown
<1>7. CASE UNCHANGED <<clock, own, cache, page, write>>
  BY <1>7, QuietShown DEF ShownInv, Numbered
<1>8. ASSUME NEW i \in 1 .. Len(preview), PreviewArrives(i) \/ PreviewFails(i) PROVE ShownInv'
  BY <1>7, <1>8 DEF PreviewArrives, PreviewFails
<1>9. CASE UNCHANGED vars
  BY <1>7, <1>9 DEF vars
<1> QED BY <1>2, <1>3, <1>4, <1>5, <1>6, <1>8, <1>9 DEF Next

\* What the cache holds for current shows each change of the tab's own that its hook
\* promises, for any number of folders, writes, fetches and clicks, and what a page
\* shows is current, being fetched, or has failed (use-files.ts:80).
THEOREM OwnWritesReachPages == Spec => []OwnWritesShown
<1>1. ShownInv => OwnWritesShown
  BY DEF ShownInv, Keeps, Tended, OwnWritesShown
<1> QED BY <1>1, InitOpenLast, InitShown, NextOpenLast, NextShown, PTL DEF Spec
=============================================================================
