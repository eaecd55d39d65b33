# VariedReach VDR: specifications, model checks and proofs

TLA+ specifications of the virtual data room in this repository: a NestJS
backend over Prisma and PostgreSQL, a Next.js frontend, and the scripts that
back the two up. The specifications are translated from the code; docs and
comments only name what the code ought to do. Paths below are relative to the
repository; `modules/` stands for `apps/backend/src/modules/`.

## 1. The system

Every request to the backend runs one asynchronous handler. The event loop
interleaves handlers at each `await`, several backends may share the database,
and apart from three `$transaction`s (upload, resetPassword, acceptInvite) each
Prisma call is a transaction of its own. There is no lock and no
compare-and-set: `update` is keyed by id alone, so what a handler read before an
`await` may be stale when it writes. That, and handlers cut short between two
statements, is where this code is hard, and what the models are about.

| Component | State | Operations | Interacts with |
|---|---|---|---|
| Accounts and sessions, `modules/auth` | `users` (password, history, attempts, lockedUntil), `sessions`, `password_reset_tokens`, `invite_tokens` | login, logout, refresh, forgotPassword, resetPassword, acceptInvite | mail, audit; called by data rooms (forgotPassword); the browser's refresh |
| Files, `modules/files` | `files`, `file_versions`, `data_rooms.storageUsedBytes`, `highestStorageThresholdNotified` | list, upload, update, remove, addVersion, listVersions, getWatermarkedContent | storage, folders (upload of a directory), access, watermark, mail, audit |
| Storage, `modules/storage` | contents on disk | save, read, delete (no caller) | called by files |
| Folder tree, `modules/folders` | `folders` (parentId, path, depth, deletedAt) | findTree, create, update, remove, seedCirpTemplate, findOrCreateFolderPath | called by files and data rooms; counts files |
| Data rooms and membership, `modules/data-rooms` | `data_rooms`, `data_room_members`, pending users, invite tokens | create, update, remove, archive, invite, resend, role, remove member, reset password | auth, folders, mail, audit |
| Access decisions, `modules/data-room-access` | none (reads rooms and members) | getAccess and four assertions | called first by files, folders, reports, audit logs, getMyAccess |
| Watermarked reading, `modules/watermark`, `modules/office-conversion` | `watermarks`, `file_versions.convertedPdfPath` | apply, recordWatermark, convertToPdf | called by files; append-only triggers |
| Audit trail, `modules/audit`, `modules/audit-logs` | `audit_logs` | record, queries | last call of every handler |
| Mail, `modules/mail`, `modules/email-log`, `modules/webhooks` | `email_logs` | dispatch, markDelivered, markBounced | provider, its webhook |
| Backup, `infrastructure/scripts` | dump and archive | backup, restore | database and uploads under a running backend |
| Browser session, `apps/frontend/src/lib/api-client.ts`, `auth-provider.tsx`, `use-auth.ts` | access token and user of each tab, refreshPromise, the cookie all tabs share | restore, login, logout, request, refresh, retry | auth |
| Pages of a data room, `apps/frontend/src/hooks`, `components` | the query cache, what is shown, the open preview | fetch, write, invalidate, navigate, preview | every backend module |
| Dashboard, reports, exporters | none | queries; an export records itself | audit trail |
| Other pages, shared constants, start-up, seed, proxy, certificates | none that outlives a request | | |

What makes each correct:

- **Accounts.** A refresh token is consumed by its use; the number of live
  sessions is limited; a reset ends the sessions before it; no recent password
  comes back; a lock is lifted only by time, success or a reset.
- **Files.** A version has a content and keeps it; the versions of a file are
  numbered without gaps; the file shows its newest; the room's counter is the
  size of its live files; each crossing of a storage level is mailed once.
- **Folders.** The folders are a forest; nothing live is in a removed folder;
  the materialised paths agree with the tree; every request ends.
- **Data rooms and access.** An invited account keeps a link and its newest
  mail carries it; an invite is used once; what an account is shown, offered
  and allowed agrees.
- **Reading and audit.** Nothing leaves without its rows; a conversion is done
  once; who pages through the log misses nothing that was there.
- **Mail.** Every mail sent has a row, and its last state is the row's.
- **Backup.** A restored pair has a content for every version.
- **Browser.** A tab acts as the account it shows; a logout ends the session; no
  call waits for ever.
- **Pages.** What counts as current shows the tab's own writes; no object URL
  outlives its preview.

`PROJECT.json` lists the hazards, each at its line, with the properties that
speak of it or the reason why none does.

## 2. Modules

| Module | Lines up with | Kind |
|---|---|---|
| `Auth` | `modules/auth/auth.service.ts` | one account |
| `MCAuth` | | instance for TLC |
| `AuthProofs` | | theorems about `Auth` |
| `FileStore` | no code: what a room promises about its files | abstract specification |
| `RoomFiles` | `modules/files/files.service.ts`, `storage/providers/local-storage.provider.ts` | one room; implements `FileStore` |
| `MCRoomFiles`, `RoomFilesProofs` | | instance, theorems |
| `FolderTree` | `modules/folders/folders.service.ts`, and what files do to folders | one room |
| `MCFolderTree`, `FolderTreeProofs` | | instance, theorems |
| `Mail` | `modules/mail`, `modules/email-log`, `modules/webhooks` | the mails of a room and their rows |
| `Membership` | `modules/data-rooms`, `modules/data-room-access`, `acceptInvite`, the guards | one room and its accounts; extends `Mail` |
| `MCMembership`, `MembershipProofs` | | instance, theorems |
| `AuditTrail` | `modules/audit`, `modules/audit-logs`, `dashboard.service.ts` | the rows of one room and a reader of them |
| `Viewing` | `getWatermarkedContent`, `modules/watermark`, `modules/office-conversion`, `modules/reports`, the triggers, `infrastructure/scripts` | one file; extends `AuditTrail` |
| `MCViewing`, `ViewingProofs`, `ConversionProofs` | | instance, theorems |
| `Browser` | `lib/api-client.ts`, `auth-provider.tsx`, `use-auth.ts`, `auth-store.ts`, `auth.controller.ts` | two tabs and what the backend answers |
| `MCBrowser`, `BrowserProofs` | | instance, theorems |
| `RoomPages` | `hooks/`, `components/files`, `folders`, `data-rooms`, the pages of `data-rooms/[id]` | one tab on one room |
| `MCRoomPages`, `RoomPagesProofs` | | instance, theorems |

One account, one room and one file are enough where nothing else is named,
because every statement of these services is keyed by one user, one room or one
version. `upload` and `addVersion` also check access first: `Membership` decides
it, and `RoomFiles` takes the requests that were admitted.

### How code becomes actions

- A request in flight occupies a slot `r \in Requests`; `req[r]` is a record of
  a `pc` and of exactly the values the handler holds across its next `await`.
- One action runs from one `await` to the next. Two database calls share an
  action only when one of them touches nothing another request sees (the save
  of a content before the row that will refer to it; `bcrypt.compare`, which
  works on the row just read; the count that only sets `sortOrder`).
- A request turned down before it has written anything is a stuttering step.
- `Abort(r)` ends a request anywhere: a database error, a constraint, an
  unsupported file later in a batch, or the end of the process. What was
  written stays, because nothing is rolled back.
- `$transaction` is one action (`ResetCommit`, `UploadCreate`).
- Row ids are positions in a sequence; only invite tokens are ever deleted, and
  those are kept by account. For sessions the order is that of `createdAt`,
  which the session limit sorts by.
- History variables, named as such where they are declared, let a property say
  under which overlap it holds. No guard reads one.

**Auth.** `user` is the row; `Live` is the `where` of the session limit and the
check of refresh. `LoginRead` .. `IssueTokens` are the awaits of login, of which
`IssueTokens` also ends refresh. `LoginFail` counts on from the attempts read
before the compare, as `handleFailedLogin` does with its argument. `cred` marks
each session with the number of resets behind the password it rests on.

**RoomFiles.** `UploadSave`, `UploadCreate`, `Count` make the loop of upload;
`VersionSave`, `VersionLatest`, `VersionInsert`, `VersionPoint`, `Count` are
addVersion, whose insert fails on `@@unique([fileId, versionNumber])`;
`RemoveRead`, `RemoveMark`, `Count` are remove. All end in
`checkStorageThreshold`: `CheckRead`, `Track`, `Mail`. `told` is the highest
level mailed that use has not fallen below since. Only the audit rows,
`notifyUpload` (which is not awaited and writes email log rows only) and
`isLocked` (which nothing sets) are left out.

**FolderTree.** A path is the sequence of its names; `depth`, always written
with it from the same rows, is its length less one. `UpdateRead`,
`UpdateParent`, `Climb`, `UpdateWrite`, `RebuildList`, `RebuildChild` are
update, with `isDescendant` one row at a time and the recursion of
`rebuildDescendantPaths` as a stack of calls whose children were listed
earlier. `UploadRead`, `UploadSeek`, `UploadMake`, `FilePlace` are the folder
walk of an upload followed by its file, or a file's move. `RemoveCount` takes the two counts of
`Promise.all` in either order. The template is seeded in `Init`: `create` of a
data room returns the id only after seeding, and a room whose seeding failed is
the empty start. (A manager who finds the new room in a list before it is seeded
is left out.)

**Membership and Mail.** `Enter` is the two guards and `assertManager`; then each
handler goes from statement to statement: `FindUser`, `CreateUser`,
`CreateToken`, `Send`, `Log`, `Upsert` are inviteMember; `ReadMember`,
`PreviousLog`, `DropToken`, `CreateToken`, `Send`, `Log` are resendInvite;
`ChangeMember` is the last statement of the role change and the removal, and
`AcceptFind`, `AcceptCommit` are acceptInvite, whose transaction fails when its
token row is gone. The unique `email` and `userId` are guards that end the
request. `Send` is the provider's answer and `Log` the row written after it, and
`Webhook` may come before, between, after, twice or never. A refused send has
no id, so no event can name it. `Expire` lets a link's time run out.

**AuditTrail and Viewing.** A row's place in the log is its `createdAt`, taken
before the insert, and rows may share it: `IsPage` accepts every answer the
`ORDER BY` allows. `FindMany` and `Count` are the two statements of one
`Promise.all`, in either order. `ReadVersion` .. `Send` are
getWatermarkedContent; `Keep` is the UPDATE of `convertedPdfPath`, which
`triggers` rejects (both kinds of database are initial states). `TakeCopy` is
one of the two copies of `backup-db.sh` in its order; `StopBackend`,
`RestoreDb` and `RestoreUploads` are `restore-db.sh`. What was served after the
dump loses its row in the restore: `served` starts anew there.

**Browser.** A call is sent, answered, perhaps waits for the refresh its tab
shares, and is settled; `Serve` is the whole backend side (Auth has its
interleavings), and `Lose` an answer that never comes. `Wait` is the response
interceptor, which treats the 401 of a wrong password like any other: it
refreshes and sends the login again. `RefreshDone` resumes all waiters at once,
as the resolved promise does before another answer is handled. `RunOut` and
`EndSession` are time, and a reset or a session limit elsewhere. Two histories
are beside the state: `mixed`, the tabs whose cookie became another account's
than they show or await (`TurnTo`), and `met`, the logouts that met another
exchange of the cookie (`Watch`).

**RoomPages.** A query holds the moment its answer is of, and flags: invalidated,
fetching since, failed. `Show` is what a render does to the cache, `Invalidate`
what `invalidateQueries` does, by the rules of react-query as `query-provider.tsx`
sets it up (marked external in the map). The writes are what the components
send, with what each hook's `onSuccess` invalidates. Seen there, and stated by
no promise of the code: the audit log, the reports and the dashboard are
refreshed only where a prefix happens to reach them; the query cache outlives
a logout; a drop on a folder also sends the item to the root; an upload of which
a later file is refused keeps the earlier ones and refreshes nothing.

## 3. Runs

| Run | Instance | Shows |
|---|---|---|
| `auth` | 2 requests, 3 passwords, lock at 2, 1 session, history of 1, 3 sessions and 2 reset links ever | the safety of one account under every interleaving and cut |
| `room_files` | 2 requests, sizes 1 and 2 of 4, levels 50/75/100, batches of 2, 3 contents | the safety of one room's files, and `RoomFiles` implements `FileStore` |
| `folders` | 2 requests at a time, 3 in all, 2 names, 3 folders, paths of 3 | loops, orphans, paths |
| `folders_end` | 1 request at a time, 4 in all, 3 folders, fairness | every request ends |
| `membership` | 2 requests at a time, 3 in all, 2 accounts, 2 roles, 2 mails | invitations, links, mail rows, decisions, under every interleaving and cut |
| `viewing` | 2 requests at a time, 3 in all, a manager and a guest, pages of 1 row, 3 rows, 3 contents, clock of 1 | what leaves is recorded, contents survive a restore, conversions, paging |
| `browser` | 2 tabs, 2 accounts, 2 calls at a time, 3 begun, 3 sessions, fairness | identity of a tab, logout, no call waits for ever |
| `pages` | 1 folder, 2 writes, 1 move, 1 preview | the query cache under writes, navigation and late answers |
| `auth_session_limit` | as `auth` | **violated:** two logins exceed the limit |
| `auth_reset_sessions` | as `auth` | **violated:** a login in flight outlives a reset |
| `storage_warning_once` | as `room_files` | **violated:** one crossing is mailed twice |
| `folders_loop` | as `folders` | **violated:** two moves make a loop |

### Properties

- `ParentRevoked`: a session that came of refresh exists only if the session it
  was traded for is revoked. `ForksOnlyFromOverlap`: two sessions of one token
  come only of requests in flight with others.
- `LoginBound`: logins exceed the limit by at most the number of other requests
  in flight. `AloneLoginMeetsLimit`: a login that met nobody restores it,
  whatever was left behind.
- `ResetCutsOff`: after a reset that met nobody, no session on an earlier
  password is live. `PasswordNotInHistory` and `WrongPasswordNeverUnlocks` hold
  under every overlap, although history entries and counts do get lost.
  `UsedLinkOverlapped`: a reset link works twice only for requests in flight
  together.
- `VersionHasContent`, `VersionsNumbered`: under every race and cut.
  `CurrentIsNewest`, `LedgerBalances`: until two requests meet on one file or
  one is cut between row and counter; other overlaps do no harm.
- `WarningsKeepUp`, `OncePerCrossingSerial`: requests in turn keep tracker and
  mails in step with use.
- `ImplementsFileStore`: the rows behave as `FileStore`.
- `OnlyCrossingUpdatesLoop`: only two updates that meet before their writes can
  close a loop. `OnlyRacedRemovalsOrphan`: only a removal in flight with a
  request that works under its folder leaves something live in a removed one.
  `PathsAgree`: requests in turn keep every path in step. `RequestsEnd`: every
  request ends.

- `PendingHasToken`, `NewestLinkWorks`, `ResendsChain`: an invited account keeps
  a link, its newest mail carries it, and its resends name each other; the first
  under every crossing, the others until two requests on the account cross.
  `AcceptedOnce`: but for requests that crossed, an invitation sets a password
  once. `ReplacedLinkIsDead`: a replaced link sets none, ever.
- `RowsFollowProvider`: a row has the status last reported since it was written.
- `AccessAgrees`: the three places that decide agree, but in the two cases it
  names.
- `NothingLeavesUnrecorded`, `RowsHaveContent`: under every interleaving, cut,
  backup and restore. `ConvertedOnce`: but for two first readers at once and
  conversions that were not kept. `FullReadMissesOnlyRaced`: a reader of all
  pages misses only rows that share a time, or a page born between its two
  statements.
- `ActsAsShown`: a tab's token is its user's, unless the cookie all tabs share
  became another account's while the tab showed one, or waited for a restore or
  a refresh. `LogoutEnds`: an answered logout leaves no cookie and no session.
  `CallsSettle`: every call ends.
- `OwnWritesShown`: what counts as current shows the tab's own answered writes
  its hooks promise; left out is a fetch asked before the write that nothing
  replaces. `UrlsRevoked`: the only object URL is that of the open preview.

Each of them is violated by a mutant of the code's definitions listed in
`PROJECT.json`; the mutated definitions stand next to those they mutate and are
marked as such.

### Bounds, and why they are enough

Two requests at a time suffice for every race here, since each hazard is
between one read and another's write; the theorems of section 5 hold for any
number. One session allowed and three ever (`MaxIssued`, which counts requests
that may yet issue one) let both logins exceed the limit, a refresh fork, and a
lone login repair it. Wrong passwords are typed only below `MaxAttempts = 2`,
which is the lock, so the lock is set, runs out, and is met with a stale count.
Three passwords and a history of one let a password leave the history and
return. Four bytes with levels at 50 and 75 percent make sizes 1 and 2 cross
every level, singly and two at once, and fall back. Three contents allow a file
with three versions or three files. Three folders are enough for a loop
through a third folder, for a rename with a grandchild, and for a removal under
both; a path at `MaxPath = 3` stops growing, which only a loop or a stale
parent path reaches. `MaxBegun` bounds requests ever begun: three are needed for
two that cross after one that built the tree. A logout without a
cookie and the reads (`Elsewhere`, `FindTree`) are always enabled, as they are in
the code, so no bound stops the system and deadlock checking stays on. Request
slots, and the passwords but the first, are interchangeable, which `Symmetry`
uses; the run of a liveness property uses none.

The newer runs do stop at their bounds (`CHECK_DEADLOCK FALSE`): a page whose two
writes are over, or an account that is active, has nothing more to do there.
`membership`: two roles, one that manages and one that may not even download,
meet every comparison of `content-roles.ts` once as own role and once as
override; three requests are an invitation and two that cross. Mails stop at two
(`MaxMails`), an invitation and its resend. `viewing`: three contents are an
original and two conversions of it, or three versions. Its `Focus` lets the log
be paged through before a backup is begun, and takes two rows at most
otherwise: paging and backup share no state but the rows, which both only read.
`browser`: two calls in flight are what a refresh can be shared by; three calls
begun and three sessions let a login meet a restore, and a logout its own refresh.
`pages`: one folder beside the root gives four lists of files; `Focus` takes two
writes, or one beside a failed fetch or a preview; of queries that differ only in
what mounts them, `Watched` names one of each kind, and `Prompt` answers the
others before anything else happens.

### Fairness

Only `folders_end` and `browser` assume any. `folders_end` assumes weak
fairness of `Proceed(r)`, the next step of
a request that has begun. The event loop resumes a handler whose `await` has
settled, and every Prisma call settles. Nothing is assumed of the arrival of
requests, nor of `Abort`. The run takes requests one at a time because on a loop
made by two that cross, `isDescendant` (and the recursion over the descendants)
really never ends. `browser` assumes that a call that was sent is answered or
given up (`Serve` or `Lose`: the browser fails a request whose connection ends)
and that a settled promise is handled (`Wait`, `Settle`, `RefreshDone`,
`RefreshFailed`). Nothing is assumed of users, of time, or of which answer it is.

## 4. Disagreements between code and docs

1. **Session limit.** `schema.prisma:178-179` promises "concurrent-session
   limiting (PRD: max 3 by default)"; two logins at once exceed it
   (`auth.service.ts:302`, `:336`). Bounded by `LoginBound`.
2. **Reset.** `auth.service.ts:226`: "Reset password invalidates all existing
   sessions." A login that compared the old password before the commit creates
   its session after it and keeps it.
3. **Storage warning.** `files.service.ts:381`: "Fires exactly once per upward
   threshold crossing". The tracker is read and written in two statements; two
   uploads both mail.
4. **Folder loop.** `folders.service.ts:73`: "Cannot move a folder into its own
   subtree". Two moves at once do; the folders then hang off no root, are still
   listed, and a later move under them never returns.

Five more are met by runs that pass, since their properties name the case:

5. **Org-wide roles.** `data-room-access.service.ts:13` says they mirror
   `ADMIN_ROLES`; RP_LIQUIDATOR is missing, so one who is no member sees a room
   it cannot open (`AccessAgrees`).
6. **RP/Liquidator.** `content-roles.ts:26-27` scopes it to rooms it is a member
   of; `assertManager` and `findAll` do not (`AccessAgrees`).
7. **Invite links.** "Single-use" (`schema.prisma:147`), but two requests at once
   both set the password (`auth.service.ts:243`, `AcceptedOnce`).
8. **Append-only.** `append_only_triggers.sql:3-4`: "The application never
   updates or deletes rows in these tables"; `files.service.ts:352` updates
   `file_versions`, so with the triggers no Office file can be read at all, and
   every try stores another PDF (`ConvertedOnce`).
9. **Once per version.** `files.service.ts:333`; two first readers both convert
   (`ConvertedOnce`).

Seen and not a run: `watermark.service.ts:50` returns a `msg` or `eml` file as it
is, while a watermark row is recorded. `MembersPanel.tsx:38` offers "Resend
invite" for an active account, which resendInvite refuses; `:48` says a reset
mail was sent to an account still pending, to which none is. `schema.prisma:126` says the password history is kept
"oldest first", the code (`auth.service.ts:210`) keeps it newest first, and
nothing depends on the order but which entry is dropped.

## 5. Proofs

`tlapm` on `AuthProofs.tla`, `RoomFilesProofs.tla`, `FolderTreeProofs.tla`,
`MembershipProofs.tla`, `ViewingProofs.tla`, `ConversionProofs.tla`,
`BrowserProofs.tla` and `RoomPagesProofs.tla` checks every theorem, for all
values of the constants under the named assumptions of the modules (limits are
positive, sizes are naturals, request slots of `Auth` and `RoomFiles` are
finitely many, the template consists of names, there is an account). TLC evaluates those assumptions in each run.

- **Auth.** `TypeCorrect`; then on top of it `RotationInv`: a request about to
  issue has revoked its parent, requests in flight know of each other, and a
  refresh whose token another has traded has met it. It gives `RotationConsumes`
  and `ForksNeedOverlap`. `CutOffInv` (no request in flight rests on a password
  from before the last clean reset, for such a reset found none in flight) gives
  `CleanResetCutsOff`; `HistoryInv` (a reset holds a password unlike all it will
  store) gives `CurrentPasswordIsNew`; `WrongPasswordKeepsLock` is an action
  property from the type invariant. `ResetShared` (a reset under way whose link is
  used by now met the request that used it) gives `UsedLinkMetAnother`. `LoginInv` counts logins without summing:
  from some point of the list on, each live session of a login has a request that
  owns it alone, up to that point at most the limit less one are live, and a
  request about to trim leaves no more than that of what it saw (`LoginsOwned`): hence
  `LoginsBounded`, for any finite set of requests (`RequestsAssumption`).
  `AloneInv` with `TrimmingMakesRoom` gives `AloneLoginRepairs`.
- **RoomFiles.** `IInv == TypeOK /\ ContentInv /\ NumberInv`. `ContentInv`: a
  content stored and not yet recorded belongs to one request and no row, hence
  `VersionsKeepContent`. `NumberInv`: a number about to be inserted follows one
  that is there, hence with the unique constraint `NumbersWithoutGaps`. The same
  invariant maps each step to a step of `FileStore` or a stutter:
  `FilesImplementStore`.
  `NewestInv` says of a file not torn that no two requests
  hold it (`Alone`), that a number about to be inserted is above all others and
  one about to become current is the highest (`OnTop`), and that the file shows
  its highest number or a request is about to point it there (`Newest`): hence
  `NewestVersionShown`. `WarningInv` says of requests in turn where use, tracker
  and mails stand at each await (`WarningStage`): equal between requests, the
  tracker behind while a batch adds, both at the lower of the two when the check
  is due. It gives `WarningsInStep` and `MailedOncePerCrossing`. `LedgerInv` says
  that the file a request works on is live with the size it has read (`Fresh`),
  and that counter, debts and sizes balance (`Balanced`). Each step changes the
  debt of one request, or adds or drops one file, so the proof needs of a sum
  over a finite set only what becomes of it when one term changes, joins or
  leaves (`OneChanges`, `OneMore`, `NoWeight`); `LedgerSums` ties that sum
  (`Total`) to `MapThenSumSet` of the community modules. Hence `BooksBalance`, for finitely many
  request slots (`RequestsAssumption`).
- **FolderTree.** `TypeCorrect`, and `LoopInv` for `LoopsNeedCrossing`: while no
  updates cross, at most one is under way, and a move on its climb has a set of
  folders through which parents lead from its new parent to where it stands,
  without the folder to be moved. Writing the parent then closes no loop. "No
  loop" is stated over sets (every set of folders has one whose parent is
  outside), which needs no induction. `OrphanInv` says that, while no removal has
  been raced, live folders and files are housed (`Housed`), no request works
  under a folder being removed (`Apart`), and what requests have found still
  holds: a parent found live is live, a folder counted empty is empty
  (`Grounded`). It gives `OrphansNeedRace`. `PathInv` says of requests in turn
  where the paths stand at each `await` (`PathStage`): all agree but while a
  rebuild runs, and then the folders that do not are those its stack of calls
  still awaits (`Rebuilding`). The folders listed so far hang together below the
  one renamed (`Hanging`), and what waits has its name and its parent's path of
  now (`Waiting`). A rebuild meets each folder once because the tree has no loop,
  which `LoopInv` provides (`ChildrenAreNew`). Hence `PathsInTurn`.
- **Membership.** `TypeInv` adds to the types that the subject of a request past
  its lookup has an account. `LinkInv` then says what crossing requests leave: a
  pending account without a token has a request about to make one, or was cut
  short (`PendingKeepsToken`); unless two crossed, at most one request works on
  an account not yet active, and none is about to replace or use the token of an
  active one, so its password is set once (`InvitationUsedOnce`).
  `ReplacedLinkDies` follows from the types. `ChainInv` says of an account on
  which none crossed that a request carrying an invitation is alone with it,
  names the newest row, and has the link of the token (`CarriesWell`); that the
  rows there are name each the one before (`Chained`); and that the newest has
  the token's link or a request on its way will write one that does
  (`AccountInv`). A row is written under the account's invitations only by such a
  request, hence `ResendsFormChain` and `NewestInvitationWorks`. `MailInv`
  (a mail is reported only to a row that names it, and a row about to be written
  has none) gives `RowsFollow`. `RoleTablesAgree` is about the role tables alone:
  it holds in every state, of whatever roles, and no step is needed for it.
- **Viewing.** `TypeInv` adds that nothing is in flight while the backend is down.
  `Safe` says of each request which rows and contents it has found and written
  (`Right`), of what left its rows (`Recording`), and of the copies (`Copied`)
  that the dump's rows find their contents in what is stored until the archive
  is taken, and in the archive from then on: contents are only added, so the
  dump may be older than the archive and not the other way round. Hence
  `LeavesRecorded` and `ContentKept`, the latter across the restore.
  `ConversionProofs` goes on from there: of a content not excused at most one
  request is converting it, none once a PDF is kept, and each PDF of it is kept
  or about to be (`Once`); no two versions share a content (`PathsDiffer`,
  `InsertsDiffer`). Hence `OnePdfPerContent`. `ReadInv` says of a row that the
  reader has not seen, and that shares its time with none, that at least as many
  rows are newer as the pages read so far hold (`StillAhead`): a page takes exactly the
  rows at its positions (`PagesCover`), and new rows only push others down.
  Hence `FullReadComplete`.
- **Browser.** `Match`: of a tab that is not mixed, user, refresh, restore and
  cookie are of one account, and so is the token of a tab that shows one or has
  been given a session. A step either leaves a tab no more than it had (`Less`)
  or turns the cookie, and then whatever is not of the new account is mixed
  (`TurnedTo`). It gives `TabActsAsShown`. `LogoutInv`: a logout that met no
  other exchange carries the browser's cookie, and once it is answered that
  session is not live; only its own steps, its refresh included, can write the
  cookie or make a session. It gives `LogoutEndsSession`.
- **RoomPages.** `OpenLast`: a preview not cancelled is the last and is open.
  Hence `NoUrlOutlivesPreview`. `ShownInv`: no write answered is later than the
  clock, a query current and not lacking shows the last write its hook promised,
  and a fetch under way was asked after it or is marked missed (`Keeps`); what the
  page mounts is current, being fetched, or failed (`Tended`). It rests on
  `PromisesInvalidated` (what a hook promises is under what it invalidates, by
  prefix) and gives `OwnWritesReachPages`.

Every invariant, action property and refinement that a passing run checks is
thereby a theorem. Two properties are checked by TLC only, `RequestsEnd` and
`CallsSettle`: liveness under fairness is out of the prover's reach. So are the four
properties that fail, each refuted by a run. `Prompt`, `Watched` and
`Focus` bound the instances for TLC and are no part of the specifications the
theorems are about.

## 6. Not modelled

Formatting, rendering, mail templates, the layout of exports, the counting of
the dashboard's cards and of the user activity report, start-up, seeding, the
proxy and certificates: they keep no state or only read. Of data rooms, `update`
and `setArchived` on the backend write a name, a date or a status that no other
code reads (`RoomPages` has them as writes a page sends). Of mail, the storage
warning is sent in `RoomFiles` and the upload notice is left out: both go to
several accounts, each with a row of its own that nothing waits for; the
nodemailer provider has no webhook. `storage.delete` has no caller. The other
pages (forgotten password, accept invite, dashboard, lists) post one form or show
one query and share no state but the cache `RoomPages` models. Password hashing,
tokens and their hashes are identities of what they stand for. Expired reset
links are refused reads, and therefore stuttering. `sortOrder`, `lastLoginAt`,
`rememberMe` and the like are left out: no property tells their values apart.

## 7. Plan

1. `Auth`, `RoomFiles` implementing `FileStore`, `FolderTree`, and their proofs.
   Done.
2. `Mail`, `Membership`, `MembershipProofs`. Done.
3. `AuditTrail`, `Viewing`, `ViewingProofs`, `ConversionProofs`. Done.
4. `Browser`, `BrowserProofs`. Done.
5. `RoomPages`, `RoomPagesProofs`. Done.
6. The sums of `LedgerBalances`, the cardinalities of `LoginBound` and of paging,
   and what requests in turn keep (`PathsAgree`, the warnings). Done.
7. Left: nothing that a run checks and the prover could reach. Liveness stays
   with TLC.
