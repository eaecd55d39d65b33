----------------------------- MODULE AuditTrail -----------------------------
(***************************************************************************)
(* The audit rows of one data room, the watermark rows that refer to them, *)
(* and a reader who pages through the log from its newest row to its       *)
(* oldest: audit-log.service.ts and the two queries built on it, the log   *)
(* of a room (audit-logs.service.ts) and the activity feed of the          *)
(* dashboard (dashboard.service.ts).  A page is two statements, the rows   *)
(* and their number, which run side by side while rows are added.          *)
(*                                                                         *)
(* A row's id is its position.  It is not its place in the log: createdAt  *)
(* is taken before the row is inserted, and rows may share it.             *)
(***************************************************************************)
EXTENDS Integers, Sequences, FiniteSets, FiniteSetsExt

CONSTANTS
  Users,      \* the accounts with access to the room
  Managers,   \* those with a role of DATA_ROOM_MANAGER_ROLES in it
  Limit,      \* query.limit: rows on a page
  MaxRows,    \* bound: audit rows
  MaxTime     \* bound: the clock

ASSUME ManagersAssumption == Managers \subseteq Users
ASSUME LimitAssumption == Limit \in Nat \ {0}
ASSUME TrailBoundsAssumption == MaxRows \in Nat /\ MaxTime \in Nat

VARIABLES
  trail,   \* the AuditLog rows: action, userId, the version acted on (0: none), createdAt
  marks,   \* the Watermark rows, by auditLogId, which is unique
  now,     \* the clock of the backend
  reader   \* the page that is open, and what was seen on those before it

audit == <<trail, marks, now, reader>>

Closed == [pc |-> "closed"]

TrailInit == trail = <<>> /\ marks = {} /\ now = 0 /\ reader = Closed

-----------------------------------------------------------------------------
\* record: the one insert.  No code updates or deletes a row.
Record(action, user, version, at) ==
  /\ Len(trail) < MaxRows
  /\ trail' = Append(trail, [action |-> action, user |-> user, version |-> version, at |-> at])

\* recordWatermark, after the row it names.
Mark(id) == marks' = marks \cup {id}

Tick == now < MaxTime /\ now' = now + 1 /\ UNCHANGED <<trail, marks, reader>>

\* Any other handler: a row as its last step, with the time of the insert.
Other(u) == Record("OTHER", u, 0, now) /\ UNCHANGED <<marks, now, reader>>

-----------------------------------------------------------------------------
(* Reading *)

Seen(r) == {i \in DOMAIN trail : r.own => trail[i].user = r.user}

Opened(u, own) ==
  LET r == [pc |-> "reading", user |-> u, own |-> own]
  IN  [pc |-> "reading", user |-> u, own |-> own, page |-> 1, counted |-> FALSE, total |-> 0,
       found |-> FALSE, raced |-> FALSE, rows |-> {}, before |-> Seen(r)]

\* findForDataRoom of audit-logs.service: a manager is shown all rows, any other
\* its own, whatever userId it asks for.
OpenLog(u) ==
  /\ reader = Closed
  /\ reader' = Opened(u, u \notin Managers)
  /\ UNCHANGED <<trail, marks, now>>

SkipTooMany(page) == page * Limit  \* mutant of Skip: pages counted from zero

Skip(page) == (page - 1) * Limit

\* orderBy createdAt desc: page is what one of the orders that agree with it has
\* in places skip + 1 .. skip + Limit.
IsPage(page, all, skip) ==
  \E before \in SUBSET (all \ page) :
    /\ Cardinality(before) = Min({skip, Cardinality(all)})
    /\ Cardinality(page) = Min({Limit, Cardinality(all) - Cardinality(before)})
    /\ \A i \in before, j \in all \ before : trail[i].at >= trail[j].at
    /\ \A i \in page, j \in all \ (before \cup page) : trail[i].at >= trail[j].at

FindMany ==
  /\ reader.pc = "reading" /\ ~reader.found
  /\ LET all == Seen(reader)
     IN  \E page \in SUBSET all :
           /\ IsPage(page, all, Skip(reader.page))
           /\ reader' = [reader EXCEPT !.found = TRUE, !.rows = @ \cup page,
                           !.raced = reader.counted /\ Cardinality(all) > reader.total]
  /\ UNCHANGED <<trail, marks, now>>

Count ==
  /\ reader.pc = "reading" /\ ~reader.counted
  /\ reader' = [reader EXCEPT !.counted = TRUE, !.total = Cardinality(Seen(reader))]
  /\ UNCHANGED <<trail, marks, now>>

TotalPages(total) == (total + Limit - 1) \div Limit

\* The pages' Next button, disabled on the last page.
NextPage ==
  /\ reader.pc = "reading" /\ reader.found /\ reader.counted
  /\ reader' = IF reader.page >= TotalPages(reader.total)
               THEN [reader EXCEPT !.pc = "end"]
               ELSE [reader EXCEPT !.page = @ + 1, !.found = FALSE, !.counted = FALSE]
  /\ UNCHANGED <<trail, marks, now>>

Close == reader.pc = "end" /\ reader' = Closed /\ UNCHANGED <<trail, marks, now>>

TrailNext ==
  \/ Tick
  \/ \E u \in Users : Other(u) \/ OpenLog(u)
  \/ FindMany \/ Count \/ NextPage \/ Close

-----------------------------------------------------------------------------
\* Who pages to the end has seen every row there was at the start, but rows that
\* share their time with another, which two pages may order differently, and
\* unless a row came between the two statements of the last page, so that the
\* number of pages was one short (audit-log.service.ts:71).
FullReadMissesOnlyRaced ==
  reader.pc = "end" /\ ~reader.raced =>
    \A i \in reader.before \ reader.rows :
      \E j \in DOMAIN trail : j # i /\ trail[j].at = trail[i].at
=============================================================================
