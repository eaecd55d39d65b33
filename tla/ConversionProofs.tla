-------------------------- MODULE ConversionProofs --------------------------
(***************************************************************************)
(* That an Office content is converted once, but for the two cases Viewing *)
(* names, for every number of accounts, requests and contents.             *)
(***************************************************************************)
EXTENDS ViewingProofs

Excused == crossed \cup cut

\* Request r converts the content o, or has just stored its PDF.
Works(r, o) ==
  \/ req[r].pc = "convert" /\ req[r].path = o
  \/ req[r].pc = "keep" /\ contents[req[r].path] = o

KeptFor(o, p) == \E v \in DOMAIN versions : versions[v].path = o /\ versions[v].pdf = p
AboutToKeep(p) == \E r \in Requests : req[r].pc = "keep" /\ req[r].path = p

\* At most one request works on o, none once a PDF of it is kept, and every PDF
\* of it is kept or about to be.
Once(o) ==
  /\ \A r, s \in Requests : Works(r, o) /\ Works(s, o) => r = s
  /\ \A r \in Requests, v \in DOMAIN versions :
       Works(r, o) /\ versions[v].path = o => versions[v].pdf = 0
  /\ \A p \in DOMAIN contents : contents[p] = o => KeptFor(o, p) \/ AboutToKeep(p)

PathsDiffer(vs) == \A v, w \in DOMAIN vs : vs[v].path = vs[w].path => v = w

\* A content about to be a version's is no other version's, and no other request's.
InsertsDiffer ==
  \A r \in Requests : req[r].pc = "insert" =>
    /\ \A v \in DOMAIN versions : versions[v].path # req[r].path
    /\ \A s \in Requests : req[s].pc = "insert" /\ req[s].path = req[r].path => r = s

ConvInv ==
  /\ PathsDiffer(versions) /\ PathsDiffer(backup.versions) /\ InsertsDiffer
  /\ up => \A o \in Nat \ {0} : o \notin Excused => Once(o)
  /\ ~up => ConvertedOnce

LEMMA NowOnce == ASSUME TypeInv, Safe, ConvInv, up PROVE ConvertedOnce
<1> SUFFICES ASSUME NEW p \in DOMAIN contents, NEW q \in DOMAIN contents,
                    contents[p] = contents[q], contents[p] # 0, contents[p] \notin Excused
             PROVE  p = q
  BY DEF ConvertedOnce, Excused
<1> DEFINE o == contents[p]
<1>1. o \in Nat \ {0} /\ 0 \notin DOMAIN contents
  BY DEF TypeInv, TypeOK
<1>2. Once(o)
  BY <1>1 DEF ConvInv
<1>3. /\ KeptFor(o, p) \/ AboutToKeep(p)
      /\ KeptFor(o, q) \/ AboutToKeep(q)
  BY <1>2 DEF Once
<1>4. CASE KeptFor(o, p) /\ KeptFor(o, q)
  BY <1>4 DEF KeptFor, ConvInv, PathsDiffer
<1>5. CASE KeptFor(o, p) /\ AboutToKeep(q)
  BY <1>1, <1>2, <1>5 DEF KeptFor, AboutToKeep, Once, Works
<1>6. CASE AboutToKeep(p) /\ KeptFor(o, q)
  BY <1>1, <1>2, <1>6 DEF KeptFor, AboutToKeep, Once, Works
<1>7. CASE AboutToKeep(p) /\ AboutToKeep(q)
  BY <1>2, <1>7 DEF AboutToKeep, Once, Works
<1> QED BY <1>3, <1>4, <1>5, <1>6, <1>7

\* A step that writes no version and no content, begins no insert and no conversion,
\* and ends no keeping but that of an excused content.
LEMMA QuietConv ==
  ASSUME TypeInv, ConvInv, up, up', UNCHANGED files,
         crossed \subseteq crossed', cut \subseteq cut',
         \A r \in Requests : req'[r].pc \in {"insert", "convert", "keep"} => req'[r] = req[r],
         \A r \in Requests :
           req[r].pc = "keep" => req'[r] = req[r] \/ contents[req[r].path] \in cut',
         PathsDiffer(backup.versions)'
  PROVE  ConvInv'
<1>1. versions' = versions /\ contents' = contents
  BY DEF files
<1>2. PathsDiffer(versions)' /\ InsertsDiffer'
  BY <1>1 DEF ConvInv, PathsDiffer, InsertsDiffer
<1>3. ASSUME NEW o \in Nat \ {0}, o \notin Excused' PROVE Once(o)'
  <2>1. Once(o) /\ o \notin cut'
    BY <1>3 DEF ConvInv, Excused
  <2>2. \A r \in Requests : Works(r, o)' => Works(r, o)
    BY <1>1 DEF Works
  <2>3. \A p \in DOMAIN contents : contents[p] = o /\ AboutToKeep(p) => AboutToKeep(p)'
    BY <2>1 DEF AboutToKeep
  <2>4. \A p \in DOMAIN contents : KeptFor(o, p)' <=> KeptFor(o, p)
    BY <1>1 DEF KeptFor
  <2> QED BY <1>1, <2>1, <2>2, <2>3, <2>4 DEF Once
<1> QED BY <1>2, <1>3 DEF ConvInv

\* The same for one request.
LEMMA MoveConv ==
  ASSUME TypeInv, ConvInv, up, UNCHANGED <<files, system>>,
         crossed \subseteq crossed', cut \subseteq cut',
         NEW r \in Requests, NEW held \in {Idle} \cup Held, Hold(r, held) \/ Begin(r, held),
         held.pc \notin {"insert", "convert", "keep"},
         req[r].pc = "keep" => contents[req[r].path] \in cut'
  PROVE  ConvInv'
<1>1. req'[r] = held /\ \A q \in Requests : q # r => req'[q] = req[q]
  BY Slot DEF TypeInv
<1>2. up' /\ PathsDiffer(backup.versions)'
  BY DEF system, ConvInv, PathsDiffer
<1> QED BY <1>1, <1>2, QuietConv

LEMMA SaveVersionConv ==
  ASSUME TypeInv, Safe, ConvInv, NEW r \in Requests, NEW u \in Users, SaveVersion(r, u)
  PROVE  ConvInv'
<1> DEFINE n == Len(contents) + 1
           held == New("insert", "upload", u, 0, n)
<1>1. n \in Nat /\ n \notin DOMAIN contents
  BY DEF TypeInv, TypeOK
<1>2. held \in Held /\ held.pc = "insert" /\ held.path = n
  BY <1>1, NewHeld DEF New
<1>3. /\ DOMAIN contents' = DOMAIN contents \cup {n}
      /\ \A p \in DOMAIN contents : contents'[p] = contents[p]
      /\ contents'[n] = 0
  BY DEF SaveVersion, Store, TypeInv, TypeOK
<1>4. Begin(r, held) /\ up /\ UNCHANGED <<versions, system, crossed, cut>>
  BY DEF SaveVersion, Begin
<1> HIDE DEF n, held
<1>5. /\ req'[r] = held /\ req[r] = Idle
      /\ \A q \in Requests : q # r => req'[q] = req[q]
  BY <1>2, <1>4, Slot DEF TypeInv, Begin
<1>6. /\ \A v \in DOMAIN versions : versions[v].path # n
      /\ \A q \in Requests : req[q].pc \in {"insert", "keep"} => req[q].path \in DOMAIN contents
  BY <1>1, <1>4 DEF Safe, HasContent, Right, TypeInv
<1>7. InsertsDiffer'
  BY <1>1, <1>2, <1>4, <1>5, <1>6 DEF InsertsDiffer, ConvInv
<1>8. PathsDiffer(versions)' /\ PathsDiffer(backup.versions)' /\ up'
  BY <1>4 DEF ConvInv, PathsDiffer, system
<1>9. ASSUME NEW o \in Nat \ {0}, o \notin Excused' PROVE Once(o)'
  <2>1. Once(o)
    BY <1>4, <1>9 DEF ConvInv, Excused
  <2>2. \A q \in Requests : Works(q, o)' => Works(q, o)
    BY <1>2, <1>3, <1>5, <1>6 DEF Works
  <2>3. \A p : AboutToKeep(p) => AboutToKeep(p)'
    BY <1>5 DEF AboutToKeep, Idle
  <2>4. \A p : KeptFor(o, p)' <=> KeptFor(o, p)
    BY <1>4 DEF KeptFor
  <2>5. \A p \in DOMAIN contents' : contents'[p] = o => p \in DOMAIN contents /\ contents[p] = o
    BY <1>3
  <2> QED BY <1>4, <2>1, <2>2, <2>3, <2>4, <2>5 DEF Once
<1> QED BY <1>7, <1>8, <1>9 DEF ConvInv

LEMMA InsertVersionConv ==
  ASSUME TypeInv, Safe, ConvInv, NEW r \in Requests, InsertVersion(r)
  PROVE  ConvInv'
<1>1. req[r] \in Held /\ req[r].pc = "insert" /\ up
  BY Holding DEF InsertVersion
<1> DEFINE row == [path |-> req[r].path, pdf |-> 0]
           n == Len(versions) + 1
<1>2. row \in VersionRows /\ row.path = req[r].path /\ row.pdf = 0
  BY <1>1 DEF Held, VersionRows
<1>3. UNCHANGED <<contents, system, crossed, cut>> /\ Hold(r, Idle)
      /\ versions' = Append(versions, row)
  BY DEF InsertVersion, End
<1> HIDE DEF row
<1>4. /\ DOMAIN versions' = DOMAIN versions \cup {n} /\ n \notin DOMAIN versions
      /\ versions'[n] = row
      /\ \A v \in DOMAIN versions : versions'[v] = versions[v]
  <2>1. versions \in Seq(VersionRows)
    BY DEF TypeInv, TypeOK
  <2> QED BY <1>2, <1>3, <2>1
<1> HIDE DEF n
<1>5. req'[r] = Idle /\ \A q \in Requests : q # r => req'[q] = req[q]
  BY <1>3, Slot DEF TypeInv
<1>6. /\ \A v \in DOMAIN versions : versions[v].path # row.path
      /\ \A s \in Requests : req[s].pc = "insert" /\ req[s].path = row.path => r = s
  BY <1>1, <1>2 DEF ConvInv, InsertsDiffer
<1>7. PathsDiffer(versions)'
  BY <1>4, <1>6 DEF ConvInv, PathsDiffer
<1>8. InsertsDiffer'
  BY <1>4, <1>5, <1>6 DEF ConvInv, InsertsDiffer, Idle
<1>9. PathsDiffer(backup.versions)' /\ up'
  BY <1>1, <1>3 DEF ConvInv, PathsDiffer, system
<1>10. ASSUME NEW o \in Nat \ {0}, o \notin Excused' PROVE Once(o)'
  <2>1. Once(o)
    BY <1>1, <1>3, <1>10 DEF ConvInv, Excused
  <2>2. \A q \in Requests : Works(q, o)' => Works(q, o)
    BY <1>3, <1>5 DEF Works, Idle
  <2>3. \A p : AboutToKeep(p) => AboutToKeep(p)'
    BY <1>1, <1>5 DEF AboutToKeep
  <2>4. \A p : KeptFor(o, p) => KeptFor(o, p)'
    BY <1>4 DEF KeptFor
  <2>5. \A q \in Requests, v \in DOMAIN versions' :
          Works(q, o)' /\ versions'[v].path = o => versions'[v].pdf = 0
    BY <1>2, <1>4, <2>1, <2>2 DEF Once
  <2> QED BY <1>3, <2>1, <2>2, <2>3, <2>4, <2>5 DEF Once
<1> QED BY <1>7, <1>8, <1>9, <1>10 DEF ConvInv

\* One more begins to convert a content: the first, or the content is crossed.
LEMMA ReadVersionConv ==
  ASSUME TypeInv, Safe, ConvInv, NEW r \in Requests, NEW u \in Users, NEW action \in Reads,
         NEW v \in DOMAIN versions, ReadVersion(r, u, action, v)
  PROVE  ConvInv'
<1>1. v \in Nat /\ versions[v].path \in Nat /\ versions[v].pdf \in Nat
  <2>1. versions[v] \in VersionRows
    BY DEF TypeInv, TypeOK
  <2> QED BY <2>1 DEF VersionRows, TypeInv, TypeOK
<1>2. up /\ req[r] = Idle /\ UNCHANGED <<files, system, cut>>
  BY DEF ReadVersion, Begin
<1>3. CASE office /\ ~Kept(v)
  <2>0. PICK c : c = versions[v].path
    OBVIOUS
  <2> DEFINE held == New("convert", action, u, v, c)
  <2>1. held \in Held /\ held.pc = "convert" /\ held.path = c
    BY <1>1, <2>0, NewHeld DEF New, Reads
  <2>2. Begin(r, held) /\ crossed' = crossed \cup ({c} \cap Converting)
    BY <1>3, <2>0 DEF ReadVersion
  <2> HIDE DEF held
  <2>3. req'[r] = held /\ \A q \in Requests : q # r => req'[q] = req[q]
    BY <2>1, <2>2, Slot DEF TypeInv
  <2>4. versions' = versions /\ contents' = contents /\ backup' = backup /\ up'
    BY <1>2 DEF files, system
  <2>5. InsertsDiffer'
    BY <2>1, <2>3, <2>4 DEF ConvInv, InsertsDiffer
  <2>6. ASSUME NEW o \in Nat \ {0}, o \notin Excused' PROVE Once(o)'
    <3>1. Once(o) /\ (o = c => c \notin Converting)
      BY <1>2, <2>2, <2>6 DEF ConvInv, Excused
    <3>2. \A q \in Requests : Works(q, o)' => Works(q, o) \/ (q = r /\ o = c)
      BY <2>1, <2>3, <2>4 DEF Works
    <3>3. o = c => \A q \in Requests : ~Works(q, o)
      BY <3>1 DEF Works, Converting
    <3>4. \A w \in DOMAIN versions : versions[w].path = c => versions[w].pdf = 0
      BY <1>3, <2>0 DEF ConvInv, PathsDiffer, Kept
    <3>5. \A p : AboutToKeep(p) => AboutToKeep(p)'
      BY <1>2, <2>3 DEF AboutToKeep, Idle
    <3>6. \A p : KeptFor(o, p)' <=> KeptFor(o, p)
      BY <2>4 DEF KeptFor
    <3> QED BY <2>4, <3>1, <3>2, <3>3, <3>4, <3>5, <3>6 DEF Once
  <2> QED BY <2>4, <2>5, <2>6 DEF ConvInv, PathsDiffer
<1>4. CASE ~(office /\ ~Kept(v))
  <2> DEFINE path == IF office THEN versions[v].pdf ELSE versions[v].path
             held == New("stamp", action, u, v, path)
  <2>1. held \in Held /\ held.pc = "stamp"
    BY <1>1, NewHeld DEF New, Reads
  <2>2. Begin(r, held) /\ crossed' = crossed
    BY <1>4 DEF ReadVersion
  <2> HIDE DEF held
  <2> QED BY <1>2, <2>1, <2>2, MoveConv DEF Idle
<1> QED BY <1>3, <1>4

\* The request that converts stores the PDF it is about to keep.
LEMMA ConvertConv ==
  ASSUME TypeInv, Safe, ConvInv, NEW r \in Requests, Convert(r)
  PROVE  ConvInv'
<1>1. req[r] \in Held /\ req[r].pc = "convert" /\ up
  BY Holding DEF Convert
<1>2. UNCHANGED <<versions, system, crossed, cut>>
  BY DEF Convert
<1>0. PICK n, c : n = Len(contents) + 1 /\ c = req[r].path
  OBVIOUS
<1> DEFINE held == [req[r] EXCEPT !.pc = "keep", !.path = n]
<1>3. CASE Store(c) /\ Hold(r, held)
  <2>1. n \in Nat /\ n \notin DOMAIN contents /\ c \in Nat
    BY <1>0, <1>1 DEF TypeInv, TypeOK, Held
  <2>2. held \in Held /\ held.pc = "keep" /\ held.path = n
    BY <1>1, <2>1 DEF Held
  <2>3. /\ DOMAIN contents' = DOMAIN contents \cup {n}
        /\ \A p \in DOMAIN contents : contents'[p] = contents[p]
        /\ contents'[n] = c
    BY <1>0, <1>3, <2>1 DEF Store, TypeInv, TypeOK
  <2> HIDE DEF held
  <2>4. req'[r] = held /\ \A q \in Requests : q # r => req'[q] = req[q]
    BY <1>3, <2>2, Slot DEF TypeInv
  <2>5. \A q \in Requests : req[q].pc = "keep" => req[q].path \in DOMAIN contents
    BY DEF TypeInv
  <2>6. InsertsDiffer'
    BY <1>2, <2>2, <2>4 DEF ConvInv, InsertsDiffer
  <2>7. ASSUME NEW o \in Nat \ {0}, o \notin Excused' PROVE Once(o)'
    <3>1. Once(o)
      BY <1>1, <1>2, <2>7 DEF ConvInv, Excused
    <3>2. \A q \in Requests : Works(q, o)' => Works(q, o)
      BY <1>0, <1>1, <2>1, <2>2, <2>3, <2>4, <2>5 DEF Works
    <3>3. \A p : AboutToKeep(p) => AboutToKeep(p)'
      BY <1>1, <2>4 DEF AboutToKeep
    <3>4. AboutToKeep(n)'
      BY <2>2, <2>4 DEF AboutToKeep
    <3>5. \A p : KeptFor(o, p)' <=> KeptFor(o, p)
      BY <1>2 DEF KeptFor
    <3>6. \A p \in DOMAIN contents' :
            contents'[p] = o => p = n \/ (p \in DOMAIN contents /\ contents[p] = o)
      BY <2>3
    <3> QED BY <1>2, <3>1, <3>2, <3>3, <3>4, <3>5, <3>6 DEF Once
  <2> QED BY <1>1, <1>2, <2>6, <2>7 DEF ConvInv, PathsDiffer, system
<1>4. CASE End(r) /\ UNCHANGED contents
  <2> QED BY <1>1, <1>2, <1>4, MoveConv DEF End, Idle, files
<1> QED BY <1>0, <1>3, <1>4 DEF Convert

\* The PDF is kept, unless the triggers cut the content short.
LEMMA KeepConv ==
  ASSUME TypeInv, Safe, ConvInv, NEW r \in Requests, Keep(r)
  PROVE  ConvInv'
<1>1. req[r] \in Held /\ req[r].pc = "keep" /\ up
  BY Holding DEF Keep
<1>2. UNCHANGED <<contents, system, crossed>>
  BY DEF Keep
<1>3. CASE triggers
  <2>1. /\ Hold(r, Idle) /\ UNCHANGED files /\ Idle.pc = "idle"
        /\ cut' = cut \cup {contents[req[r].path]}
    BY <1>2, <1>3 DEF Keep, End, files, Idle
  <2> QED BY <1>1, <1>2, <2>1, MoveConv
<1>4. CASE ~triggers
  <2> DEFINE held == [req[r] EXCEPT !.pc = "stamp"]
  <2>1. PICK v, path : v = req[r].version /\ path = req[r].path
    OBVIOUS
  <2>2. held \in Held /\ held.pc = "stamp"
    BY <1>1 DEF Held
  <2>3. v \in DOMAIN versions /\ path \in DOMAIN contents /\ contents[path] = versions[v].path
    BY <1>1, <2>1 DEF Safe, Right, Original, Reads
  <2>4. versions \in Seq(VersionRows) /\ versions[v] \in VersionRows
    BY <2>3 DEF TypeInv, TypeOK
  <2>5. /\ DOMAIN versions' = DOMAIN versions
        /\ versions'[v].path = versions[v].path /\ versions'[v].pdf = path
        /\ \A w \in DOMAIN versions : w # v => versions'[w] = versions[w]
    <3> DEFINE row == [versions[v] EXCEPT !.pdf = path]
    <3>1. versions' = [versions EXCEPT ![v] = row]
      BY <1>4, <2>1 DEF Keep
    <3>2. row.path = versions[v].path /\ row.pdf = path
      BY <2>4 DEF VersionRows
    <3> HIDE DEF row
    <3> QED BY <2>3, <2>4, <3>1, <3>2
  <2>6. Hold(r, held) /\ cut' = cut
    BY <1>4 DEF Keep, Move
  <2> HIDE DEF held
  <2>7. req'[r] = held /\ \A q \in Requests : q # r => req'[q] = req[q]
    BY <2>2, <2>6, Slot DEF TypeInv
  <2>8. \A w \in DOMAIN versions : versions'[w].path = versions[w].path
    BY <2>5
  <2>9. PathsDiffer(versions)' /\ InsertsDiffer'
    BY <2>2, <2>5, <2>7, <2>8 DEF ConvInv, PathsDiffer, InsertsDiffer
  <2>10. ASSUME NEW o \in Nat \ {0}, o \notin Excused' PROVE Once(o)'
    <3>1. Once(o)
      BY <1>1, <1>2, <2>6, <2>10 DEF ConvInv, Excused
    <3>2. \A q \in Requests : Works(q, o)' => Works(q, o) /\ q # r
      BY <1>2, <2>2, <2>7 DEF Works
    <3>3. versions[v].path = o => Works(r, o)
      BY <1>1, <2>1, <2>3 DEF Works
    <3>4. \A q \in Requests, w \in DOMAIN versions :
            Works(q, o)' /\ versions[w].path = o => w # v /\ versions[w].pdf = 0
      BY <3>1, <3>2, <3>3 DEF Once
    <3>5. ASSUME NEW p \in DOMAIN contents, contents[p] = o
          PROVE  KeptFor(o, p)' \/ AboutToKeep(p)'
      <4>1. CASE KeptFor(o, p)
        <5>1. PICK w \in DOMAIN versions : versions[w].path = o /\ versions[w].pdf = p
          BY <4>1 DEF KeptFor
        <5>2. 0 \notin DOMAIN contents
          BY DEF TypeInv, TypeOK
        <5>3. w # v
          BY <3>1, <3>3, <5>1, <5>2 DEF Once
        <5> QED BY <2>5, <5>1, <5>3 DEF KeptFor
      <4>2. CASE AboutToKeep(p)
        <5>1. PICK q \in Requests : req[q].pc = "keep" /\ req[q].path = p
          BY <4>2 DEF AboutToKeep
        <5>2. CASE q = r
          BY <2>1, <2>3, <2>5, <3>5, <5>1, <5>2 DEF KeptFor
        <5>3. CASE q # r
          BY <2>7, <5>1, <5>3 DEF AboutToKeep
        <5> QED BY <5>2, <5>3
      <4> QED BY <3>1, <3>5, <4>1, <4>2 DEF Once
    <3> QED BY <1>2, <2>5, <2>8, <3>1, <3>2, <3>4, <3>5 DEF Once
  <2> QED BY <1>1, <1>2, <2>9, <2>10 DEF ConvInv, PathsDiffer, system
<1> QED BY <1>3, <1>4

LEMMA MoveOnConv ==
  ASSUME TypeInv, ConvInv, NEW r \in Requests,
         Stamp(r) \/ RecordRow(r) \/ MarkRow(r) \/ Send(r) \/ Abort(r)
  PROVE  ConvInv'
<1>1. req[r] \in Held /\ up
  BY Holding DEF Stamp, RecordRow, MarkRow, Send, Abort, Busy
<1>2. UNCHANGED <<files, system, crossed>> /\ cut \subseteq cut'
  BY DEF Stamp, RecordRow, MarkRow, Send, Abort
<1>3. CASE Stamp(r)
  <2> DEFINE held == [req[r] EXCEPT !.pc = "record", !.at = now]
  <2>1. held \in Held /\ held.pc = "record"
    BY <1>1 DEF Held, TypeInv, TypeOK
  <2>2. Hold(r, held) /\ req[r].pc = "stamp"
    BY <1>3 DEF Stamp
  <2> HIDE DEF held
  <2> QED BY <1>1, <1>2, <2>1, <2>2, MoveConv
<1>4. CASE RecordRow(r)
  <2> DEFINE next == IF req[r].op = "REPORT_EXPORTED" THEN "send" ELSE "mark"
             held == [req[r] EXCEPT !.row = Len(trail) + 1, !.pc = next]
  <2>1. held \in Held /\ held.pc \in {"send", "mark"}
    <3>1. Len(trail) + 1 \in Nat
      BY DEF TypeInv, TypeOK
    <3> QED BY <1>1, <3>1 DEF Held
  <2>2. Hold(r, held) /\ req[r].pc = "record"
    BY <1>4 DEF RecordRow
  <2> HIDE DEF held
  <2> QED BY <1>1, <1>2, <2>1, <2>2, MoveConv
<1>5. CASE MarkRow(r)
  <2> DEFINE held == [req[r] EXCEPT !.pc = "send"]
  <2>1. held \in Held /\ held.pc = "send"
    BY <1>1 DEF Held
  <2>2. Hold(r, held) /\ req[r].pc = "mark"
    BY <1>5 DEF MarkRow, Move
  <2> HIDE DEF held
  <2> QED BY <1>1, <1>2, <2>1, <2>2, MoveConv
<1>6. CASE Send(r) \/ Abort(r)
  <2>1. Hold(r, Idle) /\ (req[r].pc = "keep" => contents[req[r].path] \in cut')
    BY <1>6 DEF Send, Abort, End
  <2> QED BY <1>1, <1>2, <2>1, MoveConv DEF Idle
<1> QED BY <1>3, <1>4, <1>5, <1>6

LEMMA BackupConv ==
  ASSUME TypeInv, Safe, ConvInv, TakeCopy \/ StopBackend \/ RestoreDb \/ RestoreUploads
  PROVE  ConvInv'
<1>1. backup \in Copies
  BY DEF TypeInv, TypeOK, Copies
<1>2. CASE TakeCopy
  <2>1. up /\ up' /\ UNCHANGED <<files, req, crossed, cut>>
    BY <1>2 DEF TakeCopy
  <2>2. backup'.versions \in {versions, backup.versions}
    BY <1>1, <1>2 DEF TakeCopy, Copies
  <2>3. PathsDiffer(backup.versions)'
    BY <2>1, <2>2 DEF ConvInv, PathsDiffer, files
  <2> QED BY <2>1, <2>3, QuietConv
<1>3. CASE StopBackend
  <2>1. /\ up /\ ~up' /\ UNCHANGED <<versions, contents, backup, crossed, cut>>
        /\ \A r \in Requests : req'[r] = Idle
    BY <1>3 DEF StopBackend, files
  <2>2. ConvertedOnce'
    BY <2>1, NowOnce DEF ConvertedOnce
  <2> QED BY <2>1, <2>2 DEF ConvInv, PathsDiffer, InsertsDiffer, Idle
<1>4. CASE RestoreDb
  <2>1. /\ ~up /\ ~up' /\ versions' = backup.versions /\ UNCHANGED <<contents, crossed, cut>>
        /\ \A r \in Requests : req'[r] = Idle
        /\ backup' = [backup EXCEPT !.restored = 1]
    BY <1>4 DEF RestoreDb, TypeInv
  <2>2. backup'.versions = backup.versions
    BY <1>1, <2>1, Restoring
  <2> QED BY <2>1, <2>2 DEF ConvInv, ConvertedOnce, PathsDiffer, InsertsDiffer, Idle
<1>5. CASE RestoreUploads
  <2>1. /\ ~up /\ up' /\ contents' = backup.contents /\ versions' = versions
        /\ \A r \in Requests : req'[r] = Idle
        /\ backup' = [backup EXCEPT !.restored = 2]
        /\ cut' = cut \cup {backup.contents[p] : p \in DOMAIN backup.contents}
    BY <1>5 DEF RestoreUploads, TypeInv
  <2>2. backup'.versions = backup.versions
    BY <1>1, <2>1, Restoring
  <2>3. ASSUME NEW o \in Nat \ {0}, o \notin Excused' PROVE Once(o)'
    BY <2>1, <2>3 DEF Once, Works, Excused, Idle
  <2> QED BY <2>1, <2>2, <2>3 DEF ConvInv, PathsDiffer, InsertsDiffer, Idle
<1> QED BY <1>2, <1>3, <1>4, <1>5

LEMMA InitConv == Init => ConvInv
<1> SUFFICES ASSUME Init PROVE ConvInv
  OBVIOUS
<1>1. \A r \in Requests : req[r].pc = "idle"
  BY DEF Init, Idle
<1> QED BY <1>1 DEF Init, ConvInv, Once, Works, PathsDiffer, InsertsDiffer

LEMMA NextConv == TypeInv /\ Safe /\ ConvInv /\ [Next]_vars => ConvInv'
<1> SUFFICES ASSUME TypeInv, Safe, ConvInv, [Next]_vars PROVE ConvInv'
  OBVIOUS
<1>1. ASSUME NEW r \in Requests, NEW u \in Users, SaveVersion(r, u) PROVE ConvInv'
  BY <1>1, SaveVersionConv
<1>2. ASSUME NEW r \in Requests, NEW u \in Users, Export(r, u) PROVE ConvInv'
  <2> DEFINE held == New("stamp", "REPORT_EXPORTED", u, 0, 0)
  <2>1. held \in Held /\ held.pc = "stamp"
    BY NewHeld DEF New
  <2>2. Begin(r, held) /\ up /\ req[r].pc = "idle" /\ UNCHANGED <<files, system, crossed, cut>>
    BY <1>2 DEF Export, Begin, Idle
  <2> HIDE DEF held
  <2> QED BY <2>1, <2>2, MoveConv
<1>3. ASSUME NEW r \in Requests, NEW u \in Users, NEW action \in Reads,
             NEW v \in DOMAIN versions, ReadVersion(r, u, action, v)
      PROVE  ConvInv'
  BY <1>3, ReadVersionConv
<1>4. ASSUME NEW r \in Requests, Step(r) \/ Abort(r) PROVE ConvInv'
  BY <1>4, InsertVersionConv, ConvertConv, KeepConv, MoveOnConv DEF Step
<1>5. CASE TakeCopy \/ StopBackend \/ RestoreDb \/ RestoreUploads
  BY <1>5, BackupConv
<1>6. CASE \/ up /\ TrailNext /\ UNCHANGED <<files, system, req, begun, served, crossed, cut>>
           \/ UNCHANGED vars
  <2>1. UNCHANGED <<versions, contents, up, backup, req, crossed, cut>>
    BY <1>6 DEF vars, files, system
  <2>2. CASE up
    <3>1. PathsDiffer(backup.versions)' /\ UNCHANGED files
      BY <2>1 DEF ConvInv, PathsDiffer, files
    <3> QED BY <2>1, <2>2, <3>1, QuietConv
  <2>3. CASE ~up
    BY <2>1, <2>3 DEF ConvInv, PathsDiffer, InsertsDiffer, ConvertedOnce
  <2> QED BY <2>2, <2>3
<1> QED BY <1>1, <1>2, <1>3, <1>4, <1>5, <1>6 DEF Next, Reads

\* Whatever first readers, cut requests, backups and restores interleave, an Office
\* content has two PDFs only if two requests converted it at once, or one of its PDFs
\* was stored and not kept.
THEOREM OnePdfPerContent == Spec => []ConvertedOnce
<1>1. TypeInv /\ Safe /\ ConvInv => ConvertedOnce
  BY NowOnce DEF ConvInv
<1> QED BY <1>1, InitTypes, NextTypes, InitSafe, NextSafe, InitConv, NextConv, PTL DEF Spec
=============================================================================
