------------------------------ MODULE RecordStore ------------------------------
(***************************************************************************)
(* Analyzer's record stores and their readers (storage/sqlite.py,           *)
(* storage/jsonl.py, api/reports.py, report_projection_cache.py,            *)
(* api/alerts.py).  The ingest worker appends from its own thread while a   *)
(* request reads in several queries: by cursor, by offset, or a projection  *)
(* of the rows of one logical upload over two stores, kept in a cache under *)
(* the fingerprints of those rows.                                          *)
(***************************************************************************)
EXTENDS Naturals, FiniteSets, FiniteSetsExt

CONSTANTS
  Keys,        \* logical uploads or alerts
  Backends,    \* subset of {"sqlite", "jsonl"}
  MaxRows,     \* retention cap of a store
  PageSize,    \* rows a query returns at most
  MaxId,       \* [Stores -> bound on the rows appended to the store]
  MaxTears,    \* bound on appends that fail in the middle
  MaxBurst     \* bound on the rows appended while one projection is built: less than
               \* what a file that has just been rolled down retains

Stores == {"reports", "detections"}

ASSUME RecordAssumption ==
  /\ Backends \subseteq {"sqlite", "jsonl"}
  /\ MaxRows \in Nat \ {0, 1} /\ PageSize \in Nat \ {0} /\ MaxId \in [Stores -> Nat]
  /\ MaxTears \in Nat /\ MaxBurst \in 0 .. MaxRows \div 2

VARIABLES
  backend,
  rows,     \* [Stores -> the retained lines or rows, a function from their ids to keys]
  lastId,   \* [Stores -> id of the newest line ever written]
  file,     \* [Stores -> how often retention has replaced the JSONL file]
  torn,     \* [Stores -> BOOLEAN]: the JSONL file ends with half a line
  cache,    \* [Keys -> projection entry: set of at most one]
  req,      \* the request under way
  burst,    \* appends since it began, when it is a projection
  tears

recVars == <<backend, rows, lastId, file, torn, cache, req, burst, tears>>
storeVars == <<backend, rows, lastId, file, torn, burst, tears>>

Corrupt == "corrupt"   \* the key of a line that does not parse
Idle == [kind |-> "none"]
ProjectionKinds == {"before", "build", "after", "served", "unstable"}

Ids(s) == DOMAIN rows[s]
Newer(S, x) == {y \in S : y > x}
Newest(S, n) == {x \in S : Cardinality(Newer(S, x)) < n}

(***************************************************************************)
(* append: retention makes room first, then one row is written.            *)
(***************************************************************************)
\* By number SQLite drops the oldest rows that are too many, and JSONL rolls down to
\* half the cap.
Most(s) ==
  LET n == Cardinality(Ids(s))
  IN  IF n < MaxRows THEN n
      ELSE IF backend = "sqlite" THEN MaxRows - 1 ELSE (MaxRows \div 2) - 1

\* By bytes any more of the oldest, as the sizes have it: though what is appended while a
\* projection is built is taken to fit, like MaxBurst.
Keeps(s) == {keep \in 0 .. Most(s) : keep = Most(s) \/ keep >= burst}

Retained(s, keep) == Newest(Ids(s), keep)

Trimmed(s, keep) ==
  file' = [file EXCEPT ![s] = IF backend = "jsonl" /\ Retained(s, keep) # Ids(s)
                                THEN @ + 1 ELSE @]

Counted ==
  IF req.kind \in ProjectionKinds THEN burst < MaxBurst /\ burst' = burst + 1
  ELSE burst' = 0

\* In a JSONL file that ends with half a line the new row completes that line.
Written(s, k, keep) ==
  LET old == Retained(s, keep)
      new == IF torn[s] /\ old # {} THEN {} ELSE {lastId[s] + 1}
  IN  [x \in old \union new |-> IF x \in new THEN k ELSE rows[s][x]]

AppendRow(s, k) ==
  /\ lastId[s] < MaxId[s] /\ Counted
  /\ lastId' = [lastId EXCEPT ![s] = @ + 1]
  /\ \E keep \in Keeps(s) :
       Trimmed(s, keep) /\ rows' = [rows EXCEPT ![s] = Written(s, k, keep)]
  /\ torn' = [torn EXCEPT ![s] = FALSE]
  /\ UNCHANGED <<backend, cache, req, tears>>

\* An append that fails in the middle: SQLite rolls back, a JSONL file keeps the
\* bytes that were written.  The disk is full, or the process dies, and with it the
\* request and the cache.
TearRow(s) ==
  /\ tears < MaxTears /\ lastId[s] < MaxId[s]
  /\ tears' = tears + 1
  /\ \/ Counted /\ UNCHANGED <<req, cache>>
     \/ req' = Idle /\ cache' = [k \in Keys |-> {}] /\ burst' = 0
  /\ IF backend = "jsonl"
       THEN /\ \E keep \in Keeps(s) :
                 Trimmed(s, keep) /\ rows' = [rows EXCEPT ![s] = Written(s, Corrupt, keep)]
            /\ lastId' = [lastId EXCEPT ![s] = @ + 1]
            /\ torn' = [torn EXCEPT ![s] = TRUE]
       ELSE UNCHANGED <<rows, file, lastId, torn>>
  /\ UNCHANGED backend

\* What every reader skips are the lines that do not parse.
Readable(s) == {x \in Ids(s) : rows[s][x] # Corrupt}

(***************************************************************************)
(* Reading by cursor: _cursor_rows and cursor_page.                        *)
(***************************************************************************)
\* The rows before an anchor.
Older(s, anchor) == {x \in Readable(s) : x < anchor}

\* A query returns some of the newest rows that are left, down to oldest; fewer than
\* asked for when they are too many bytes.
Page(left, oldest) == {x \in left : x >= oldest}

\* due are the rows the first query could see, got the rows returned.  A JSONL cursor is
\* an offset, kept as the row it points at, in one version of the file, and the identity
\* of the version that was checked.  History: twice, whether a row was returned again;
\* moved, whether a page came from another version than its offset.
Reading(kind, s) ==
  [kind |-> kind, s |-> s, anchor |-> lastId[s] + 1, offset |-> 0, file |-> file[s],
   ident |-> file[s], due |-> Readable(s), got |-> {}, twice |-> FALSE, moved |-> FALSE]

CursorPaged(r, left) ==
  \E oldest \in Newest(left, PageSize) :
    req' = [r EXCEPT !.anchor = oldest, !.got = @ \union Page(left, oldest),
                     !.twice = @ \/ r.got \intersect Page(left, oldest) # {},
                     !.moved = @ \/ file[r.s] # r.file,
                     !.file = file[r.s], !.kind = "more"]

\* The first page: SQLite queries, JSONL takes identity and size of the file.
StartCursor(s) ==
  /\ req.kind = "none" /\ Readable(s) # {}
  /\ IF backend = "jsonl" THEN req' = Reading("read", s)
     ELSE CursorPaged(Reading("read", s), Readable(s))
  /\ UNCHANGED <<storeVars, cache>>

\* A later page.  JSONL compares device and inode: the next version has another inode,
\* the one after it may have got that of a version that is gone.
CheckCursor ==
  /\ req.kind = "cursor"
  /\ \/ /\ file[req.s] = req.ident \/ file[req.s] > req.ident + 1
        /\ req' = [req EXCEPT !.kind = "read", !.ident = file[req.s]]
     \/ /\ file[req.s] # req.ident
        /\ req' = [req EXCEPT !.kind = "expired"]
  /\ UNCHANGED <<storeVars, cache>>

\* The file is opened again after the check.  In another version that has dropped its
\* oldest rows the same offset lies at a later row.
Cuts ==
  IF file[req.s] = req.file THEN {req.anchor}
  ELSE {a \in Ids(req.s) \union {req.anchor, lastId[req.s] + 1} : a >= req.anchor}

ReadPage ==
  /\ req.kind = "read"
  /\ \E cut \in Cuts :
       IF Older(req.s, cut) = {} THEN req' = [req EXCEPT !.kind = "done"]
       ELSE CursorPaged(req, Older(req.s, cut))
  /\ UNCHANGED <<storeVars, cache>>

\* has_more: a query of its own, or the file opened once more.
LookFurther ==
  /\ req.kind = "more"
  /\ \E further \in BOOLEAN :
       /\ Older(req.s, req.anchor) # {} => further
       /\ further => \E cut \in Cuts : Older(req.s, cut) # {}
       /\ req' = [req EXCEPT !.kind = IF further THEN "cursor" ELSE "done"]
  /\ UNCHANGED <<storeVars, cache>>

(***************************************************************************)
(* Reading by offset: _retained_rows, _page_rows and _guard_rows over       *)
(* tail(limit, offset).                                                    *)
(***************************************************************************)
StartScan(s) ==
  /\ req.kind = "none"
  /\ req' = Reading("scan", s)
  /\ UNCHANGED <<storeVars, cache>>

\* A variant: the next offset is computed from the page size asked for.
AdvanceByLimit(page) == req.offset + PageSize

Advance(page) == req.offset + Cardinality(page)

ScanPage ==
  LET left == Readable(req.s) \ Newest(Readable(req.s), req.offset)
  IN  /\ req.kind = "scan"
      /\ IF left = {}
           THEN req' = [req EXCEPT !.kind = "done"]
           ELSE \E oldest \in Newest(left, PageSize) :
                  req' = [req EXCEPT !.offset = Advance(Page(left, oldest)),
                                     !.got = @ \union Page(left, oldest)]
      /\ UNCHANGED <<storeVars, cache>>

(***************************************************************************)
(* _get_report_projection: every store is read in a query of its own, the   *)
(* reports first.                                                          *)
(***************************************************************************)
Lineage(s, k) == {x \in Ids(s) : rows[s][x] = k}

\* A variant: only the number of rows.
FingerprintCount(ids) == Cardinality(ids)

\* SQLite: number and newest id; JSONL: a digest of the rows.
Fingerprint(ids) ==
  IF backend = "jsonl" THEN ids ELSE <<Cardinality(ids), Max(ids \union {0})>>

Nothing == [s \in Stores |-> {}]
Started(k, round) ==
  [kind |-> "before", k |-> k, round |-> round, at |-> "reports", saw |-> Nothing,
   before |-> Nothing, build |-> Nothing, after |-> Nothing]

StartProjection(k) ==
  /\ req.kind = "none"
  /\ req' = Started(k, 1)
  /\ UNCHANGED <<storeVars, cache>>

After(s) == IF s = "reports" THEN "detections" ELSE "end"

\* _projection_fingerprint, before and after the build.
ReadFingerprint ==
  /\ req.kind \in {"before", "after"} /\ req.at # "end"
  /\ req' = IF req.kind = "before"
              THEN [req EXCEPT !.at = After(@), !.before[req.at] = Fingerprint(Lineage(req.at, req.k)),
                               !.saw[req.at] = Lineage(req.at, req.k)]
              ELSE [req EXCEPT !.at = After(@), !.after[req.at] = Fingerprint(Lineage(req.at, req.k))]
  /\ UNCHANGED <<storeVars, cache>>

\* cache.get: an entry with other fingerprints is dropped.
LookUp ==
  LET hits == {c \in cache[req.k] : c.fp = req.before}
  IN  /\ req.kind = "before" /\ req.at = "end"
      /\ cache' = [cache EXCEPT ![req.k] = hits]
      /\ req' = IF hits = {} THEN [req EXCEPT !.kind = "build", !.at = "reports"]
                ELSE [req EXCEPT !.kind = "served",
                                 !.build = (CHOOSE c \in hits : TRUE).value]
      /\ UNCHANGED storeVars

\* _build_report_projection: an upload without reports is a 404.
Build ==
  LET found == Lineage(req.at, req.k)
  IN  /\ req.kind = "build"
      /\ req' = CASE req.at = "reports" /\ found = {} -> [kind |-> "missing"]
                  [] req.at = "reports" /\ found # {} ->
                       [req EXCEPT !.at = "detections", !.build["reports"] = found]
                  [] req.at = "detections" ->
                       [req EXCEPT !.kind = "after", !.at = "reports",
                                   !.build["detections"] = found]
      /\ UNCHANGED <<storeVars, cache>>

\* What changed meanwhile is built once more and then returned as it is; what did not
\* goes into the cache, which may drop others for it, or not take it.
Conclude ==
  LET stable == req.before = req.after
      entry == [fp |-> req.after, value |-> req.build]
  IN  /\ req.kind = "after" /\ req.at = "end"
      /\ req' = IF stable THEN [req EXCEPT !.kind = "served"]
                ELSE IF req.round = 1 THEN Started(req.k, 2)
                ELSE [req EXCEPT !.kind = "unstable"]
      /\ \/ stable /\ \E keep \in SUBSET (Keys \ {req.k}) :
              cache' = [k \in Keys |-> IF k = req.k THEN {entry}
                                       ELSE IF k \in keep THEN cache[k] ELSE {}]
         \/ UNCHANGED cache
      /\ UNCHANGED storeVars

Answer ==
  /\ req.kind \in {"done", "expired", "missing", "served", "unstable"}
  /\ req' = Idle /\ burst' = 0
  /\ UNCHANGED <<backend, rows, lastId, file, torn, tears, cache>>

RecordInit ==
  /\ backend \in Backends
  /\ rows = [s \in Stores |-> [x \in {} |-> Corrupt]] /\ lastId = [s \in Stores |-> 0]
  /\ file = [s \in Stores |-> 0] /\ torn = [s \in Stores |-> FALSE]
  /\ cache = [k \in Keys |-> {}]
  /\ req = Idle /\ burst = 0 /\ tears = 0

RecordNext ==
  \/ \E s \in Stores : \/ \E k \in Keys : AppendRow(s, k)
                       \/ TearRow(s) \/ StartCursor(s) \/ StartScan(s)
  \/ \E k \in Keys : StartProjection(k)
  \/ CheckCursor \/ ReadPage \/ LookFurther
  \/ ScanPage \/ ReadFingerprint \/ LookUp \/ Build \/ Conclude \/ Answer

RecordSpec == RecordInit /\ [][RecordNext]_recVars

(***************************************************************************)
(* Properties.                                                             *)
(***************************************************************************)
\* Still retained: what retention has not dropped.
Due == req.due \intersect Readable(req.s)

\* A client that follows the cursors to the end, or a scan by offset (the alert list,
\* the page numbers), sees every row that was there when it began and still is, however
\* many rows are appended and dropped between two queries, and a JSONL file replaced
\* between a check and the read after it; by cursor it sees a row twice only when the
\* file was so replaced (cursor_page, _retained_rows).
ReadMissesNothing ==
  /\ req.kind = "done" => Due \subseteq req.got
  /\ req.kind \in {"cursor", "read", "more", "done"} => (req.twice => req.moved)

\* A projection that is served as current, from the cache or not, is what both stores
\* held when their fingerprints were read for this request (_get_report_projection).
ServedIsCurrent == req.kind = "served" => req.build = req.saw

=============================================================================
