---------------------------- MODULE ChunkedUpload ----------------------------
(***************************************************************************)
(* One artifact of a scan on its way to Analyzer (telemetry_chunks.py,      *)
(* analyzer_client.py, derived_reconciler.py, and of Analyzer the status    *)
(* and the lineage of an upload).  The artifact is split into envelopes     *)
(* that fit; they are posted one after the other, and all of them again by  *)
(* the next attempt when one fails.  Analyzer finishes each on its own.     *)
(***************************************************************************)
EXTENDS Naturals, FiniteSets, SequencesExt

CONSTANTS
  Contents,     \* artifacts: sequences of streams, a stream a sequence of rows
                \* [bytes, matches]
  MaxItems,     \* MAX_ENVELOPE_ITEMS
  MaxMatches,   \* MAX_THREAT_MATCHES
  MaxBytes,     \* MAX_FORWARD_BODY_BYTES
  EmptyBytes,   \* size of an envelope without rows and with the longest identifier
  IdExcess,     \* bytes by which a real header exceeds that
  MaxPosts      \* bound on the attempts to hand the artifact off

ASSUME UploadAssumption ==
  /\ {MaxItems, MaxMatches} \subseteq Nat \ {0}
  /\ {MaxBytes, EmptyBytes, IdExcess, MaxPosts} \subseteq Nat /\ EmptyBytes <= MaxBytes
  /\ Contents \subseteq Seq(Seq([bytes : Nat, matches : Nat]))

VARIABLES
  content,   \* the artifact in the spool
  todo,      \* pieces still to be packed
  part,      \* the envelope being filled: its streams, and its size
  chunks,    \* envelopes so far
  phase,     \* "pack", "send", "accepted", or how the hand-off ended
  posts,     \* attempts left
  acks,      \* states acknowledged in this attempt, one per chunk
  task,      \* [chunk numbers -> state of its ledger row]
  stored,    \* chunks whose raw row is stored
  derived,   \* derived_state of the result of the job
  pruned     \* a ledger row of the upload has aged out

upVars == <<content, todo, part, chunks, phase, posts, acks, task, stored, derived, pruned>>
packVars == <<content, todo, part, chunks>>

Streams == 1 .. Len(content)
Numbers == 1 .. Len(chunks)

(***************************************************************************)
(* Parsing: a row with too many threat matches becomes several pieces, in  *)
(* its place.                                                              *)
(***************************************************************************)
Parts(row) == IF row.matches = 0 THEN 1 ELSE (row.matches + MaxMatches - 1) \div MaxMatches
Pieces ==
  UNION {UNION {{[s |-> s, row |-> n, nth |-> i] : i \in 1 .. Parts(content[s][n])} :
                  n \in 1 .. Len(content[s])} : s \in Streams}

Precedes(p, q) ==
  \/ p.s < q.s
  \/ p.s = q.s /\ (p.row < q.row \/ (p.row = q.row /\ p.nth < q.nth))

RowOf(p) == content[p.s][p.row]
Shown(p) == {x \in 1 .. RowOf(p).matches : (p.nth - 1) * MaxMatches < x /\ x <= p.nth * MaxMatches}
BytesOf(p) == RowOf(p).bytes + Cardinality(Shown(p))

(***************************************************************************)
(* split_asset_report, split_trace_batch.                                  *)
(***************************************************************************)
Blank(streams) == [rows |-> [s \in 1 .. streams |-> <<>>], bytes |-> EmptyBytes]

\* A variant: the comma between two rows is not counted.
SeparatorForgotten(rows) == 0

Separator(rows) == IF rows = <<>> THEN 0 ELSE 1

\* flush: an envelope without rows is not kept.
Flushed(p) == IF \A s \in Streams : p.rows[s] = <<>> THEN chunks ELSE Append(chunks, p)

Exceeds(p, x) ==
  Len(p.rows[x.s]) >= MaxItems \/ p.bytes + Separator(p.rows[x.s]) + BytesOf(x) > MaxBytes

Add(p, x) ==
  [rows |-> [p.rows EXCEPT ![x.s] = Append(@, x)],
   bytes |-> p.bytes + Separator(p.rows[x.s]) + BytesOf(x)]

\* Stream after stream, row after row.
NextPiece == CHOOSE x \in todo : \A y \in todo : y = x \/ Precedes(x, y)

\* A row that does not fit into an envelope of its own is an error.
PackNext ==
  LET x == NextPiece
      flush == Exceeds(part, x)
      p == IF flush THEN Blank(Len(content)) ELSE part
  IN  /\ phase = "pack" /\ todo # {}
      /\ chunks' = IF flush THEN Flushed(part) ELSE chunks
      /\ IF p.bytes + BytesOf(x) > MaxBytes
           THEN phase' = "refused" /\ UNCHANGED <<todo, part>>
           ELSE part' = Add(p, x) /\ todo' = todo \ {x} /\ UNCHANGED phase
      /\ UNCHANGED <<content, posts, acks, task, stored, derived, pruned>>

\* The size of an envelope as it is serialised: a comma before every row but the first
\* of its stream.
Encoded(c, s, j) == {<<s, j>>} \X (1 .. BytesOf(c.rows[s][j]) + (IF j = 1 THEN 0 ELSE 1))
Serialised(c) ==
  EmptyBytes
    + Cardinality(UNION {UNION {Encoded(c, s, j) : j \in 1 .. Len(c.rows[s])} : s \in Streams})

\* The last flush, one envelope at least, and a check of every size.
FinishPacking ==
  LET all == IF Flushed(part) = <<>> THEN <<part>> ELSE Flushed(part)
  IN  /\ phase = "pack" /\ todo = {}
      /\ chunks' = all
      /\ part' = Blank(Len(content))
      /\ phase' = IF \E i \in 1 .. Len(all) : Serialised(all[i]) + IdExcess > MaxBytes
                    THEN "broken" ELSE "send"
      /\ task' = [i \in 1 .. Len(all) |-> "absent"]
      /\ UNCHANGED <<content, todo, posts, acks, stored, derived, pruned>>

(***************************************************************************)
(* ingest_asset_report, ingest_trace_batch: one request per envelope.      *)
(***************************************************************************)
Rank(state) == CASE state = "complete" -> 0 [] state = "partial" -> 1 [] OTHER -> 2
Worst(states) == CHOOSE x \in states : \A y \in states : Rank(y) <= Rank(x)

Posting == phase = "send" /\ Len(acks) < Len(chunks)

\* submit: a key that is known replays the state of its row.
Submitted(i) == [task EXCEPT ![i] = IF @ = "absent" THEN "pending" ELSE @]

PostAcknowledged ==
  LET i == Len(acks) + 1
  IN  /\ Posting
      /\ task' = Submitted(i)
      /\ acks' = Append(acks, Submitted(i)[i])
      /\ UNCHANGED <<packVars, phase, posts, stored, derived, pruned>>

\* The inline handler has processed the envelope when it answers.
PostProcessed ==
  LET i == Len(acks) + 1
  IN  /\ Posting /\ task[i] \in {"absent", "pending"}
      /\ \E state \in {"complete", "partial"} :
           task' = [task EXCEPT ![i] = state] /\ acks' = Append(acks, state)
      /\ stored' = stored \union {i}
      /\ UNCHANGED <<packVars, phase, posts, derived, pruned>>

\* No answer, or an error: the envelope may have been accepted, its raw row stored.
\* The next attempt begins with the first envelope.
PostFails ==
  LET i == Len(acks) + 1
  IN  /\ Posting
      /\ \/ UNCHANGED <<task, stored>>
         \/ task' = Submitted(i) /\ stored' \in {stored, stored \union {i}}
      /\ IF posts > 1 THEN posts' = posts - 1 /\ acks' = <<>> /\ UNCHANGED phase
                      ELSE phase' = "failed" /\ UNCHANGED <<posts, acks>>
      /\ UNCHANGED <<packVars, derived, pruned>>

\* _set_aggregate_derived_outcome, of every envelope.
Accept ==
  /\ phase = "send" /\ Len(acks) = Len(chunks)
  /\ phase' = "accepted"
  /\ derived' = Worst(ToSet(acks))
  /\ UNCHANGED <<packVars, posts, acks, task, stored, pruned>>

(***************************************************************************)
(* Analyzer, and the reconciler of Form.                                   *)
(***************************************************************************)
Process(i) ==
  /\ i \in DOMAIN task /\ task[i] = "pending"
  /\ \E state \in {"complete", "partial"} : task' = [task EXCEPT ![i] = state]
  /\ stored' = stored \union {i}
  /\ UNCHANGED <<packVars, phase, posts, acks, derived, pruned>>

\* A finished row ages out of the ledger.
Prune(i) ==
  /\ i \in DOMAIN task /\ task[i] \in {"complete", "partial"} /\ ~pruned
  /\ task' = [task EXCEPT ![i] = "absent"]
  /\ pruned' = TRUE
  /\ UNCHANGED <<packVars, phase, posts, acks, stored, derived>>

\* get_ingest_status aggregates the rows that are left; none is a 404.
Reconcile ==
  LET left == {task[i] : i \in Numbers} \ {"absent"}
  IN  /\ phase = "accepted" /\ derived = "pending" /\ left # {}
      /\ derived' = Worst(left)
      /\ UNCHANGED <<packVars, phase, posts, acks, task, stored, pruned>>

\* _lineage_rows: how many envelopes the stored identifiers declare, none by the
\* first alone, and whether all of them are there.
Expected == IF stored \ {1} = {} THEN 0 ELSE Len(chunks)
LineageComplete == Expected > 0 /\ stored = 1 .. Expected

UploadInit ==
  /\ content \in Contents
  /\ todo = Pieces
  /\ part = Blank(Len(content)) /\ chunks = <<>> /\ phase = "pack" /\ posts = MaxPosts
  /\ acks = <<>> /\ task = <<>> /\ stored = {} /\ derived = "pending" /\ pruned = FALSE

UploadNext ==
  \/ PackNext \/ FinishPacking
  \/ PostAcknowledged \/ PostProcessed \/ PostFails \/ Accept
  \/ \E i \in Numbers : Process(i) \/ Prune(i)
  \/ Reconcile

UploadSpec == UploadInit /\ [][UploadNext]_upVars

(***************************************************************************)
(* Properties.                                                             *)
(***************************************************************************)
\* Where the pieces of one stream are: envelope, and place in it.
Slots(s) == UNION {{<<i, j>> : j \in 1 .. Len(chunks[i].rows[s])} : i \in Numbers}
InSlot(s, x) == chunks[x[1]].rows[s][x[2]]
Earlier(x, y) == x[1] < y[1] \/ (x[1] = y[1] /\ x[2] < y[2])

\* What was split is within the limits and, put together, the artifact: every row in
\* its order, every threat match once.
SplitIsLossless ==
  /\ \A i \in Numbers : /\ Serialised(chunks[i]) <= MaxBytes
                        /\ \A s \in Streams : Len(chunks[i].rows[s]) <= MaxItems
  /\ \A s \in Streams :
       /\ {InSlot(s, x) : x \in Slots(s)} = {p \in Pieces : p.s = s}
       /\ \A x, y \in Slots(s) : Earlier(x, y) => Precedes(InSlot(s, x), InSlot(s, y))
       /\ \A n \in 1 .. Len(content[s]) :
            LET own == {p \in Pieces : p.s = s /\ p.row = n}
            IN  /\ UNION {Shown(p) : p \in own} = 1 .. content[s][n].matches
                /\ \A p, q \in own : p # q => Shown(p) \intersect Shown(q) = {}

\* An artifact is refused only for a row that fits into no envelope.  One that is
\* accepted, after however many interrupted attempts, has every envelope stored or
\* waiting at Analyzer; a settled derived state is the worst of all envelopes, and the
\* lineage is then complete, unless a ledger row has aged out before it was asked for
\* (split_asset_report, ingest_asset_report, _aggregate_task_state, _lineage_rows).
UploadIsWhole ==
  /\ phase = "refused" => EmptyBytes + BytesOf(NextPiece) > MaxBytes
  /\ phase # "broken"
  /\ phase \in {"send", "accepted", "failed"} => SplitIsLossless
  /\ phase = "accepted" => \A i \in Numbers : i \in stored \/ task[i] = "pending"
  /\ phase = "accepted" /\ derived # "pending" /\ ~pruned =>
       /\ derived = Worst({task[i] : i \in Numbers})
       /\ Len(chunks) > 1 => LineageComplete
=============================================================================
