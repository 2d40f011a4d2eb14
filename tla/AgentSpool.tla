------------------------------ MODULE AgentSpool ------------------------------
(***************************************************************************)
(* The upload spool of the resident agent (agent: agentd, spool.rs and     *)
(* ingest.rs).  Threads and processes of one host share a directory with a *)
(* file per envelope that could not be delivered.  Publishing, evicting    *)
(* and dead-lettering hold a file lock; replaying does not: it lists the   *)
(* directory entry by entry, posts file after file and removes each        *)
(* afterwards.  A process may die anywhere, and a file may be damaged (its *)
(* length taken to stay).  Names are ordered by time: turn is the place of *)
(* a file's name in that order.                                            *)
(***************************************************************************)
EXTENDS Naturals, Sequences, FiniteSets, SequencesExt

CONSTANTS
  Payloads,    \* envelopes, each handed to the uploader once
  Batches,     \* the payloads that are guard batches; the others are reports
  Size,        \* [Payloads -> bytes]
  Invalid,     \* payloads Form rejects for good (a 4xx that no retry or credential mends)
  Uploaders,   \* threads and processes
  QueueBytes,  \* FORM_SPOOL_MAX_BYTES
  DeadItems,   \* FORM_SPOOL_DEADLETTER_MAX_ITEMS
  DeadBytes,   \* FORM_SPOOL_DEADLETTER_MAX_BYTES
  MaxMishaps   \* bound on deaths, damage and failures of the file system

ASSUME SpoolAssumption ==
  /\ IsFiniteSet(Payloads) /\ Size \in [Payloads -> Nat]
  /\ Batches \union Invalid \subseteq Payloads /\ "none" \notin Payloads
  /\ {QueueBytes, DeadItems} \subseteq Nat \ {0} /\ {DeadBytes, MaxMishaps} \subseteq Nat

VARIABLES
  queue,     \* the payloads that have a file
  turn,      \* [Payloads -> place of the name of its file, 0 before it had one]
  named,     \* names given so far
  dead,      \* deadletter/, oldest first
  doubled,   \* a writer died between link and unlink: a file has two names
  garbled,   \* the payloads whose file has been damaged: it does not parse
  up,        \* [Uploaders -> [pc, item, snap, missed]]: missed is a history
  fresh,     \* payloads not handed over yet
  spooled,   \* history: the caller was told that the payload is queued
  held,      \* payloads Form has accepted
  evicted,   \* history: dropped for the byte budget
  skipped,   \* history: a replay could not read the file
  buried,    \* history: dead-lettered
  mishaps

disk == <<queue, turn, named, dead, doubled, garbled, evicted, buried, skipped>>
spoolVars == <<disk, up, fresh, spooled, held, mishaps>>

Uploading(pc, i) == [pc |-> pc, item |-> i, snap |-> {}, missed |-> {}]
Asleep == Uploading("rest", "none")
Mishap == mishaps < MaxMishaps /\ mishaps' = mishaps + 1
GoTo(u, pc) == up' = [up EXCEPT ![u].pc = pc]
Rest(u) == up' = [up EXCEPT ![u] = Asleep]

\* The bytes of files, as many as their payloads have together.
Bytes(files) == UNION {{x} \X (1 .. Size[files[x]]) : x \in DOMAIN files}
Weight(files) == Cardinality(Bytes(files))
QueueWeight(q) == Weight([p \in q |-> p])

\* queue_files sorts by name.
FilesSince(n) == {p \in queue : n <= turn[p]}
Oldest(files) == CHOOSE p \in files : \A q \in files : turn[p] <= turn[q]

\* evict_until_fits: the oldest go first, and no more than needed.
Fitting(n) == {p \in queue : QueueWeight(FilesSince(turn[p])) + n <= QueueBytes}

\* enforce_deadletter_limits_unlocked: retention, which may take any number of the
\* oldest, then the limits.
Enforced(items, bytes) ==
  {s \in Suffixes(dead) : Len(s) + items <= DeadItems /\ Weight(s) + bytes <= DeadBytes}

\* dead_letter_raw_unlocked: what is too large for the dead letters is discarded.
BuryIn(i) ==
  /\ buried' = buried \union {i}
  /\ IF Size[i] > DeadBytes THEN UNCHANGED dead
     ELSE \E s \in Enforced(1, Size[i]) : dead' = Append(s, i)

(***************************************************************************)
(* Spool::from_env: what a death has left behind is cleaned up under the    *)
(* lock.  A report is posted at once, a guard batch spooled first; the      *)
(* guard worker and the shutdown only replay.  What the queue holds now is  *)
(* what a listing cannot miss unless it goes away.                         *)
(***************************************************************************)
\* Without an HTTP client, a report is spooled and a flush gives up.
Entry(i) ==
  IF i = "none" THEN {"list"} ELSE IF i \in Batches THEN {"spool"} ELSE {"list", "spool"}

OpenSpool(u, i) ==
  /\ up[u].pc = "rest" /\ i \in fresh \union {"none"}
  /\ fresh' = fresh \ {i}
  /\ doubled' = FALSE
  /\ dead' \in Enforced(0, 0)
  /\ \E pc \in Entry(i) :
       up' = [up EXCEPT ![u] = [Uploading(pc, i) EXCEPT !.snap = IF pc = "list" THEN queue ELSE {}]]
  /\ UNCHANGED <<queue, turn, named, garbled, spooled, held, evicted, buried, skipped, mishaps>>

\* No directory is usable: the payload is posted without a spool.
OpenSpoolFails(u, i) ==
  /\ up[u].pc = "rest" /\ i \in fresh /\ Mishap
  /\ fresh' = fresh \ {i}
  /\ up' = [up EXCEPT ![u] = Uploading("live", i)]
  /\ UNCHANGED <<disk, spooled, held>>

(***************************************************************************)
(* drain: without the lock.                                                *)
(***************************************************************************)
\* queue_files visits the entries one by one while files come and go: of those published
\* since the call began, some are seen and some not, perhaps an older one than is seen.
\* A file with two names, the newest as no enqueue gets past it, is refused.
ListQueue(u) ==
  LET late == queue \ up[u].snap
  IN  /\ up[u].pc = "list"
      /\ \E seen \in SUBSET late :
           /\ doubled => \A p \in seen : turn[p] # named
           /\ up' = [up EXCEPT ![u].pc = "replay", ![u].snap = (@ \intersect queue) \union seen,
                ![u].missed = {q \in late \ seen : \E p \in seen : turn[q] < turn[p]}]
      /\ UNCHANGED <<disk, fresh, spooled, held, mishaps>>

\* ... and so ends the listing, as does a file that goes away before it is visited or is
\* just being published.
ListQueueFails(u) ==
  /\ up[u].pc = "list"
  /\ IF doubled THEN UNCHANGED mishaps ELSE Mishap
  /\ up' = [up EXCEPT ![u] = Uploading("replay", @.item)]
  /\ UNCHANGED <<disk, fresh, spooled, held>>

Others(files) == files \ {Oldest(files)}

\* A file that another replay has taken is passed over, one that does not parse goes
\* to the dead letters.
ReadFile(u) ==
  /\ up[u].pc = "replay" /\ up[u].snap # {}
  /\ IF Oldest(up[u].snap) \in queue
       THEN GoTo(u, IF Oldest(up[u].snap) \in garbled THEN "bury" ELSE "post")
       ELSE up' = [up EXCEPT ![u].snap = Others(@)]
  /\ UNCHANGED <<disk, fresh, spooled, held, mishaps>>

\* ... or that cannot be read.
ReadFileFails(u) ==
  /\ up[u].pc = "replay" /\ up[u].snap # {} /\ Mishap
  /\ skipped' = skipped \union {Oldest(up[u].snap)}
  /\ up' = [up EXCEPT ![u].snap = Others(@)]
  /\ UNCHANGED <<queue, turn, named, dead, doubled, garbled, evicted, buried, fresh, spooled, held>>

\* What comes of a POST: accepted, stored without a good answer, no Form (or the
\* process is asked to stop), a refused credential, or a rejection.
Replies(i) ==
  {"down", "blocked"} \union (IF i \in Invalid THEN {"rejected"} ELSE {"accepted", "lost"})
Arrived(i, reply) == held \union (IF reply \in {"accepted", "lost"} THEN {i} ELSE {})

\* A variant: a refused credential counts as a rejection.
DrainStepUnforgiving(reply) ==
  IF reply = "accepted" THEN "delivered"
  ELSE IF reply \in {"rejected", "blocked"} THEN "permanent" ELSE "transient"

\* try_post and drain_spool_while.
DrainStep(reply) ==
  IF reply = "accepted" THEN "delivered"
  ELSE IF reply = "rejected" THEN "permanent" ELSE "transient"

\* A variant: the file that cannot be delivered is left for later.
AfterOutageNext(snap) == Others(snap)

\* The first one that cannot be delivered ends the replay.
AfterOutage(snap) == {}

Replay(u, reply) ==
  LET i == Oldest(up[u].snap)
  IN  /\ up[u].pc = "post" /\ reply \in Replies(i)
      /\ held' = Arrived(i, reply)
      /\ up' = [up EXCEPT
           ![u].pc = CASE DrainStep(reply) = "delivered" -> "remove"
                       [] DrainStep(reply) = "permanent" -> "bury"
                       [] DrainStep(reply) = "transient" -> "replay",
           ![u].snap = IF DrainStep(reply) = "transient" THEN AfterOutage(@) ELSE @]
      /\ UNCHANGED <<disk, fresh, spooled, mishaps>>

\* move_to_deadletter writes the copy, then removes the file.
Bury(u) ==
  /\ up[u].pc = "bury"
  /\ BuryIn(Oldest(up[u].snap))
  /\ GoTo(u, "remove")
  /\ UNCHANGED <<queue, turn, named, doubled, garbled, evicted, skipped, fresh, spooled, held, mishaps>>

RemoveFile(u) ==
  /\ up[u].pc = "remove"
  /\ queue' = queue \ {Oldest(up[u].snap)}
  /\ up' = [up EXCEPT ![u].pc = "replay", ![u].snap = Others(@)]
  /\ UNCHANGED <<turn, named, dead, doubled, garbled, evicted, skipped, buried, fresh, spooled, held, mishaps>>

\* The file stays and the replay goes on.
RemoveFileFails(u) ==
  /\ up[u].pc \in {"bury", "remove"} /\ Mishap
  /\ up' = [up EXCEPT ![u].pc = "replay", ![u].snap = Others(@)]
  /\ UNCHANGED <<disk, fresh, spooled, held>>

EndReplay(u) ==
  /\ up[u].pc = "replay" /\ up[u].snap = {}
  /\ IF up[u].item = "none" THEN Rest(u) ELSE up' = [up EXCEPT ![u] = Uploading("deliver", @.item)]
  /\ UNCHANGED <<disk, fresh, spooled, held, mishaps>>

(***************************************************************************)
(* post_json and the live upload of a guard batch.                         *)
(***************************************************************************)
PostJson(u, reply) ==
  /\ up[u].pc = "deliver" /\ reply \in Replies(up[u].item)
  /\ held' = Arrived(up[u].item, reply)
  /\ IF DrainStep(reply) = "transient" THEN GoTo(u, "spool") ELSE Rest(u)
  /\ UNCHANGED <<disk, fresh, spooled, mishaps>>

\* What could not be spooled is kept in memory and tried again ...
UploadLive(u, reply) ==
  /\ up[u].pc = "live" /\ reply \in Replies(up[u].item)
  /\ held' = Arrived(up[u].item, reply)
  /\ IF DrainStep(reply) = "transient" THEN UNCHANGED up ELSE Rest(u)
  /\ UNCHANGED <<disk, fresh, spooled, mishaps>>

\* ... until the attempts are used up, the memory is full or the process shuts down.
DropLive(u) ==
  /\ up[u].pc = "live"
  /\ Rest(u)
  /\ UNCHANGED <<disk, fresh, spooled, held, mishaps>>

(***************************************************************************)
(* enqueue: under the lock.                                                *)
(***************************************************************************)
Unspooled(u) == IF up[u].item \in Batches THEN GoTo(u, "live") ELSE Rest(u)
Oversized(i) == Size[i] > QueueBytes

\* write_atomic gives the payload the next name, when there is room for it.
Publish(i) ==
  /\ queue' = Fitting(Size[i]) \union {i}
  /\ turn' = [turn EXCEPT ![i] = named + 1] /\ named' = named + 1

SpoolPayload(u) ==
  LET i == up[u].item
  IN  /\ up[u].pc = "spool" /\ ~Oversized(i) /\ ~doubled
      /\ Publish(i)
      /\ evicted' = evicted \union (queue \ queue')
      /\ spooled' = spooled \union {i}
      /\ Rest(u)
      /\ UNCHANGED <<dead, doubled, garbled, skipped, buried, fresh, held, mishaps>>

SpoolOversized(u) ==
  /\ up[u].pc = "spool" /\ Oversized(up[u].item)
  /\ BuryIn(up[u].item)
  /\ Unspooled(u)
  /\ UNCHANGED <<queue, turn, named, doubled, garbled, evicted, skipped, fresh, spooled, held, mishaps>>

\* How far an enqueue that fails or dies has come.
Halfway(i) ==
  \/ UNCHANGED <<queue, turn, named, evicted>>
  \/ /\ ~Oversized(i)
     /\ \/ /\ \E n \in 1 .. named + 1 : Fitting(Size[i]) \subseteq FilesSince(n) /\ queue' = FilesSince(n)
           /\ UNCHANGED <<turn, named>>
        \/ Publish(i)
     /\ evicted' = evicted \union (queue \ queue')

\* The directory cannot be read or written; perhaps after the file is there.
SpoolFails(u) ==
  /\ up[u].pc = "spool"
  /\ IF doubled /\ ~Oversized(up[u].item) THEN UNCHANGED <<queue, turn, named, evicted, mishaps>>
                                          ELSE Mishap /\ Halfway(up[u].item)
  /\ Unspooled(u)
  /\ UNCHANGED <<dead, doubled, garbled, skipped, buried, fresh, spooled, held>>

\* A process dies.  In the middle of a publication the file keeps its second name.
DieUploader(u) ==
  /\ up[u].pc # "rest" /\ Mishap
  /\ IF up[u].pc = "spool" /\ ~doubled
       THEN /\ Halfway(up[u].item)
            /\ doubled' \in {FALSE, up[u].item \in queue'}
       ELSE UNCHANGED <<queue, turn, named, evicted, doubled>>
  /\ Rest(u)
  /\ UNCHANGED <<dead, garbled, skipped, buried, fresh, spooled, held>>

\* A file is damaged (external: the disk, or whoever edits the directory).
GarbleFile(p) ==
  /\ p \in queue \ garbled /\ Mishap
  /\ garbled' = garbled \union {p}
  /\ UNCHANGED <<queue, turn, named, dead, doubled, evicted, buried, skipped, up, fresh, spooled, held>>

SpoolInit ==
  /\ queue = {} /\ turn = [p \in Payloads |-> 0] /\ named = 0 /\ dead = <<>> /\ doubled = FALSE
  /\ up = [u \in Uploaders |-> Asleep]
  /\ fresh = Payloads /\ mishaps = 0 /\ garbled = {}
  /\ spooled = {} /\ held = {} /\ evicted = {} /\ buried = {} /\ skipped = {}

SpoolNext ==
  \/ \E u \in Uploaders :
       \/ \E i \in Payloads \union {"none"} : OpenSpool(u, i) \/ OpenSpoolFails(u, i)
       \/ ListQueue(u) \/ ListQueueFails(u)
       \/ ReadFile(u) \/ ReadFileFails(u) \/ EndReplay(u)
       \/ Bury(u) \/ RemoveFile(u) \/ RemoveFileFails(u)
       \/ \E reply \in {"accepted", "lost", "down", "blocked", "rejected"} :
            Replay(u, reply) \/ PostJson(u, reply) \/ UploadLive(u, reply)
       \/ DropLive(u)
       \/ SpoolPayload(u) \/ SpoolOversized(u) \/ SpoolFails(u)
       \/ DieUploader(u)
  \/ \E p \in Payloads : GarbleFile(p)

SpoolSpec == SpoolInit /\ [][SpoolNext]_spoolVars

(***************************************************************************)
(* Properties.                                                             *)
(***************************************************************************)
\* What was reported as spooled stays in the queue until Form has it, Form has
\* rejected it, its file does not parse, or newer ones need the room; nothing else is
\* dead-lettered, and both directories stay within their limits: whatever dies, fails
\* or is replayed twice (enqueue, drain, move_to_deadletter).
SpooledIsKept ==
  /\ spooled \subseteq queue \union held \union evicted \union buried
  /\ buried \subseteq Invalid \union garbled \union {p \in Payloads : Oversized(p)}
  /\ QueueWeight(queue) <= QueueBytes
  /\ Len(dead) <= DeadItems /\ Weight(dead) <= DeadBytes

\* Replays deliver in the order of the queue: when one brings a payload to Form for the
\* first time, every older file that is still there has been delivered, rejected or could
\* not be read or parsed, or was published after the replay was asked for and missed by
\* its listing (drain, with several of them at a time beside publications and evictions).
ReplayInOrder ==
  [][\A u \in Uploaders : up[u].pc = "post" /\ up'[u] # up[u] =>
       \A p \in queue : p = Oldest(up[u].snap) /\ p \in held' \ held =>
         \A q \in queue : turn[q] < turn[p] /\ q \notin up[u].missed
                              => q \in held \union Invalid \union skipped \union garbled]_spoolVars

=============================================================================
