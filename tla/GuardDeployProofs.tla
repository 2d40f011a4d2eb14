--------------------------- MODULE GuardDeployProofs ---------------------------
(***************************************************************************)
(* Proofs about the remote Guard deployment transaction, for any number of *)
(* deployments and teardowns and any number of troubles.                   *)
(*                                                                         *)
(* The argument.  An execution takes the lease once and never gets it back *)
(* after it lost it.  While it is the owner, live or not, nobody else      *)
(* writes: the host is what the transaction found, changed exactly by the  *)
(* commands it got through (OwnInv).  What the helper and the transaction  *)
(* roll back together covers whatever may have been written (ScriptFacts). *)
(* Once the owner has changed, the rest of the transaction can only end as *)
(* uncertain.                                                              *)
(***************************************************************************)
EXTENDS GuardDeploy, TLAPS

\* Where a slot is prepared and where it is published (the binary by the start).
PrepAt == [binary |-> 1, config |-> 2, identity |-> 4, env |-> 6, manifest |-> 10]
PubAt == [binary |-> 8, config |-> 3, identity |-> 5, env |-> 7, manifest |-> 11]

Tx == {"run", "helper", "owned", "quiesce", "undo", "discard", "restore", "verify"}
Undone == {"discard", "restore", "verify"}     \* every slot has been rolled back
Ended == {"release", "done", "crashed"}
Stages == Tx \union Ended \union {"lock", "locked", "proved", "remove"}

\* A file that exists was written by a deployment.
File(c) == c \in Content /\ (c.by = None => c = Empty)

GuardTypeOK ==
  /\ files \in [Slots -> Content] /\ \A f \in Slots : File(files[f])
  /\ backup \in [Deployers -> [Slots -> Content]]
  /\ daemon \in [state : {"down", "unready", "ready"}, pid : Nat,
                 bin : Deployments \union {None}, config : Deployments \union {None}]
  /\ daemon.state = "down" => daemon.bin = None
  /\ nextPid \in Nat
  /\ lock \in [owner : Actors \union {None}, live : BOOLEAN]
  /\ stage \in [Actors -> Stages] /\ step \in [Deployers -> 1 .. 12]
  /\ undo \in [Deployers -> SUBSET Slots] /\ mypid \in [Deployers -> Nat]
  /\ base \in [Deployers -> [files : [Slots -> Content], alive : BOOLEAN]]
  /\ proven \in [Deployers -> BOOLEAN] /\ interrupted \in [Deployers -> BOOLEAN]
  /\ outcome \in [Deployers -> {"none", "ok", "failed", "uncertain"}]
  /\ proof \in [Closers -> [state : {"none", "taken", "used", "waived"}, manifest : Content,
                            alive : BOOLEAN, pid : Nat]]

\* How far an execution is, from its own state.
StageOf(d) ==
  /\ stage[d] \notin {"proved", "remove"}
  /\ stage[d] = "lock" => lock.owner # d
  /\ stage[d] \in {"lock", "locked"} =>
       step[d] = 1 /\ proven[d] = TRUE /\ \A f \in Slots : backup[d][f] = NoBackup
  /\ stage[d] = "run" => proven[d] = TRUE
  /\ outcome[d] # "none" => stage[d] \in Ended
  /\ stage[d] \in {"release", "done"} => outcome[d] # "none"
  /\ proven[d] = FALSE => outcome[d] = "uncertain" \/ stage[d] \in Tx \union {"crashed"}
  /\ stage[d] \in Undone => undo[d] = {}
  /\ stage[d] = "helper" /\ "binary" \in undo[d] => step[d] = 1

StageInv == \A d \in Deployers : StageOf(d)

\* The slots that d may have written and has not rolled back.
Remaining(d) ==
  IF stage[d] = "helper" THEN undo[d] \union TransactionUndo(d)
  ELSE IF stage[d] = "owned" THEN TransactionUndo(d)
  ELSE undo[d]

Owns(d) == lock.owner = d /\ stage[d] \in Tx

\* One slot of the host under the transaction of its owner d.
SlotInv(d, f) ==
  /\ base[d].files[f].by # d /\ File(base[d].files[f])
  /\ files[f] = base[d].files[f] \/ files[f].by = d
  /\ backup[d][f] \in {NoBackup, base[d].files[f]}
  /\ files[f].by = d => step[d] >= PubAt[f] /\ backup[d][f] = base[d].files[f]
  /\ stage[d] = "run" => /\ step[d] > PubAt[f] => files[f].by = d
                         /\ step[d] > PrepAt[f] => backup[d][f] = base[d].files[f]
                         /\ files[f].by = d => step[d] > PubAt[f]
  /\ stage[d] # "run" /\ proven[d] = TRUE /\ files[f].by = d => f \in Remaining(d)

OwnOf(d) ==
  Owns(d) =>
    /\ \A f \in Slots : SlotInv(d, f)
    /\ daemon.bin = d => step[d] >= StartAt
    /\ proven[d] = TRUE /\ step[d] >= StartAt /\ stage[d] \in {"undo", "discard", "restore"} =>
         daemon.state = "down"
    /\ stage[d] = "run" /\ step[d] = 12 => files["manifest"].pid = mypid[d]

OwnInv == \A d \in Deployers : OwnOf(d)

\* Nothing on the host is of d, and the owner of the lease has nothing of d to put back.
Clean(d) ==
  /\ \A f \in Slots : files[f].by # d
  /\ daemon.bin # d
  /\ \A e \in Deployers : lock.owner = e => \A f \in Slots : backup[e][f].by # d

CleanDue(d) ==
  \/ stage[d] \in {"lock", "locked"} \/ outcome[d] = "failed"
  \/ stage[d] \in Undone /\ proven[d] = TRUE

CleanOf(d) == CleanDue(d) => Clean(d)

CleanInv == \A d \in Deployers : CleanOf(d)

\* A failed deployment that is still the owner has put back what it found.
FailedOf(d) ==
  outcome[d] = "failed" /\ stage[d] = "release" /\ lock.owner = d /\ step[d] > 1 =>
    files = base[d].files

FailedInv == \A d \in Deployers : FailedOf(d)

\* A teardown that compared the manifest under its lease still sees the same one.
RemoveOf(a) ==
  stage[a] = "remove" /\ proof[a].state = "used" /\ lock.owner = a =>
    files["manifest"] = proof[a].manifest

RemoveInv == \A a \in Closers : RemoveOf(a)

\* The transaction of d lost its lease before it was through.
Doomed(d) ==
  /\ lock.owner # d
  /\ stage[d] \in {"helper", "owned", "quiesce", "undo"} \/ (stage[d] = "run" /\ step[d] < 12)

\* The transaction of d has ended, or can only end, without a verdict on its rollback.
Cut(d) == \/ stage[d] = "crashed" \/ outcome[d] = "uncertain" \/ proven[d] = FALSE
          \/ Doomed(d)

Sound == \A d \in Deployers : ~Cut(d)

\* All files are of the deployment that the binary is of.
OfOne(fs) ==
  /\ \A f \in InstallSlots : fs[f].by = fs["binary"].by
  /\ fs["binary"].by # None => fs["identity"].by = fs["binary"].by

\* While nobody was cut off, the host is of one deployment, or was when its owner came.
WholeInv ==
  Sound => /\ daemon.state # "down" => daemon.bin = files["binary"].by
           /\ \A d \in Deployers : Owns(d) => OfOne(base[d].files)
           /\ (\A d \in Deployers : ~Owns(d)) => OfOne(files)

GuardInv == /\ GuardTypeOK /\ StageInv /\ OwnInv /\ CleanInv /\ FailedInv /\ RemoveInv
            /\ WholeInv

(***************************************************************************)
(* The script of the commands.                                             *)
(***************************************************************************)
LEMMA ScriptFacts ==
  ASSUME NEW d, step[d] \in 1 .. 12
  PROVE  /\ Op(d) = "prepare" => Slot(d) \in Slots /\ step[d] = PrepAt[Slot(d)] /\ step[d] <= 10
         /\ Op(d) = "publish" => /\ Slot(d) \in Slots \ {"binary"} /\ step[d] = PubAt[Slot(d)]
                                 /\ step[d] <= 11 /\ step[d] > PrepAt[Slot(d)]
         /\ Op(d) = "start" => step[d] = 8
         /\ Op(d) = "check" => step[d] = 9
         /\ Op(d) = "activate" => step[d] = 12
         /\ \A f \in Slots : step[d] = PrepAt[f] => Op(d) = "prepare" /\ Slot(d) = f
         /\ \A f \in Slots : step[d] = PubAt[f] /\ f # "binary" => Op(d) = "publish" /\ Slot(d) = f
         /\ step[d] = 8 => Op(d) = "start"
         /\ \A f \in Slots : step[d] >= PubAt[f] => f \in HelperUndo(d) \union TransactionUndo(d)
         /\ HelperUndo(d) \in SUBSET Slots /\ TransactionUndo(d) \in SUBSET Slots
         /\ TransactionUndo(d) = {} => step[d] = 1
         /\ HelperUndo(d) = {} => step[d] \in {8, 9, 12}
         /\ "binary" \in HelperUndo(d) => step[d] = 1
<1> DEFINE k == step[d]
<1>1. \/ k = 1 \/ k = 2 \/ k = 3 \/ k = 4 \/ k = 5 \/ k = 6
      \/ k = 7 \/ k = 8 \/ k = 9 \/ k = 10 \/ k = 11 \/ k = 12
  OBVIOUS
<1> USE DEF Op, Slot, Script, HelperUndo, TransactionUndo, RecordedAt, PrepAt, PubAt, Slots
<1>2. CASE k = 1 BY <1>2
<1>3. CASE k = 2 BY <1>3
<1>4. CASE k = 3 BY <1>4
<1>5. CASE k = 4 BY <1>5
<1>6. CASE k = 5 BY <1>6
<1>7. CASE k = 6 BY <1>7
<1>8. CASE k = 7 BY <1>8
<1>9. CASE k = 8 BY <1>9
<1>10. CASE k = 9 BY <1>10
<1>11. CASE k = 10 BY <1>11
<1>12. CASE k = 11 BY <1>12
<1>13. CASE k = 12 BY <1>13
<1> QED BY <1>1, <1>2, <1>3, <1>4, <1>5, <1>6, <1>7, <1>8, <1>9, <1>10, <1>11, <1>12, <1>13

(***************************************************************************)
(* Types.                                                                  *)
(***************************************************************************)
\* What an actor's own transitions may leave in its row of a function.
LEMMA RowTyped ==
  ASSUME NEW D, NEW S, NEW f \in [D -> S], NEW x \in D, NEW v \in S
  PROVE  /\ [f EXCEPT ![x] = v] \in [D -> S]
         /\ [f EXCEPT ![x] = v][x] = v
         /\ \A y \in D \ {x} : [f EXCEPT ![x] = v][y] = f[y]
OBVIOUS

\* Every command is one of a deployer, of a closer, or of the host.
LEMMA ConstantsApart ==
  /\ Empty \in Content /\ NoBackup \in Content /\ NoBackup # Empty /\ File(Empty)
  /\ \A d \in Deployers : d \in Deployments /\ d \in Actors /\ d # None /\ d # Old /\ d \notin Closers
  /\ \A a \in Closers : a \in Actors /\ a # None /\ a \notin Deployers
  /\ Old # None
BY GuardAssumption DEF Empty, NoBackup, Content, File, Deployments, Actors

\* The next command of a transaction and its failure.
LEMMA ContinueTyped ==
  ASSUME GuardTypeOK, NEW d \in Deployers, NEW seen \in BOOLEAN, Continue(d, seen),
         seen => step[d] <= 11
  PROVE  /\ stage' \in [Actors -> Stages] /\ step' \in [Deployers -> 1 .. 12]
         /\ undo' \in [Deployers -> SUBSET Slots]
         /\ \A b \in Actors \ {d} : stage'[b] = stage[b]
         /\ \A e \in Deployers \ {d} : step'[e] = step[e] /\ undo'[e] = undo[e]
         /\ seen => step'[d] = step[d] + 1 /\ stage'[d] = stage[d] /\ undo'[d] = undo[d]
         /\ ~seen => /\ step'[d] = step[d] /\ undo'[d] = HelperUndo(d)
                     /\ stage'[d] = IF HelperUndo(d) = {} THEN "owned" ELSE "helper"
<1>0. d \in Actors BY ConstantsApart
<1>1. HelperUndo(d) \in SUBSET Slots /\ step[d] \in 1 .. 12
  BY ScriptFacts DEF GuardTypeOK
<1>2. CASE seen
  BY <1>1, <1>2 DEF Continue, GuardTypeOK
<1>3. CASE ~seen
  <2> DEFINE s == IF HelperUndo(d) = {} THEN "owned" ELSE "helper"
  <2>1. /\ stage' = [stage EXCEPT ![d] = s] /\ step' = step
        /\ undo' = [undo EXCEPT ![d] = HelperUndo(d)]
    BY <1>3 DEF Continue, Goto
  <2>2. s \in Stages BY DEF Stages, Tx
  <2> HIDE DEF s
  <2>3. /\ stage' \in [Actors -> Stages] /\ stage'[d] = s
        /\ \A b \in Actors \ {d} : stage'[b] = stage[b]
    BY <1>0, <2>1, <2>2 DEF GuardTypeOK
  <2>4. /\ undo' \in [Deployers -> SUBSET Slots] /\ undo'[d] = HelperUndo(d)
        /\ \A e \in Deployers \ {d} : undo'[e] = undo[e]
    BY <1>1, <2>1 DEF GuardTypeOK
  <2> QED BY <1>3, <2>1, <2>3, <2>4 DEF GuardTypeOK, s
<1> QED BY <1>2, <1>3

\* What a step of a may change of the state of others and of the host.
Moves(a) ==
  /\ \A b \in Actors \ {a} : stage'[b] = stage[b]
  /\ \A e \in Deployers \ {a} :
       /\ step'[e] = step[e] /\ undo'[e] = undo[e] /\ mypid'[e] = mypid[e]
       /\ base'[e] = base[e] /\ proven'[e] = proven[e] /\ outcome'[e] = outcome[e]
  /\ \A b \in Closers \ {a} : proof'[b] = proof[b]
  /\ \/ lock'.owner = lock.owner
     \/ lock'.owner = a /\ stage[a] = "lock"
     \/ lock.owner = a /\ lock'.owner = None
  /\ lock.owner # a => files' = files /\ backup' = backup /\ daemon' = daemon
  /\ \A f \in Slots : \/ files'[f].by \in {files[f].by, a, None}
                      \/ a \in Deployers /\ files'[f] = backup[a][f]
  /\ daemon'.bin \in {daemon.bin, a, None, files["binary"].by}
  /\ \A e \in Deployers, f \in Slots :
       backup'[e][f] \in {backup[e][f], NoBackup} \/ (e = a /\ backup'[e][f] = files[f])

\* An actor goes to another stage and nothing else of the model's functions changes type.
LEMMA GotoTyped ==
  ASSUME GuardTypeOK, NEW a \in Actors, NEW s \in Stages, Goto(a, s)
  PROVE  /\ stage' \in [Actors -> Stages] /\ stage'[a] = s
         /\ \A b \in Actors \ {a} : stage'[b] = stage[b]
BY DEF GuardTypeOK, Goto

LEMMA AcquireMoves ==
  ASSUME GuardTypeOK, NEW a \in Actors, NEW ran \in BOOLEAN, NEW seen \in BOOLEAN,
         AcquireLock(a, ran, seen)
  PROVE  GuardTypeOK' /\ Moves(a)
<1> DEFINE s == IF seen THEN "locked" ELSE "release"
<1>1. s \in Stages /\ Goto(a, s) BY DEF AcquireLock, Stages, Ended
<1> HIDE DEF s
<1>2. /\ stage' \in [Actors -> Stages] /\ \A b \in Actors \ {a} : stage'[b] = stage[b]
  BY <1>1, GotoTyped
<1>3. /\ lock' \in [owner : Actors \union {None}, live : BOOLEAN]
      /\ lock'.owner = lock.owner \/ (lock'.owner = a /\ stage[a] = "lock")
  BY DEF AcquireLock, GuardTypeOK
<1>4. /\ outcome' \in [Deployers -> {"none", "ok", "failed", "uncertain"}]
      /\ \A e \in Deployers \ {a} : outcome'[e] = outcome[e]
  BY DEF AcquireLock, GuardTypeOK
<1>5. UNCHANGED <<files, backup, daemon, nextPid, step, undo, mypid, base, proven, interrupted,
                  proof>>
  BY DEF AcquireLock, host
<1>6. GuardTypeOK' BY <1>2, <1>3, <1>4, <1>5 DEF GuardTypeOK
<1>7. Moves(a) BY <1>2, <1>3, <1>4, <1>5 DEF Moves
<1> QED BY <1>6, <1>7

LEMMA ReleaseMoves ==
  ASSUME GuardTypeOK, NEW a \in Actors, NEW ran \in BOOLEAN, ReleaseLock(a, ran)
  PROVE  GuardTypeOK' /\ Moves(a)
<1> DEFINE s == IF a \in Closers /\ proof[a].state = "taken" THEN "proved" ELSE "done"
<1>1. s \in Stages /\ Goto(a, s) BY DEF ReleaseLock, Stages, Ended
<1> HIDE DEF s
<1>2. /\ stage' \in [Actors -> Stages] /\ \A b \in Actors \ {a} : stage'[b] = stage[b]
  BY <1>1, GotoTyped
<1>3. /\ lock' \in [owner : Actors \union {None}, live : BOOLEAN]
      /\ lock'.owner = lock.owner \/ (lock.owner = a /\ lock'.owner = None)
  BY DEF ReleaseLock, GuardTypeOK
<1>5. UNCHANGED <<files, backup, daemon, nextPid, step, undo, mypid, base, proven, outcome,
                  interrupted, proof>>
  BY DEF ReleaseLock, host
<1>6. GuardTypeOK' BY <1>2, <1>3, <1>5 DEF GuardTypeOK
<1>7. Moves(a) BY <1>2, <1>3, <1>5 DEF Moves
<1> QED BY <1>6, <1>7

LEMMA BaselineMoves ==
  ASSUME GuardTypeOK, NEW d \in Deployers, NEW seen \in BOOLEAN, Baseline(d, seen)
  PROVE  GuardTypeOK' /\ Moves(d)
<1> DEFINE s == IF seen THEN "run" ELSE "release"
           b0 == [files |-> files, alive |-> Alive]
<1>0. d \in Actors BY ConstantsApart
<1>1. s \in Stages /\ Goto(d, s) BY DEF Baseline, Stages, Ended, Tx
<1>2. b0 \in [files : [Slots -> Content], alive : BOOLEAN] BY DEF Alive, GuardTypeOK
<1>3. base' = IF seen THEN [base EXCEPT ![d] = b0] ELSE base BY DEF Baseline
<1> HIDE DEF s, b0
<1>4. /\ stage' \in [Actors -> Stages] /\ \A b \in Actors \ {d} : stage'[b] = stage[b]
  BY <1>0, <1>1, GotoTyped
<1>5. /\ base' \in [Deployers -> [files : [Slots -> Content], alive : BOOLEAN]]
      /\ \A e \in Deployers \ {d} : base'[e] = base[e]
  BY <1>2, <1>3 DEF GuardTypeOK
<1>6. /\ outcome' \in [Deployers -> {"none", "ok", "failed", "uncertain"}]
      /\ \A e \in Deployers \ {d} : outcome'[e] = outcome[e]
  BY DEF Baseline, GuardTypeOK
<1>7. UNCHANGED <<files, backup, daemon, nextPid, lock, step, undo, mypid, proven, interrupted,
                  proof>>
  BY DEF Baseline, host
<1>8. GuardTypeOK' BY <1>4, <1>5, <1>6, <1>7 DEF GuardTypeOK
<1>9. Moves(d) BY <1>4, <1>5, <1>6, <1>7 DEF Moves
<1> QED BY <1>8, <1>9

LEMMA PrepareMoves ==
  ASSUME GuardTypeOK, NEW d \in Deployers, NEW ran \in BOOLEAN, NEW seen \in BOOLEAN,
         Prepare(d, ran, seen)
  PROVE  GuardTypeOK' /\ Moves(d)
<1> DEFINE k == Slot(d)
<1>0. step[d] \in 1 .. 12 BY DEF GuardTypeOK
<1>1. k \in Slots /\ step[d] <= 10 BY <1>0, ScriptFacts DEF Prepare
<1>2. /\ stage' \in [Actors -> Stages] /\ step' \in [Deployers -> 1 .. 12]
      /\ undo' \in [Deployers -> SUBSET Slots]
      /\ \A b \in Actors \ {d} : stage'[b] = stage[b]
      /\ \A e \in Deployers \ {d} : step'[e] = step[e] /\ undo'[e] = undo[e]
  BY <1>0, <1>1, ContinueTyped DEF Prepare
<1>3. /\ backup' = IF ran THEN [backup EXCEPT ![d] = [backup[d] EXCEPT ![k] = files[k]]] ELSE backup
      /\ ran => lock.owner = d
  BY DEF Prepare, Command, Held
<1> HIDE DEF k
<1>4. [backup[d] EXCEPT ![k] = files[k]] \in [Slots -> Content]
  BY <1>1 DEF GuardTypeOK
<1>5. backup' \in [Deployers -> [Slots -> Content]]
  BY <1>3, <1>4 DEF GuardTypeOK
<1>6. \A e \in Deployers, f \in Slots :
        backup'[e][f] \in {backup[e][f], NoBackup} \/ (e = d /\ backup'[e][f] = files[f])
  BY <1>1, <1>3 DEF GuardTypeOK
<1>7. UNCHANGED <<files, daemon, nextPid, lock, mypid, base, proven, outcome, interrupted, proof>>
  BY DEF Prepare
<1>8. GuardTypeOK' BY <1>2, <1>5, <1>7 DEF GuardTypeOK
<1>9. Moves(d) BY <1>2, <1>3, <1>6, <1>7 DEF Moves
<1> QED BY <1>8, <1>9

LEMMA PublishMoves ==
  ASSUME GuardTypeOK, NEW d \in Deployers, NEW ran \in BOOLEAN, NEW seen \in BOOLEAN,
         Publish(d, ran, seen)
  PROVE  GuardTypeOK' /\ Moves(d)
<1> DEFINE k == Slot(d)
           c == [by |-> d, pid |-> IF k = "manifest" THEN mypid[d] ELSE 0]
<1>0. step[d] \in 1 .. 12 BY DEF GuardTypeOK
<1>1. k \in Slots /\ step[d] <= 11 BY <1>0, ScriptFacts DEF Publish
<1>2. /\ stage' \in [Actors -> Stages] /\ step' \in [Deployers -> 1 .. 12]
      /\ undo' \in [Deployers -> SUBSET Slots]
      /\ \A b \in Actors \ {d} : stage'[b] = stage[b]
      /\ \A e \in Deployers \ {d} : step'[e] = step[e] /\ undo'[e] = undo[e]
  BY <1>0, <1>1, ContinueTyped DEF Publish
<1>3. /\ files' = IF ran THEN [files EXCEPT ![k] = c] ELSE files
      /\ ran => lock.owner = d
  BY DEF Publish, Command, Held
<1>4. c \in Content /\ c.by = d /\ File(c)
  BY ConstantsApart DEF Content, File, GuardTypeOK
<1> HIDE DEF k, c
<1>5. /\ files' \in [Slots -> Content]
      /\ \A f \in Slots : files'[f] = files[f] \/ files'[f] = c
  BY <1>1, <1>3, <1>4 DEF GuardTypeOK
<1>6. \A f \in Slots : File(files'[f])
  BY <1>4, <1>5 DEF GuardTypeOK
<1>7. UNCHANGED <<backup, daemon, nextPid, lock, mypid, base, proven, outcome, interrupted, proof>>
  BY DEF Publish
<1>8. GuardTypeOK' BY <1>2, <1>5, <1>6, <1>7 DEF GuardTypeOK
<1>9. Moves(d) BY <1>2, <1>3, <1>4, <1>5, <1>7 DEF Moves
<1> QED BY <1>8, <1>9

LEMMA StartMoves ==
  ASSUME GuardTypeOK, NEW d \in Deployers, NEW ran \in BOOLEAN, NEW seen \in BOOLEAN,
         NEW state \in {"down", "unready", "ready"}, Start(d, ran, seen, state)
  PROVE  GuardTypeOK' /\ Moves(d)
<1> DEFINE c == [by |-> d, pid |-> 0]
           p == IF state = "down" THEN Down ELSE Process(state, d, files["config"].by)
<1>0. step[d] \in 1 .. 12 BY DEF GuardTypeOK
<1>1. step[d] = 8 BY <1>0, ScriptFacts DEF Start
<1>2. /\ stage' \in [Actors -> Stages] /\ step' \in [Deployers -> 1 .. 12]
      /\ undo' \in [Deployers -> SUBSET Slots]
      /\ \A b \in Actors \ {d} : stage'[b] = stage[b]
      /\ \A e \in Deployers \ {d} : step'[e] = step[e] /\ undo'[e] = undo[e]
  BY <1>0, <1>1, ContinueTyped DEF Start
<1>3. /\ ran => /\ files' = [files EXCEPT !["binary"] = c] /\ daemon' = p
                /\ nextPid' = nextPid + 1 /\ lock.owner = d
      /\ ~ran => UNCHANGED <<files, daemon, nextPid>>
      /\ mypid' = IF seen THEN [mypid EXCEPT ![d] = nextPid] ELSE mypid
  BY DEF Start, Command, Held
<1>4. c \in Content /\ c.by = d /\ File(c)
  BY ConstantsApart DEF Content, File
<1>5. "config" \in Slots /\ "binary" \in Slots BY DEF Slots
<1>6. files["config"].by \in Deployments \union {None}
  BY <1>5 DEF GuardTypeOK, Content
<1>7. /\ p \in [state : {"down", "unready", "ready"}, pid : Nat,
                bin : Deployments \union {None}, config : Deployments \union {None}]
      /\ p.bin \in {d, None} /\ (p.state = "down" => p.bin = None)
  BY <1>6, ConstantsApart DEF Down, Process, GuardTypeOK
<1> HIDE DEF c, p
<1>8. /\ files' \in [Slots -> Content]
      /\ \A f \in Slots : files'[f] = files[f] \/ files'[f] = c
  <2>1. files \in [Slots -> Content] BY DEF GuardTypeOK
  <2>2. CASE ran
    <3>1. files' = [files EXCEPT !["binary"] = c] BY <1>3, <2>2
    <3> QED BY <1>4, <1>5, <2>1, <3>1
  <2>3. CASE ~ran BY <1>3, <2>1, <2>3
  <2> QED BY <2>2, <2>3
<1>9. \A f \in Slots : File(files'[f])
  BY <1>4, <1>8 DEF GuardTypeOK
<1>10. mypid' \in [Deployers -> Nat] /\ \A e \in Deployers \ {d} : mypid'[e] = mypid[e]
  BY <1>3 DEF GuardTypeOK
<1>11. UNCHANGED <<backup, lock, base, proven, outcome, interrupted, proof>>
  BY DEF Start
<1>12. /\ daemon' \in [state : {"down", "unready", "ready"}, pid : Nat,
                       bin : Deployments \union {None}, config : Deployments \union {None}]
       /\ nextPid' \in Nat /\ daemon'.bin \in {daemon.bin, d, None}
       /\ daemon'.state = "down" => daemon'.bin = None
  BY <1>3, <1>7 DEF GuardTypeOK
<1>13. GuardTypeOK' BY <1>2, <1>8, <1>9, <1>10, <1>11, <1>12 DEF GuardTypeOK
<1>14. Moves(d) BY <1>2, <1>3, <1>4, <1>8, <1>10, <1>11, <1>12 DEF Moves
<1> QED BY <1>13, <1>14

LEMMA CheckStatusMoves ==
  ASSUME GuardTypeOK, NEW d \in Deployers, NEW seen \in BOOLEAN, CheckStatus(d, seen)
  PROVE  GuardTypeOK' /\ Moves(d)
<1>0. step[d] \in 1 .. 12 BY DEF GuardTypeOK
<1>1. step[d] = 9 BY <1>0, ScriptFacts DEF CheckStatus
<1>2. /\ stage' \in [Actors -> Stages] /\ step' \in [Deployers -> 1 .. 12]
      /\ undo' \in [Deployers -> SUBSET Slots]
      /\ \A b \in Actors \ {d} : stage'[b] = stage[b]
      /\ \A e \in Deployers \ {d} : step'[e] = step[e] /\ undo'[e] = undo[e]
  BY <1>0, <1>1, ContinueTyped DEF CheckStatus
<1>3. UNCHANGED <<files, backup, daemon, nextPid, lock, mypid, base, proven, outcome,
                  interrupted, proof>>
  BY DEF CheckStatus, host
<1>4. GuardTypeOK' BY <1>2, <1>3 DEF GuardTypeOK
<1>5. Moves(d) BY <1>2, <1>3 DEF Moves
<1> QED BY <1>4, <1>5

LEMMA ActivateMoves ==
  ASSUME GuardTypeOK, NEW d \in Deployers, NEW seen \in BOOLEAN, Activate(d, seen)
  PROVE  GuardTypeOK' /\ Moves(d)
<1>0. step[d] \in 1 .. 12 /\ d \in Actors BY ConstantsApart DEF GuardTypeOK
<1>1. UNCHANGED <<files, daemon, nextPid, lock, mypid, base, proven, interrupted, proof>>
  BY DEF Activate
<1>2. CASE seen
  <2>1. /\ outcome' = [outcome EXCEPT ![d] = "ok"] /\ Goto(d, "release")
        /\ backup' = IF Held(d) THEN [backup EXCEPT ![d] = [f \in Slots |-> NoBackup]] ELSE backup
        /\ UNCHANGED <<step, undo>>
    BY <1>2 DEF Activate
  <2>2. "release" \in Stages BY DEF Stages, Ended
  <2>3. stage' \in [Actors -> Stages] /\ \A b \in Actors \ {d} : stage'[b] = stage[b]
    BY <1>0, <2>1, <2>2, GotoTyped
  <2>4. /\ outcome' \in [Deployers -> {"none", "ok", "failed", "uncertain"}]
        /\ \A e \in Deployers \ {d} : outcome'[e] = outcome[e]
    BY <2>1 DEF GuardTypeOK
  <2>5. [f \in Slots |-> NoBackup] \in [Slots -> Content] BY ConstantsApart
  <2>6. backup' \in [Deployers -> [Slots -> Content]]
    BY <2>1, <2>5 DEF GuardTypeOK
  <2>7. \A e \in Deployers, f \in Slots : backup'[e][f] \in {backup[e][f], NoBackup}
    BY <2>1 DEF GuardTypeOK
  <2>8. lock.owner # d => backup' = backup BY <2>1 DEF Held
  <2>9. GuardTypeOK' BY <1>1, <2>1, <2>3, <2>4, <2>6 DEF GuardTypeOK
  <2>10. Moves(d) BY <1>1, <2>1, <2>3, <2>4, <2>7, <2>8 DEF Moves
  <2> QED BY <2>9, <2>10
<1>3. CASE ~seen
  <2>1. Continue(d, FALSE) /\ UNCHANGED <<outcome, backup>> BY <1>3 DEF Activate
  <2>2. /\ stage' \in [Actors -> Stages] /\ step' \in [Deployers -> 1 .. 12]
        /\ undo' \in [Deployers -> SUBSET Slots]
        /\ \A b \in Actors \ {d} : stage'[b] = stage[b]
        /\ \A e \in Deployers \ {d} : step'[e] = step[e] /\ undo'[e] = undo[e]
    BY <2>1, ContinueTyped
  <2>3. GuardTypeOK' BY <1>1, <2>1, <2>2 DEF GuardTypeOK
  <2>4. Moves(d) BY <1>1, <2>1, <2>2 DEF Moves
  <2> QED BY <2>3, <2>4
<1> QED BY <1>2, <1>3

\* What a rollback command restores is a file, or what is there.
LEMMA RestoredTyped ==
  ASSUME GuardTypeOK, NEW d \in Deployers, OwnOf(d), Owns(d), NEW f \in Slots
  PROVE  /\ Restored(d, f) \in Content /\ File(Restored(d, f))
         /\ Restored(d, f) = files[f] \/ Restored(d, f) = backup[d][f]
<1>1. SlotInv(d, f) BY DEF OwnOf
<1>2. backup[d][f] \in {NoBackup, base[d].files[f]} /\ File(base[d].files[f])
  BY <1>1 DEF SlotInv
<1>3. files[f] \in Content /\ File(files[f]) BY DEF GuardTypeOK
<1> QED BY <1>2, <1>3 DEF Restored, File

LEMMA RollBackMoves ==
  ASSUME GuardTypeOK, NEW d \in Deployers, OwnOf(d), NEW ran \in BOOLEAN, NEW seen \in BOOLEAN,
         RollBackSlot(d, ran, seen)
  PROVE  GuardTypeOK' /\ Moves(d)
<1>0. d \in Actors BY ConstantsApart
<1>1. PICK f \in undo[d] :
        /\ IF ran THEN /\ files' = [files EXCEPT ![f] = Restored(d, f)]
                       /\ backup' = [backup EXCEPT ![d][f] = NoBackup]
                  ELSE UNCHANGED <<files, backup>>
        /\ undo' = [undo EXCEPT ![d] = @ \ {f}]
        /\ Goto(d, IF undo[d] # {f} THEN stage[d]
                   ELSE IF stage[d] = "helper" THEN "owned" ELSE "discard")
  BY DEF RollBackSlot
<1> DEFINE s == IF undo[d] # {f} THEN stage[d]
                ELSE IF stage[d] = "helper" THEN "owned" ELSE "discard"
<1>2. f \in Slots BY <1>1 DEF GuardTypeOK
<1>3. s \in Stages BY <1>0 DEF Stages, Tx, GuardTypeOK
<1>4. Goto(d, s) BY <1>1
<1> HIDE DEF s
<1>5. stage' \in [Actors -> Stages] /\ \A b \in Actors \ {d} : stage'[b] = stage[b]
  BY <1>0, <1>3, <1>4, GotoTyped
<1>6. undo' \in [Deployers -> SUBSET Slots] /\ \A e \in Deployers \ {d} : undo'[e] = undo[e]
  BY <1>1 DEF GuardTypeOK
<1>7. /\ proven' \in [Deployers -> BOOLEAN]
      /\ \A e \in Deployers \ {d} : proven'[e] = proven[e]
  BY DEF RollBackSlot, GuardTypeOK
<1>8. UNCHANGED <<daemon, nextPid, lock, step, mypid, base, outcome, interrupted, proof>>
  BY DEF RollBackSlot
<1>9. ran => lock.owner = d /\ Owns(d)
  BY DEF RollBackSlot, Command, Held, Owns, Tx
<1>10. CASE ran
  <2>1. /\ Restored(d, f) \in Content /\ File(Restored(d, f))
        /\ Restored(d, f) = files[f] \/ Restored(d, f) = backup[d][f]
    BY <1>2, <1>9, <1>10, RestoredTyped
  <2>2. /\ files' = [files EXCEPT ![f] = Restored(d, f)]
        /\ backup' = [backup EXCEPT ![d] = [backup[d] EXCEPT ![f] = NoBackup]]
    BY <1>1, <1>10
  <2>3. files' \in [Slots -> Content] /\ \A g \in Slots : File(files'[g])
    BY <1>2, <2>1, <2>2 DEF GuardTypeOK
  <2>4. \A g \in Slots : files'[g] = files[g] \/ files'[g] = backup[d][g]
    BY <1>2, <2>1, <2>2 DEF GuardTypeOK
  <2>5. [backup[d] EXCEPT ![f] = NoBackup] \in [Slots -> Content]
    BY <1>2, ConstantsApart DEF GuardTypeOK
  <2>6. backup' \in [Deployers -> [Slots -> Content]]
    BY <2>2, <2>5 DEF GuardTypeOK
  <2>7. \A e \in Deployers, g \in Slots : backup'[e][g] \in {backup[e][g], NoBackup}
    BY <1>2, <2>2 DEF GuardTypeOK
  <2>8. GuardTypeOK' BY <1>5, <1>6, <1>7, <1>8, <2>3, <2>6 DEF GuardTypeOK
  <2>9. Moves(d) BY <1>5, <1>6, <1>7, <1>8, <1>9, <1>10, <2>4, <2>7 DEF Moves
  <2> QED BY <2>8, <2>9
<1>11. CASE ~ran
  <2>1. UNCHANGED <<files, backup>> BY <1>1, <1>11
  <2>2. GuardTypeOK' BY <1>5, <1>6, <1>7, <1>8, <2>1 DEF GuardTypeOK
  <2>3. Moves(d) BY <1>5, <1>6, <1>7, <1>8, <2>1 DEF Moves
  <2> QED BY <2>2, <2>3
<1> QED BY <1>10, <1>11

LEMMA CheckOwnedMoves ==
  ASSUME GuardTypeOK, NEW d \in Deployers, NEW seen \in BOOLEAN, CheckOwned(d, seen)
  PROVE  GuardTypeOK' /\ Moves(d)
<1> DEFINE s == IF ~seen THEN "release" ELSE IF StartAttempted(d) THEN "quiesce"
                ELSE IF TransactionUndo(d) = {} THEN "discard" ELSE "undo"
<1>0. d \in Actors BY ConstantsApart
<1>1. s \in Stages /\ Goto(d, s) BY DEF CheckOwned, Stages, Ended, Tx
<1> HIDE DEF s
<1>2. stage' \in [Actors -> Stages] /\ \A b \in Actors \ {d} : stage'[b] = stage[b]
  BY <1>0, <1>1, GotoTyped
<1>3. TransactionUndo(d) \in SUBSET Slots BY DEF TransactionUndo
<1>4. undo' \in [Deployers -> SUBSET Slots] /\ \A e \in Deployers \ {d} : undo'[e] = undo[e]
  BY <1>3 DEF CheckOwned, GuardTypeOK
<1>5. /\ outcome' \in [Deployers -> {"none", "ok", "failed", "uncertain"}]
      /\ \A e \in Deployers \ {d} : outcome'[e] = outcome[e]
  BY DEF CheckOwned, GuardTypeOK
<1>6. UNCHANGED <<files, backup, daemon, nextPid, lock, step, mypid, base, proven, interrupted,
                  proof>>
  BY DEF CheckOwned, host
<1>7. GuardTypeOK' BY <1>2, <1>4, <1>5, <1>6 DEF GuardTypeOK
<1>8. Moves(d) BY <1>2, <1>4, <1>5, <1>6 DEF Moves
<1> QED BY <1>7, <1>8

LEMMA QuiesceMoves ==
  ASSUME GuardTypeOK, NEW d \in Deployers, NEW ran \in BOOLEAN, NEW seen \in BOOLEAN,
         Quiesce(d, ran, seen)
  PROVE  GuardTypeOK' /\ Moves(d)
<1>0. d \in Actors BY ConstantsApart
<1>1. "undo" \in Stages /\ Goto(d, "undo") BY DEF Quiesce, Stages, Tx
<1>2. stage' \in [Actors -> Stages] /\ \A b \in Actors \ {d} : stage'[b] = stage[b]
  BY <1>0, <1>1, GotoTyped
<1>3. /\ proven' \in [Deployers -> BOOLEAN]
      /\ \A e \in Deployers \ {d} : proven'[e] = proven[e]
  BY DEF Quiesce, GuardTypeOK
<1>4. /\ daemon' \in [state : {"down", "unready", "ready"}, pid : Nat,
                      bin : Deployments \union {None}, config : Deployments \union {None}]
      /\ daemon'.bin \in {daemon.bin, None} /\ (lock.owner # d => daemon' = daemon)
      /\ daemon'.state = "down" => daemon'.bin = None
  BY DEF Quiesce, Command, Held, Down, GuardTypeOK
<1>5. UNCHANGED <<files, backup, nextPid, lock, step, undo, mypid, base, outcome, interrupted,
                  proof>>
  BY DEF Quiesce
<1>6. GuardTypeOK' BY <1>2, <1>3, <1>4, <1>5 DEF GuardTypeOK
<1>7. Moves(d) BY <1>2, <1>3, <1>4, <1>5 DEF Moves
<1> QED BY <1>6, <1>7

LEMMA DiscardMoves ==
  ASSUME GuardTypeOK, NEW d \in Deployers, NEW seen \in BOOLEAN, Discard(d, seen)
  PROVE  GuardTypeOK' /\ Moves(d)
<1> DEFINE s == IF StartAttempted(d) THEN "restore" ELSE "release"
<1>0. d \in Actors BY ConstantsApart
<1>1. s \in Stages /\ Goto(d, s) BY DEF Discard, Stages, Ended, Tx
<1> HIDE DEF s
<1>2. stage' \in [Actors -> Stages] /\ \A b \in Actors \ {d} : stage'[b] = stage[b]
  BY <1>0, <1>1, GotoTyped
<1>3. /\ proven' \in [Deployers -> BOOLEAN]
      /\ \A e \in Deployers \ {d} : proven'[e] = proven[e]
  BY DEF Discard, GuardTypeOK
<1>4. /\ outcome' \in [Deployers -> {"none", "ok", "failed", "uncertain"}]
      /\ \A e \in Deployers \ {d} : outcome'[e] = outcome[e]
  BY DEF Discard, Verdict, GuardTypeOK
<1>5. UNCHANGED <<files, backup, daemon, nextPid, lock, step, undo, mypid, base, interrupted,
                  proof>>
  BY DEF Discard, host
<1>6. GuardTypeOK' BY <1>2, <1>3, <1>4, <1>5 DEF GuardTypeOK
<1>7. Moves(d) BY <1>2, <1>3, <1>4, <1>5 DEF Moves
<1> QED BY <1>6, <1>7

LEMMA RestoreMoves ==
  ASSUME GuardTypeOK, NEW d \in Deployers, NEW ran \in BOOLEAN, NEW seen \in BOOLEAN,
         NEW state \in {"down", "unready", "ready"}, RestoreGuard(d, ran, seen, state)
  PROVE  GuardTypeOK' /\ Moves(d)
<1>0. d \in Actors BY ConstantsApart
<1>1. "verify" \in Stages /\ Goto(d, "verify") BY DEF RestoreGuard, Stages, Tx
<1>2. stage' \in [Actors -> Stages] /\ \A b \in Actors \ {d} : stage'[b] = stage[b]
  BY <1>0, <1>1, GotoTyped
<1>3. /\ proven' \in [Deployers -> BOOLEAN]
      /\ \A e \in Deployers \ {d} : proven'[e] = proven[e]
  BY DEF RestoreGuard, GuardTypeOK
<1>4. "config" \in Slots /\ "binary" \in Slots BY DEF Slots
<1> DEFINE conf == IF base[d].files["config"] = Empty THEN None ELSE files["config"].by
<1>5. files["binary"].by \in Deployments \union {None} /\ conf \in Deployments \union {None}
  BY <1>4 DEF GuardTypeOK, Content
<1>6. daemon' = IF ~ran THEN daemon ELSE IF state = "down" THEN Down
                ELSE Process(state, files["binary"].by, conf)
  BY DEF RestoreGuard
<1> HIDE DEF conf
<1>7. /\ daemon' \in [state : {"down", "unready", "ready"}, pid : Nat,
                      bin : Deployments \union {None}, config : Deployments \union {None}]
      /\ daemon'.bin \in {daemon.bin, None, files["binary"].by}
      /\ daemon'.state = "down" => daemon'.bin = None
  BY <1>5, <1>6 DEF Down, Process, GuardTypeOK
<1>8. (lock.owner # d => daemon' = daemon) /\ nextPid' \in Nat
  BY DEF RestoreGuard, Command, Held, GuardTypeOK
<1>9. UNCHANGED <<files, backup, lock, step, undo, mypid, base, outcome, interrupted, proof>>
  BY DEF RestoreGuard
<1>10. GuardTypeOK' BY <1>2, <1>3, <1>7, <1>8, <1>9 DEF GuardTypeOK
<1>11. Moves(d) BY <1>2, <1>3, <1>7, <1>8, <1>9 DEF Moves
<1> QED BY <1>10, <1>11

LEMMA VerifyMoves ==
  ASSUME GuardTypeOK, NEW d \in Deployers, NEW seen \in BOOLEAN, Verify(d, seen)
  PROVE  GuardTypeOK' /\ Moves(d)
<1>0. d \in Actors BY ConstantsApart
<1>1. "release" \in Stages /\ Goto(d, "release") BY DEF Verify, Stages, Ended
<1>2. stage' \in [Actors -> Stages] /\ \A b \in Actors \ {d} : stage'[b] = stage[b]
  BY <1>0, <1>1, GotoTyped
<1>3. /\ outcome' \in [Deployers -> {"none", "ok", "failed", "uncertain"}]
      /\ \A e \in Deployers \ {d} : outcome'[e] = outcome[e]
  BY DEF Verify, Verdict, GuardTypeOK
<1>4. UNCHANGED <<files, backup, daemon, nextPid, lock, step, undo, mypid, base, proven,
                  interrupted, proof>>
  BY DEF Verify, host
<1>5. GuardTypeOK' BY <1>2, <1>3, <1>4 DEF GuardTypeOK
<1>6. Moves(d) BY <1>2, <1>3, <1>4 DEF Moves
<1> QED BY <1>5, <1>6

LEMMA EndMoves ==
  ASSUME GuardTypeOK, NEW d \in Deployers, Interrupt(d) \/ CrashGuard(d)
  PROVE  GuardTypeOK' /\ Moves(d)
<1>0. d \in Actors BY ConstantsApart
<1>1. /\ stage' \in [Actors -> Stages] /\ \A b \in Actors \ {d} : stage'[b] = stage[b]
      /\ interrupted' \in [Deployers -> BOOLEAN]
  <2>1. "crashed" \in Stages BY DEF Stages, Ended
  <2>2. CASE Interrupt(d) BY <2>2 DEF Interrupt, GuardTypeOK
  <2>3. CASE CrashGuard(d) BY <1>0, <2>1, <2>3, GotoTyped DEF CrashGuard, GuardTypeOK
  <2> QED BY <2>2, <2>3
<1>2. UNCHANGED <<files, backup, daemon, nextPid, lock, step, undo, mypid, base, proven,
                  outcome, proof>>
  BY DEF Interrupt, CrashGuard, host
<1>3. GuardTypeOK' BY <1>1, <1>2 DEF GuardTypeOK
<1>4. Moves(d) BY <1>1, <1>2 DEF Moves
<1> QED BY <1>3, <1>4

LEMMA ProveMoves ==
  ASSUME GuardTypeOK, NEW a \in Closers, NEW seen \in BOOLEAN, Prove(a, seen)
  PROVE  /\ GuardTypeOK' /\ Moves(a) /\ stage'[a] = "release"
         /\ \A f \in Slots : files'[f].by = files[f].by
<1>0. a \in Actors BY ConstantsApart
<1> DEFINE m == files["manifest"]
           adopt == m # Empty /\ Alive /\ daemon.pid # m.pid /\ LineageMatches(m)
           shown == IF adopt THEN [m EXCEPT !.pid = daemon.pid] ELSE m
           p == [state |-> "taken", manifest |-> shown, alive |-> Alive, pid |-> daemon.pid]
<1>1. "release" \in Stages /\ Goto(a, "release") BY DEF Prove, Stages, Ended
<1>2. /\ stage' \in [Actors -> Stages] /\ \A b \in Actors \ {a} : stage'[b] = stage[b]
      /\ stage'[a] = "release"
  BY <1>0, <1>1, GotoTyped
<1>3. IF seen THEN files' = [files EXCEPT !["manifest"] = shown] /\ proof' = [proof EXCEPT ![a] = p]
              ELSE UNCHANGED <<files, proof>>
  BY DEF Prove
<1>4. seen => lock.owner = a BY DEF Prove, Command, Held
<1>5. "manifest" \in Slots /\ m \in Content /\ File(m) /\ daemon.pid \in Nat
  BY DEF Slots, GuardTypeOK
<1>6. shown \in Content /\ shown.by = m.by /\ File(shown)
  BY <1>5 DEF Content, File
<1> HIDE DEF shown
<1>7. p \in [state : {"none", "taken", "used", "waived"}, manifest : Content, alive : BOOLEAN,
             pid : Nat]
  BY <1>5, <1>6 DEF Alive
<1> HIDE DEF p
<1>8. /\ files' \in [Slots -> Content] /\ (\A f \in Slots : File(files'[f]))
      /\ (\A f \in Slots : files'[f].by = files[f].by)
      /\ proof' \in [Closers -> [state : {"none", "taken", "used", "waived"}, manifest : Content,
                                 alive : BOOLEAN, pid : Nat]]
      /\ \A b \in Closers \ {a} : proof'[b] = proof[b]
  <2>1. CASE seen
    <3>1. files' = [files EXCEPT !["manifest"] = shown] /\ proof' = [proof EXCEPT ![a] = p]
      BY <1>3, <2>1
    <3>2. /\ files' \in [Slots -> Content] /\ (\A f \in Slots : File(files'[f]))
          /\ (\A f \in Slots : files'[f].by = files[f].by)
      BY <1>5, <1>6, <3>1 DEF GuardTypeOK
    <3> QED BY <1>7, <3>1, <3>2 DEF GuardTypeOK
  <2>2. CASE ~seen BY <1>3, <2>2 DEF GuardTypeOK
  <2> QED BY <2>1, <2>2
<1>9. UNCHANGED <<backup, daemon, nextPid, lock, step, undo, mypid, base, proven, outcome,
                  interrupted>>
  BY DEF Prove
<1>10. GuardTypeOK' BY <1>2, <1>8, <1>9 DEF GuardTypeOK
<1>11. Moves(a) BY <1>2, <1>3, <1>4, <1>8, <1>9 DEF Moves
<1> QED BY <1>2, <1>8, <1>10, <1>11

\* The steps of a teardown that leave the host alone.
LEMMA TeardownMoves ==
  ASSUME GuardTypeOK, NEW a \in Closers,
         BeginTeardown(a) \/ StopAnyway(a) \/ \E seen \in BOOLEAN : CheckExpected(a, seen)
  PROVE  GuardTypeOK' /\ Moves(a) /\ UNCHANGED <<files, daemon, lock>>
<1>0. a \in Actors BY ConstantsApart
<1>1. UNCHANGED <<files, backup, daemon, nextPid, lock, step, undo, mypid, base, proven, outcome,
                  interrupted>>
  BY DEF BeginTeardown, StopAnyway, CheckExpected, host
<1>2. /\ \/ proof' = [proof EXCEPT ![a].state = "used"]
         \/ proof' = [proof EXCEPT ![a].state = "waived"]
         \/ proof' = proof
      /\ \E s \in {"lock", "remove", "release"} : Goto(a, s)
  BY DEF BeginTeardown, StopAnyway, CheckExpected
<1>3. /\ stage' \in [Actors -> Stages] /\ \A b \in Actors \ {a} : stage'[b] = stage[b]
  BY <1>0, <1>2, GotoTyped DEF Stages, Ended
<1>4. /\ proof' \in [Closers -> [state : {"none", "taken", "used", "waived"}, manifest : Content,
                                 alive : BOOLEAN, pid : Nat]]
      /\ \A b \in Closers \ {a} : proof'[b] = proof[b]
  <2>0. proof[a] \in [state : {"none", "taken", "used", "waived"}, manifest : Content,
                      alive : BOOLEAN, pid : Nat]
    BY DEF GuardTypeOK
  <2>1. /\ [proof[a] EXCEPT !.state = "used"] \in
             [state : {"none", "taken", "used", "waived"}, manifest : Content, alive : BOOLEAN,
              pid : Nat]
        /\ [proof[a] EXCEPT !.state = "waived"] \in
             [state : {"none", "taken", "used", "waived"}, manifest : Content, alive : BOOLEAN,
              pid : Nat]
    BY <2>0
  <2>2. \/ proof' = [proof EXCEPT ![a] = [proof[a] EXCEPT !.state = "used"]]
        \/ proof' = [proof EXCEPT ![a] = [proof[a] EXCEPT !.state = "waived"]]
        \/ proof' = proof
    BY <1>2
  <2> DEFINE u == [proof[a] EXCEPT !.state = "used"]
             w == [proof[a] EXCEPT !.state = "waived"]
  <2> HIDE DEF u, w
  <2>3. CASE proof' = [proof EXCEPT ![a] = u] BY <2>1, <2>3 DEF GuardTypeOK, u
  <2>4. CASE proof' = [proof EXCEPT ![a] = w] BY <2>1, <2>4 DEF GuardTypeOK, w
  <2>5. CASE proof' = proof BY <2>5 DEF GuardTypeOK
  <2> QED BY <2>2, <2>3, <2>4, <2>5 DEF u, w
<1>5. GuardTypeOK' BY <1>1, <1>3, <1>4 DEF GuardTypeOK
<1>6. Moves(a) BY <1>1, <1>3, <1>4 DEF Moves
<1> QED BY <1>1, <1>5, <1>6

LEMMA RemoveMoves ==
  ASSUME GuardTypeOK, NEW a \in Closers, NEW ran \in BOOLEAN, NEW seen \in BOOLEAN,
         Remove(a, ran, seen)
  PROVE  /\ GuardTypeOK' /\ Moves(a) /\ stage'[a] = "release"
         /\ ran => lock.owner = a /\ daemon' = Down /\ \A f \in InstallSlots : files'[f] = Empty
         /\ ~ran => UNCHANGED <<files, backup, daemon, lock>>
<1>0. a \in Actors BY ConstantsApart
<1>1. "release" \in Stages /\ Goto(a, "release") BY DEF Remove, Stages, Ended
<1>2. /\ stage' \in [Actors -> Stages] /\ \A b \in Actors \ {a} : stage'[b] = stage[b]
      /\ stage'[a] = "release"
  BY <1>0, <1>1, GotoTyped
<1>3. UNCHANGED <<nextPid, step, undo, mypid, base, proven, outcome, interrupted, proof>>
  BY DEF Remove
<1>4. CASE ran
  <2>1. /\ files' = [f \in Slots |-> IF f \in InstallSlots THEN Empty ELSE files[f]]
        /\ backup' = [d \in Deployers |-> [f \in Slots |->
                        IF f \in InstallSlots THEN NoBackup ELSE backup[d][f]]]
        /\ daemon' = Down /\ lock' = [owner |-> None, live |-> FALSE] /\ lock.owner = a
    BY <1>4 DEF Remove, Removable, Command, Held
  <2>2. \A f \in Slots : files'[f] = Empty \/ files'[f] = files[f] BY <2>1
  <2>3. \A f \in Slots : File(files'[f]) BY <2>2, ConstantsApart DEF GuardTypeOK
  <2>4. files' \in [Slots -> Content] BY <2>1, ConstantsApart DEF GuardTypeOK
  <2>5. backup' \in [Deployers -> [Slots -> Content]] BY <2>1, ConstantsApart DEF GuardTypeOK
  <2>6. \A e \in Deployers, f \in Slots : backup'[e][f] \in {backup[e][f], NoBackup}
    BY <2>1
  <2>7. /\ daemon' \in [state : {"down", "unready", "ready"}, pid : Nat,
                        bin : Deployments \union {None}, config : Deployments \union {None}]
        /\ daemon'.bin = None
    BY <2>1 DEF Down
  <2>8. lock' \in [owner : Actors \union {None}, live : BOOLEAN] /\ lock'.owner = None BY <2>1
  <2>9. \A f \in Slots : files'[f].by \in {files[f].by, a, None} BY <2>2 DEF Empty
  <2>10. \A f \in InstallSlots : files'[f] = Empty BY <2>1 DEF InstallSlots
  <2>11. GuardTypeOK' BY <1>2, <1>3, <2>3, <2>4, <2>5, <2>7, <2>8 DEF GuardTypeOK
  <2>12. Moves(a) BY <1>2, <1>3, <2>1, <2>6, <2>7, <2>8, <2>9 DEF Moves
  <2> QED BY <1>2, <1>4, <2>1, <2>10, <2>11, <2>12
<1>5. CASE ~ran
  <2>1. UNCHANGED <<files, backup, daemon, lock>> BY <1>5 DEF Remove
  <2>2. GuardTypeOK' BY <1>2, <1>3, <2>1 DEF GuardTypeOK
  <2>3. Moves(a) BY <1>2, <1>3, <2>1 DEF Moves
  <2> QED BY <1>2, <1>5, <2>1, <2>2, <2>3
<1> QED BY <1>4, <1>5

(***************************************************************************)
(* What an actor does leaves the others as they are.                       *)
(***************************************************************************)
LEMMA OthersKeep ==
  ASSUME GuardInv, GuardTypeOK', NEW a \in Actors, Moves(a), NEW d \in Deployers, d # a
  PROVE  /\ StageOf(d)' /\ OwnOf(d)' /\ FailedOf(d)' /\ CleanOf(d)'
         /\ Cut(d) => Cut(d)'
<1>0. /\ GuardTypeOK /\ StageOf(d) /\ OwnOf(d) /\ FailedOf(d) /\ CleanOf(d)
      /\ d \in Actors /\ d # None
  BY ConstantsApart DEF GuardInv, StageInv, OwnInv, FailedInv, CleanInv
<1>1. /\ stage'[d] = stage[d] /\ step'[d] = step[d] /\ undo'[d] = undo[d] /\ mypid'[d] = mypid[d]
      /\ base'[d] = base[d] /\ proven'[d] = proven[d] /\ outcome'[d] = outcome[d]
  BY <1>0 DEF Moves
<1>2. lock'.owner = d => /\ lock.owner = d
                         /\ files' = files /\ backup' = backup /\ daemon' = daemon
  BY <1>0 DEF Moves
<1>3. lock.owner # d => lock'.owner # d BY <1>2
<1>4. \A f \in Slots : backup'[d][f] \in {backup[d][f], NoBackup} BY DEF Moves
<1>5. StageOf(d)'
  BY <1>0, <1>1, <1>3, <1>4 DEF StageOf
<1>6. OwnOf(d)'
  <2>1. SUFFICES ASSUME Owns(d)' PROVE OwnOf(d)' BY DEF OwnOf
  <2>2. Owns(d) /\ files' = files /\ backup' = backup /\ daemon' = daemon
    BY <1>1, <1>2, <2>1 DEF Owns
  <2>3. Remaining(d)' = Remaining(d)
    BY <1>1 DEF Remaining, TransactionUndo
  <2>4. \A f \in Slots : SlotInv(d, f)'
    BY <1>0, <1>1, <2>2, <2>3 DEF OwnOf, SlotInv
  <2> QED BY <1>0, <1>1, <2>2, <2>4 DEF OwnOf
<1>7. FailedOf(d)'
  BY <1>0, <1>1, <1>2 DEF FailedOf
<1>8. CleanOf(d)'
  <2>1. SUFFICES ASSUME CleanDue(d)' PROVE Clean(d)' BY DEF CleanOf
  <2>2. Clean(d) BY <1>0, <1>1, <2>1 DEF CleanOf, CleanDue
  <2>3. ASSUME NEW e \in Deployers, lock'.owner = e, NEW f \in Slots PROVE backup'[e][f].by # d
    <3>1. CASE lock.owner = e
      BY <1>0, <2>2, <2>3, <3>1 DEF Clean, Moves, NoBackup
    <3>2. CASE lock.owner # e
      <4>1. e = a /\ stage[a] = "lock" BY <2>3, <3>2, ConstantsApart DEF Moves
      <4>2. backup[a][f] = NoBackup /\ backup' = backup
        BY <3>2, <4>1 DEF Moves, GuardInv, StageInv, StageOf
      <4> QED BY <1>0, <4>1, <4>2 DEF NoBackup
    <3> QED BY <3>1, <3>2
  <2>4. CASE lock.owner # a
    BY <2>2, <2>3, <2>4 DEF Clean, Moves
  <2>5. CASE lock.owner = a
    <3>1. \A f \in Slots : files'[f].by # d
      BY <1>0, <2>2, <2>5 DEF Clean, Moves
    <3>2. daemon'.bin # d
      BY <1>0, <2>2 DEF Clean, Moves, Slots
    <3> QED BY <2>3, <3>1, <3>2 DEF Clean
  <2> QED BY <2>4, <2>5
<1>9. Cut(d) => Cut(d)'
  BY <1>1, <1>3 DEF Cut, Doomed
<1> QED BY <1>5, <1>6, <1>7, <1>8, <1>9

LEMMA OtherTeardowns ==
  ASSUME GuardInv, GuardTypeOK', NEW a \in Actors, Moves(a), NEW b \in Closers, b # a
  PROVE  RemoveOf(b)'
<1>1. /\ stage'[b] = stage[b] /\ proof'[b] = proof[b] /\ b # None
  BY ConstantsApart DEF Moves
<1>2. lock'.owner = b => lock.owner = b /\ files' = files
  BY <1>1 DEF Moves
<1> QED BY <1>1, <1>2 DEF RemoveOf, GuardInv, RemoveInv

(***************************************************************************)
(* What a deployer does to its own part.                                   *)
(***************************************************************************)
Mine(d) == StageOf(d) /\ OwnOf(d) /\ FailedOf(d) /\ CleanOf(d)

\* How a step of d may end its transaction, and what it does to the running binary.
Ends(d) ==
  /\ Cut(d) => Cut(d)'
  /\ ~Owns(d) => files' = files
  /\ ~Cut(d)' =>
       /\ daemon'.state # "down" =>
            \/ daemon'.bin = files'["binary"].by
            \/ daemon' = daemon /\ files'["binary"] = files["binary"]
       /\ Owns(d) /\ ~Owns(d)' => \/ \A f \in Slots : files'[f].by = d
                                  \/ files' = base[d].files

LEMMA Parts ==
  ASSUME GuardInv, NEW d \in Deployers
  PROVE  /\ GuardTypeOK /\ StageOf(d) /\ OwnOf(d) /\ FailedOf(d) /\ CleanOf(d)
         /\ d \in Actors /\ d # None /\ d \notin Closers
         /\ step[d] \in 1 .. 12 /\ stage[d] \in Stages /\ proven[d] \in BOOLEAN
         /\ files \in [Slots -> Content] /\ base[d].files \in [Slots -> Content]
BY ConstantsApart DEF GuardInv, StageInv, OwnInv, FailedInv, CleanInv, GuardTypeOK

\* Once every slot has been rolled back, and nothing failed, the files are what was found.
LEMMA UndoneIsBase ==
  ASSUME GuardInv, NEW d \in Deployers, Owns(d), stage[d] \in Undone, proven[d] = TRUE
  PROVE  files = base[d].files
<1>1. /\ GuardTypeOK /\ StageOf(d) /\ OwnOf(d)
      /\ files \in [Slots -> Content] /\ base[d].files \in [Slots -> Content]
  BY Parts
<1>2. undo[d] = {} BY <1>1 DEF StageOf
<1>3. Remaining(d) = {} /\ stage[d] # "run" BY <1>2 DEF Remaining, Undone
<1>4. \A f \in Slots : files[f] = base[d].files[f]
  BY <1>1, <1>3 DEF OwnOf, SlotInv
<1> QED BY <1>1, <1>4

\* Before the activation the five parts are those of the deployment.
LEMMA ThroughIsOwn ==
  ASSUME GuardInv, NEW d \in Deployers, Owns(d), stage[d] = "run", step[d] = 12
  PROVE  (\A f \in Slots : files[f].by = d) /\ files["manifest"].pid = mypid[d]
<1>1. OwnOf(d) BY Parts
<1>2. \A f \in Slots : 12 > PubAt[f] BY DEF Slots, PubAt
<1> QED BY <1>1, <1>2 DEF OwnOf, SlotInv

\* A slot after a command of the script: what was found, or published with a backup.
Touched(d, f) ==
  /\ files'[f] = base[d].files[f] \/ files'[f].by = d
  /\ backup'[d][f] \in {NoBackup, base[d].files[f]}
  /\ files'[f].by = d => step[d] >= PubAt[f] /\ backup'[d][f] = base[d].files[f]

\* A failed command leaves every slot that was published to one of the rollbacks.
LEMMA CommandFails ==
  ASSUME GuardInv, NEW d \in Deployers, Owns(d), base' = base, Continue(d, FALSE),
         \A f \in Slots : Touched(d, f)
  PROVE  \A f \in Slots : SlotInv(d, f)'
<1>1. /\ GuardTypeOK /\ OwnOf(d) /\ step[d] \in 1 .. 12 BY Parts
<1>2. /\ step'[d] = step[d] /\ undo'[d] = HelperUndo(d)
      /\ stage'[d] = IF HelperUndo(d) = {} THEN "owned" ELSE "helper"
  BY <1>1, ContinueTyped
<1>3. \A f \in Slots : step[d] >= PubAt[f] => f \in HelperUndo(d) \union TransactionUndo(d)
  BY <1>1, ScriptFacts
<1>4. TransactionUndo(d)' = TransactionUndo(d) BY <1>2 DEF TransactionUndo
<1>5. Remaining(d)' = HelperUndo(d) \union TransactionUndo(d)
  BY <1>2, <1>4 DEF Remaining
<1>6. \A f \in Slots : base[d].files[f].by # d /\ File(base[d].files[f])
  BY <1>1 DEF OwnOf, SlotInv
<1>7. stage'[d] # "run" BY <1>2
<1> QED BY <1>2, <1>3, <1>5, <1>6, <1>7 DEF Touched, SlotInv

\* A command that succeeded has published and prepared what the script says.
LEMMA CommandSucceeds ==
  ASSUME GuardInv, NEW d \in Deployers, Owns(d), stage[d] = "run", base' = base,
         Continue(d, TRUE), step[d] <= 11,
         \A f \in Slots : /\ Touched(d, f)
                          /\ step[d] >= PubAt[f] => files'[f].by = d
                          /\ step[d] >= PrepAt[f] => backup'[d][f] = base[d].files[f]
  PROVE  \A f \in Slots : SlotInv(d, f)'
<1>1. /\ GuardTypeOK /\ OwnOf(d) /\ step[d] \in 1 .. 12 BY Parts
<1>2. step'[d] = step[d] + 1 /\ stage'[d] = "run"
  BY <1>1, ContinueTyped
<1>3. \A f \in Slots : base[d].files[f].by # d /\ File(base[d].files[f])
  BY <1>1 DEF OwnOf, SlotInv
<1>4. \A f \in Slots : PubAt[f] \in Nat /\ PrepAt[f] \in Nat
  BY DEF Slots, PubAt, PrepAt
<1> QED BY <1>1, <1>2, <1>3, <1>4 DEF Touched, SlotInv

LEMMA AcquireKeeps ==
  ASSUME GuardInv, NEW d \in Deployers, NEW ran \in BOOLEAN, NEW seen \in BOOLEAN,
         AcquireLock(d, ran, seen)
  PROVE  Mine(d)' /\ Ends(d)
<1>0. /\ GuardTypeOK /\ StageOf(d) /\ CleanOf(d) /\ d \in Actors /\ d # None BY Parts
<1>1. stage[d] = "lock" BY DEF AcquireLock
<1>2. /\ step[d] = 1 /\ proven[d] = TRUE /\ outcome[d] = "none" /\ lock.owner # d
      /\ \A f \in Slots : backup[d][f] = NoBackup
  BY <1>0, <1>1 DEF StageOf, Ended
<1>3. Clean(d) BY <1>0, <1>1 DEF CleanOf, CleanDue
<1>4. UNCHANGED <<files, backup, daemon, step, undo, base, proven>> BY DEF AcquireLock, host
<1>5. /\ stage'[d] = IF seen THEN "locked" ELSE "release"
      /\ outcome'[d] = IF seen THEN "none" ELSE "failed"
      /\ lock'.owner = lock.owner \/ lock'.owner = d
  BY <1>0, <1>2 DEF AcquireLock, Goto, GuardTypeOK
<1>6. StageOf(d)' BY <1>2, <1>4, <1>5 DEF StageOf, Ended, Tx, Undone
<1>7. Owns(d)' = FALSE /\ Owns(d) = FALSE BY <1>1, <1>5 DEF Owns, Tx
<1>8. OwnOf(d)' BY <1>7 DEF OwnOf
<1>9. FailedOf(d)' BY <1>2, <1>4 DEF FailedOf
<1>10. CleanOf(d)'
  <2>1. Clean(d)'
    BY <1>0, <1>2, <1>3, <1>4, <1>5 DEF Clean, NoBackup
  <2> QED BY <2>1 DEF CleanOf
<1>11. Cut(d) = FALSE BY <1>1, <1>2 DEF Cut, Doomed
<1>12. Ends(d) BY <1>4, <1>7, <1>11 DEF Ends
<1> QED BY <1>6, <1>8, <1>9, <1>10, <1>12 DEF Mine

LEMMA ReleaseKeeps ==
  ASSUME GuardInv, NEW d \in Deployers, NEW ran \in BOOLEAN, ReleaseLock(d, ran)
  PROVE  Mine(d)' /\ Ends(d)
<1>0. /\ GuardTypeOK /\ StageOf(d) /\ CleanOf(d) /\ d \in Actors /\ d # None /\ d \notin Closers
  BY Parts
<1>1. stage[d] = "release" /\ stage'[d] = "done"
  BY <1>0 DEF ReleaseLock, Goto, GuardTypeOK
<1>2. UNCHANGED <<files, backup, daemon, step, undo, base, proven, outcome>>
  BY DEF ReleaseLock, host
<1>3. lock'.owner = lock.owner \/ lock'.owner = None BY DEF ReleaseLock
<1>4. StageOf(d)' BY <1>0, <1>1, <1>2 DEF StageOf, Ended, Tx, Undone
<1>5. Owns(d)' = FALSE /\ Owns(d) = FALSE BY <1>1 DEF Owns, Tx
<1>6. OwnOf(d)' BY <1>5 DEF OwnOf
<1>7. FailedOf(d)' BY <1>1 DEF FailedOf
<1>8. CleanOf(d)'
  <2>1. SUFFICES ASSUME CleanDue(d)' PROVE Clean(d)' BY DEF CleanOf
  <2>2. CleanDue(d) BY <1>1, <1>2, <2>1 DEF CleanDue, Undone
  <2> QED BY <1>0, <1>2, <1>3, <2>2, ConstantsApart DEF CleanOf, Clean
<1>9. Cut(d) => Cut(d)' BY <1>1, <1>2 DEF Cut, Doomed
<1>10. Ends(d) BY <1>2, <1>5, <1>9 DEF Ends
<1> QED BY <1>4, <1>6, <1>7, <1>8, <1>10 DEF Mine

LEMMA BaselineKeeps ==
  ASSUME GuardInv, NEW d \in Deployers, NEW seen \in BOOLEAN, Baseline(d, seen)
  PROVE  Mine(d)' /\ Ends(d)
<1>0. /\ GuardTypeOK /\ StageOf(d) /\ CleanOf(d) /\ d \in Actors /\ d # None BY Parts
<1>1. stage[d] = "locked" BY DEF Baseline
<1>2. /\ step[d] = 1 /\ proven[d] = TRUE /\ outcome[d] = "none"
      /\ \A f \in Slots : backup[d][f] = NoBackup
  BY <1>0, <1>1 DEF StageOf, Ended
<1>3. Clean(d) BY <1>0, <1>1 DEF CleanOf, CleanDue
<1>4. UNCHANGED <<files, backup, daemon, lock, step, undo, proven>> BY DEF Baseline, host
<1>5. /\ stage'[d] = IF seen THEN "run" ELSE "release"
      /\ outcome'[d] = IF seen THEN "none" ELSE "failed"
      /\ seen => base'[d] = [files |-> files, alive |-> Alive]
  BY <1>0, <1>2 DEF Baseline, Goto, GuardTypeOK
<1>6. StageOf(d)' BY <1>2, <1>4, <1>5 DEF StageOf, Ended, Tx, Undone
<1>7. OwnOf(d)'
  <2>1. SUFFICES ASSUME Owns(d)' PROVE OwnOf(d)' BY DEF OwnOf
  <2>2. seen BY <1>5, <2>1 DEF Owns, Tx
  <2>3. base'[d].files = files /\ stage'[d] = "run" BY <1>5, <2>2
  <2>4. \A f \in Slots : /\ PubAt[f] \in Nat /\ PrepAt[f] \in Nat
                         /\ PubAt[f] > 1 /\ PrepAt[f] >= 1
    BY DEF Slots, PubAt, PrepAt
  <2>5. \A f \in Slots : files[f].by # d /\ File(files[f])
    BY <1>0, <1>3 DEF Clean, GuardTypeOK
  <2>6. ASSUME NEW f \in Slots PROVE SlotInv(d, f)'
    <3>1. /\ files'[f] = files[f] /\ backup'[d][f] = NoBackup /\ step'[d] = 1
          /\ base'[d].files[f] = files[f]
      BY <1>2, <1>4, <2>3
    <3>2. ~(step'[d] >= PubAt[f]) /\ ~(step'[d] > PubAt[f]) /\ ~(step'[d] > PrepAt[f])
      BY <2>4, <3>1
    <3> QED BY <2>3, <2>5, <3>1, <3>2 DEF SlotInv
  <2>7. daemon'.bin # d BY <1>3, <1>4 DEF Clean
  <2> QED BY <1>2, <1>4, <2>3, <2>6, <2>7 DEF OwnOf
<1>8. FailedOf(d)' BY <1>2, <1>4 DEF FailedOf
<1>9. CleanOf(d)'
  <2>1. Clean(d)' BY <1>3, <1>4 DEF Clean
  <2> QED BY <2>1 DEF CleanOf
<1>10. Cut(d) = FALSE /\ Owns(d) = FALSE BY <1>1, <1>2 DEF Cut, Doomed, Owns, Tx
<1>11. Ends(d) BY <1>4, <1>10 DEF Ends
<1> QED BY <1>6, <1>7, <1>8, <1>9, <1>11 DEF Mine

\* What every command of the script does beside its effect on the slots.
LEMMA ScriptKeeps ==
  ASSUME GuardInv, NEW d \in Deployers, NEW seen \in BOOLEAN, stage[d] = "run",
         Continue(d, seen), seen => step[d] <= 11 /\ lock.owner = d,
         UNCHANGED <<lock, base, proven, outcome>>,
         Owns(d) => /\ \A f \in Slots : SlotInv(d, f)'
                    /\ daemon'.bin = d => step[d] >= StartAt
                    /\ seen /\ step[d] = 11 => files'["manifest"].pid = mypid'[d],
         ~Owns(d) => files' = files,
         daemon'.state # "down" => \/ daemon'.bin = files'["binary"].by
                                   \/ daemon' = daemon /\ files'["binary"] = files["binary"]
  PROVE  Mine(d)' /\ Ends(d)
<1>0. /\ GuardTypeOK /\ StageOf(d) /\ CleanOf(d) /\ step[d] \in 1 .. 12 BY Parts
<1>1. /\ seen => step'[d] = step[d] + 1 /\ stage'[d] = "run"
      /\ ~seen => /\ step'[d] = step[d] /\ undo'[d] = HelperUndo(d)
                  /\ stage'[d] = IF HelperUndo(d) = {} THEN "owned" ELSE "helper"
  BY <1>0, ContinueTyped
<1>2. "binary" \in HelperUndo(d) => step[d] = 1 BY <1>0, ScriptFacts
<1>3. proven[d] = TRUE /\ outcome[d] = "none" BY <1>0 DEF StageOf, Ended
<1>4. stage'[d] \in {"run", "helper", "owned"} BY <1>1
<1>5. StageOf(d)'
  BY <1>1, <1>2, <1>3, <1>4 DEF StageOf, Ended, Undone
<1>6. OwnOf(d)'
  <2>1. SUFFICES ASSUME Owns(d)' PROVE OwnOf(d)' BY DEF OwnOf
  <2>2. Owns(d) BY <2>1 DEF Owns, Tx
  <2>3. daemon'.bin = d => step'[d] >= StartAt BY <1>0, <1>1, <2>2 DEF StartAt
  <2>4. stage'[d] = "run" /\ step'[d] = 12 => files'["manifest"].pid = mypid'[d]
    BY <1>0, <1>1, <2>2
  <2> QED BY <1>4, <2>2, <2>3, <2>4 DEF OwnOf
<1>7. FailedOf(d)' BY <1>3 DEF FailedOf
<1>8. CleanOf(d)' BY <1>3, <1>4 DEF CleanOf, CleanDue, Undone
<1>9. Cut(d) => Cut(d)'
  <2>1. SUFFICES ASSUME Doomed(d) PROVE Doomed(d)' BY <1>3 DEF Cut
  <2>2. ~seen BY <2>1 DEF Doomed
  <2> QED BY <1>1, <2>1, <2>2 DEF Doomed
<1>10. Owns(d) => Owns(d)' BY <1>4 DEF Owns, Tx
<1>11. Ends(d) BY <1>9, <1>10 DEF Ends
<1> QED BY <1>5, <1>6, <1>7, <1>8, <1>11 DEF Mine

LEMMA PrepareKeeps ==
  ASSUME GuardInv, NEW d \in Deployers, NEW ran \in BOOLEAN, NEW seen \in BOOLEAN,
         Prepare(d, ran, seen)
  PROVE  Mine(d)' /\ Ends(d)
<1> DEFINE k == Slot(d)
<1>0. /\ GuardTypeOK /\ StageOf(d) /\ OwnOf(d) /\ step[d] \in 1 .. 12 BY Parts
<1>1. /\ stage[d] = "run" /\ Op(d) = "prepare" /\ Continue(d, seen)
      /\ ran => lock.owner = d
      /\ seen => ran
      /\ backup' = IF ran THEN [backup EXCEPT ![d] = [backup[d] EXCEPT ![k] = files[k]]] ELSE backup
      /\ UNCHANGED <<files, daemon, lock, mypid, base, proven, outcome>>
  BY DEF Prepare, Command, Held
<1>2. /\ k \in Slots /\ step[d] = PrepAt[k] /\ step[d] <= 10
      /\ \A f \in Slots : step[d] = PrepAt[f] => f = k
      /\ \A f \in Slots : step[d] # PubAt[f]
  BY <1>0, <1>1, ScriptFacts DEF PubAt
<1> HIDE DEF k
<1>3. \A f \in Slots : /\ PubAt[f] \in Nat /\ PrepAt[f] \in Nat /\ PubAt[f] > PrepAt[f]
  BY DEF Slots, PubAt, PrepAt
<1>4. Owns(d) => \A f \in Slots : SlotInv(d, f)'
  <2>1. SUFFICES ASSUME Owns(d) PROVE \A f \in Slots : SlotInv(d, f)' OBVIOUS
  <2>2. \A f \in Slots : SlotInv(d, f) BY <1>0, <2>1 DEF OwnOf
  <2>3. files[k] = base[d].files[k]
    BY <1>0, <1>1, <1>2, <1>3, <2>2 DEF SlotInv
  <2>4. \A f \in Slots : backup'[d][f] = IF ran /\ f = k THEN files[k] ELSE backup[d][f]
    BY <1>0, <1>1, <1>2 DEF GuardTypeOK
  <2>5. \A f \in Slots : Touched(d, f)
    BY <1>0, <1>1, <1>2, <2>2, <2>3, <2>4 DEF SlotInv, Touched
  <2>6. CASE ~seen BY <1>1, <2>1, <2>5, <2>6, CommandFails
  <2>7. CASE seen
    <3>1. \A f \in Slots : /\ step[d] >= PubAt[f] => files'[f].by = d
                           /\ step[d] >= PrepAt[f] => backup'[d][f] = base[d].files[f]
      BY <1>0, <1>1, <1>2, <1>3, <2>2, <2>3, <2>4, <2>7 DEF SlotInv
    <3>2. Continue(d, TRUE) /\ stage[d] = "run" /\ base' = base
      BY <1>1, <2>7
    <3>3. step[d] <= 11 BY <1>0, <1>2
    <3>4. \A f \in Slots : /\ Touched(d, f)
                           /\ step[d] >= PubAt[f] => files'[f].by = d
                           /\ step[d] >= PrepAt[f] => backup'[d][f] = base[d].files[f]
      BY <2>5, <3>1
    <3> QED BY <2>1, <3>2, <3>3, <3>4, CommandSucceeds
  <2> QED BY <2>6, <2>7
<1>5. Owns(d) => (daemon'.bin = d => step[d] >= StartAt) BY <1>0, <1>1 DEF OwnOf
<1>6. ~(step[d] = 11) /\ (seen => step[d] <= 11) BY <1>0, <1>2
<1> QED BY <1>1, <1>4, <1>5, <1>6, ScriptKeeps

LEMMA PublishKeeps ==
  ASSUME GuardInv, NEW d \in Deployers, NEW ran \in BOOLEAN, NEW seen \in BOOLEAN,
         Publish(d, ran, seen)
  PROVE  Mine(d)' /\ Ends(d)
<1> DEFINE k == Slot(d)
           c == [by |-> d, pid |-> IF k = "manifest" THEN mypid[d] ELSE 0]
<1>0. /\ GuardTypeOK /\ StageOf(d) /\ OwnOf(d) /\ step[d] \in 1 .. 12 BY Parts
<1>1. /\ stage[d] = "run" /\ Op(d) = "publish" /\ Continue(d, seen)
      /\ ran => lock.owner = d
      /\ seen => ran
      /\ files' = IF ran THEN [files EXCEPT ![k] = c] ELSE files
      /\ UNCHANGED <<backup, daemon, lock, mypid, base, proven, outcome>>
  BY DEF Publish, Command, Held
<1>2. /\ k \in Slots /\ k # "binary" /\ step[d] = PubAt[k] /\ step[d] <= 11 /\ step[d] > PrepAt[k]
      /\ \A f \in Slots : step[d] # PrepAt[f]
      /\ \A f \in Slots : step[d] = PubAt[f] => f = k
      /\ step[d] = 11 => k = "manifest"
  BY <1>0, <1>1, ScriptFacts DEF PubAt, Slots
<1>c. c.by = d /\ (k = "manifest" => c.pid = mypid[d]) OBVIOUS
<1> HIDE DEF k, c
<1>3. \A f \in Slots : PubAt[f] \in Nat /\ PrepAt[f] \in Nat
  BY DEF Slots, PubAt, PrepAt
<1>f. \A f \in Slots : files'[f] = IF ran /\ f = k THEN c ELSE files[f]
  BY <1>0, <1>1, <1>2 DEF GuardTypeOK
<1>4. Owns(d) => \A f \in Slots : SlotInv(d, f)'
  <2>1. SUFFICES ASSUME Owns(d) PROVE \A f \in Slots : SlotInv(d, f)' OBVIOUS
  <2>2. \A f \in Slots : SlotInv(d, f) BY <1>0, <2>1 DEF OwnOf
  <2>5. \A f \in Slots : Touched(d, f)
    BY <1>0, <1>1, <1>2, <1>3, <1>c, <1>f, <2>2 DEF SlotInv, Touched
  <2>6. CASE ~seen BY <1>1, <2>1, <2>5, <2>6, CommandFails
  <2>7. CASE seen
    <3>1. \A f \in Slots : /\ step[d] >= PubAt[f] => files'[f].by = d
                           /\ step[d] >= PrepAt[f] => backup'[d][f] = base[d].files[f]
      BY <1>0, <1>1, <1>2, <1>3, <1>c, <1>f, <2>2, <2>7 DEF SlotInv
    <3>2. Continue(d, TRUE) /\ stage[d] = "run" /\ base' = base
      BY <1>1, <2>7
    <3>3. step[d] <= 11 BY <1>0, <1>2
    <3>4. \A f \in Slots : /\ Touched(d, f)
                           /\ step[d] >= PubAt[f] => files'[f].by = d
                           /\ step[d] >= PrepAt[f] => backup'[d][f] = base[d].files[f]
      BY <2>5, <3>1
    <3> QED BY <2>1, <3>2, <3>3, <3>4, CommandSucceeds
  <2> QED BY <2>6, <2>7
<1>5. Owns(d) => /\ daemon'.bin = d => step[d] >= StartAt
                 /\ seen /\ step[d] = 11 => files'["manifest"].pid = mypid'[d]
  BY <1>0, <1>1, <1>2, <1>c, <1>f DEF OwnOf
<1>6. /\ ~Owns(d) => files' = files
      /\ files'["binary"] = files["binary"]
  BY <1>1, <1>2, <1>f DEF Owns, Tx, Slots
<1>7. seen => step[d] <= 11 /\ lock.owner = d BY <1>1, <1>2
<1> QED BY <1>1, <1>4, <1>5, <1>6, <1>7, ScriptKeeps

LEMMA StartKeeps ==
  ASSUME GuardInv, NEW d \in Deployers, NEW ran \in BOOLEAN, NEW seen \in BOOLEAN,
         NEW state \in {"down", "unready", "ready"}, Start(d, ran, seen, state)
  PROVE  Mine(d)' /\ Ends(d)
<1> DEFINE c == [by |-> d, pid |-> 0]
<1>0. /\ GuardTypeOK /\ StageOf(d) /\ OwnOf(d) /\ step[d] \in 1 .. 12 /\ d # None BY Parts
<1>1. /\ stage[d] = "run" /\ Op(d) = "start" /\ Continue(d, seen)
      /\ ran => lock.owner = d
      /\ seen => ran
      /\ ran => /\ files' = [files EXCEPT !["binary"] = c]
                /\ daemon'.bin = d \/ daemon'.state = "down"
      /\ ~ran => UNCHANGED <<files, daemon>>
      /\ UNCHANGED <<backup, lock, base, proven, outcome>>
  BY DEF Start, Command, Held, Process, Down
<1>2. step[d] = 8 BY <1>0, <1>1, ScriptFacts
<1>c. c.by = d OBVIOUS
<1> HIDE DEF c
<1>3. /\ "binary" \in Slots /\ PubAt["binary"] = 8 /\ PrepAt["binary"] = 1
      /\ \A f \in Slots : /\ PubAt[f] \in Nat /\ PrepAt[f] \in Nat
                          /\ PubAt[f] = 8 => f = "binary"
                          /\ PrepAt[f] # 8
  BY DEF Slots, PubAt, PrepAt
<1>f. \A f \in Slots : files'[f] = IF ran /\ f = "binary" THEN c ELSE files[f]
  BY <1>0, <1>1, <1>3 DEF GuardTypeOK
<1>4. Owns(d) => \A f \in Slots : SlotInv(d, f)'
  <2>1. SUFFICES ASSUME Owns(d) PROVE \A f \in Slots : SlotInv(d, f)' OBVIOUS
  <2>2. \A f \in Slots : SlotInv(d, f) BY <1>0, <2>1 DEF OwnOf
  <2>5. \A f \in Slots : Touched(d, f)
    BY <1>1, <1>2, <1>3, <1>c, <1>f, <2>2 DEF SlotInv, Touched
  <2>6. CASE ~seen BY <1>1, <2>1, <2>5, <2>6, CommandFails
  <2>7. CASE seen
    <3>1. \A f \in Slots : /\ step[d] >= PubAt[f] => files'[f].by = d
                           /\ step[d] >= PrepAt[f] => backup'[d][f] = base[d].files[f]
      BY <1>1, <1>2, <1>3, <1>c, <1>f, <2>2, <2>7 DEF SlotInv
    <3>2. Continue(d, TRUE) /\ stage[d] = "run" /\ base' = base
      BY <1>1, <2>7
    <3>3. step[d] <= 11 BY <1>0, <1>2
    <3>4. \A f \in Slots : /\ Touched(d, f)
                           /\ step[d] >= PubAt[f] => files'[f].by = d
                           /\ step[d] >= PrepAt[f] => backup'[d][f] = base[d].files[f]
      BY <2>5, <3>1
    <3> QED BY <2>1, <3>2, <3>3, <3>4, CommandSucceeds
  <2> QED BY <2>6, <2>7
<1>5. Owns(d) => /\ daemon'.bin = d => step[d] >= StartAt
                 /\ ~(step[d] = 11)
  BY <1>2 DEF StartAt
<1>6. /\ ~Owns(d) => files' = files
      /\ daemon'.state # "down" => \/ daemon'.bin = files'["binary"].by
                                   \/ daemon' = daemon /\ files'["binary"] = files["binary"]
  BY <1>1, <1>3, <1>c, <1>f DEF Owns, Tx
<1>7. seen => step[d] <= 11 /\ lock.owner = d BY <1>1, <1>2
<1> QED BY <1>1, <1>4, <1>5, <1>6, <1>7, ScriptKeeps

\* A failed command that leaves the host as it is.
LEMMA QuietKeeps ==
  ASSUME GuardInv, NEW d \in Deployers, stage[d] = "run", Owns(d), Continue(d, FALSE),
         UNCHANGED <<files, backup, base>>
  PROVE  \A f \in Slots : SlotInv(d, f)'
<1>1. /\ OwnOf(d) /\ step[d] \in 1 .. 12 BY Parts
<1>2. \A f \in Slots : SlotInv(d, f) BY <1>1 DEF OwnOf
<1>3. \A f \in Slots : Touched(d, f) BY <1>2 DEF SlotInv, Touched
<1> QED BY <1>3, CommandFails

LEMMA CheckStatusKeeps ==
  ASSUME GuardInv, NEW d \in Deployers, NEW seen \in BOOLEAN, CheckStatus(d, seen)
  PROVE  Mine(d)' /\ Ends(d)
<1>0. /\ GuardTypeOK /\ OwnOf(d) /\ step[d] \in 1 .. 12 BY Parts
<1>1. /\ stage[d] = "run" /\ Op(d) = "check" /\ Continue(d, seen)
      /\ UNCHANGED <<files, backup, daemon, lock, mypid, base, proven, outcome>>
      /\ seen => lock.owner = d
  BY DEF CheckStatus, Command, Held, host
<1>2. step[d] = 9 BY <1>0, <1>1, ScriptFacts
<1>3. \A f \in Slots : /\ PubAt[f] \in Nat /\ PrepAt[f] \in Nat /\ PubAt[f] # 9 /\ PrepAt[f] # 9
  BY DEF Slots, PubAt, PrepAt
<1>4. Owns(d) => \A f \in Slots : SlotInv(d, f)'
  <2>1. SUFFICES ASSUME Owns(d) PROVE \A f \in Slots : SlotInv(d, f)' OBVIOUS
  <2>2. CASE ~seen BY <1>1, <2>1, <2>2, QuietKeeps
  <2>3. CASE seen
    <3>1. \A f \in Slots : SlotInv(d, f) BY <1>0, <2>1 DEF OwnOf
    <3>2. \A f \in Slots : /\ Touched(d, f)
                           /\ step[d] >= PubAt[f] => files'[f].by = d
                           /\ step[d] >= PrepAt[f] => backup'[d][f] = base[d].files[f]
      BY <1>1, <1>2, <1>3, <3>1 DEF SlotInv, Touched
    <3>3. Continue(d, TRUE) /\ stage[d] = "run" /\ base' = base
      BY <1>1, <2>3
    <3>4. step[d] <= 11 BY <1>2
    <3> QED BY <2>1, <3>2, <3>3, <3>4, CommandSucceeds
  <2> QED BY <2>2, <2>3
<1>5. Owns(d) => (daemon'.bin = d => step[d] >= StartAt) BY <1>0, <1>1 DEF OwnOf
<1>6. ~(step[d] = 11) /\ (seen => step[d] <= 11) BY <1>2
<1> QED BY <1>1, <1>4, <1>5, <1>6, ScriptKeeps

LEMMA ActivateKeeps ==
  ASSUME GuardInv, NEW d \in Deployers, NEW seen \in BOOLEAN, Activate(d, seen)
  PROVE  Mine(d)' /\ Ends(d)
<1>0. /\ GuardTypeOK /\ StageOf(d) /\ OwnOf(d) /\ step[d] \in 1 .. 12 /\ d \in Actors BY Parts
<1>1. /\ stage[d] = "run" /\ Op(d) = "activate"
      /\ UNCHANGED <<files, daemon, lock, mypid, base, proven>>
  BY DEF Activate
<1>2. step[d] = 12 BY <1>0, <1>1, ScriptFacts
<1>3. CASE ~seen
  <2>1. Continue(d, FALSE) /\ UNCHANGED <<backup, outcome>> BY <1>3 DEF Activate
  <2>2. Owns(d) => \A f \in Slots : SlotInv(d, f)' BY <1>1, <2>1, QuietKeeps
  <2>3. Owns(d) => (daemon'.bin = d => step[d] >= StartAt) BY <1>0, <1>1 DEF OwnOf
  <2> QED BY <1>1, <2>1, <2>2, <2>3, ScriptKeeps
<1>4. CASE seen
  <2>1. /\ stage'[d] = "release" /\ outcome'[d] = "ok" /\ UNCHANGED <<step, undo>>
    BY <1>0, <1>4 DEF Activate, Goto, GuardTypeOK
  <2>2. proven[d] = TRUE /\ outcome[d] = "none" BY <1>0, <1>1 DEF StageOf, Ended
  <2>3. StageOf(d)' BY <1>1, <2>1, <2>2 DEF StageOf, Ended, Undone
  <2>4. Owns(d)' = FALSE BY <2>1 DEF Owns, Tx
  <2>5. OwnOf(d)' /\ FailedOf(d)' BY <2>1, <2>4 DEF OwnOf, FailedOf
  <2>6. CleanOf(d)' BY <2>1 DEF CleanOf, CleanDue, Undone
  <2>7. Cut(d) = FALSE BY <1>1, <1>2, <2>2 DEF Cut, Doomed
  <2>8. Owns(d) => \A f \in Slots : files'[f].by = d BY <1>1, <1>2, ThroughIsOwn
  <2>9. Ends(d) BY <1>1, <2>7, <2>8 DEF Ends
  <2> QED BY <2>3, <2>5, <2>6, <2>9 DEF Mine
<1> QED BY <1>3, <1>4

LEMMA RollBackKeeps ==
  ASSUME GuardInv, NEW d \in Deployers, NEW ran \in BOOLEAN, NEW seen \in BOOLEAN,
         RollBackSlot(d, ran, seen)
  PROVE  Mine(d)' /\ Ends(d)
<1>0. /\ GuardTypeOK /\ StageOf(d) /\ OwnOf(d) /\ step[d] \in 1 .. 12 /\ d \in Actors /\ d # None
      /\ proven[d] \in BOOLEAN
  BY Parts
<1>1. PICK f \in undo[d] :
        /\ IF ran THEN /\ files' = [files EXCEPT ![f] = Restored(d, f)]
                       /\ backup' = [backup EXCEPT ![d][f] = NoBackup]
                  ELSE UNCHANGED <<files, backup>>
        /\ undo' = [undo EXCEPT ![d] = @ \ {f}]
        /\ Goto(d, IF undo[d] # {f} THEN stage[d]
                   ELSE IF stage[d] = "helper" THEN "owned" ELSE "discard")
  BY DEF RollBackSlot
<1>2. f \in Slots BY <1>0, <1>1 DEF GuardTypeOK
<1>3. /\ stage[d] \in {"helper", "undo"} /\ (ran => lock.owner = d) /\ (seen => ran)
      /\ proven'[d] = IF seen THEN proven[d] ELSE FALSE
      /\ UNCHANGED <<daemon, lock, step, mypid, base, outcome>>
  BY <1>0 DEF RollBackSlot, Command, Held, GuardTypeOK
<1>4. undo'[d] = undo[d] \ {f} BY <1>0, <1>1 DEF GuardTypeOK
<1>5. stage'[d] = IF undo[d] # {f} THEN stage[d]
                  ELSE IF stage[d] = "helper" THEN "owned" ELSE "discard"
  BY <1>0, <1>1 DEF Goto, GuardTypeOK
<1>6. outcome[d] = "none" BY <1>0, <1>3 DEF StageOf, Ended
<1>7. StageOf(d)'
  <2>1. stage'[d] \in {"helper", "undo", "owned", "discard"} BY <1>3, <1>5
  <2>2. stage'[d] = "discard" => undo'[d] = {} BY <1>3, <1>4, <1>5
  <2>3. stage'[d] = "helper" /\ "binary" \in undo'[d] => step'[d] = 1
    BY <1>0, <1>3, <1>4, <1>5 DEF StageOf
  <2> QED BY <1>3, <1>6, <2>1, <2>2, <2>3 DEF StageOf, Ended, Undone, Tx
<1>8. ran => \A g \in Slots :
               /\ files'[g] = IF g = f THEN Restored(d, f) ELSE files[g]
               /\ backup'[d][g] = IF g = f THEN NoBackup ELSE backup[d][g]
  BY <1>0, <1>1, <1>2 DEF GuardTypeOK
<1>9. Owns(d) /\ ran => files'[f] = base[d].files[f]
  <2>1. SUFFICES ASSUME Owns(d), ran PROVE files'[f] = base[d].files[f] OBVIOUS
  <2>2. SlotInv(d, f) BY <1>0, <1>2, <2>1 DEF OwnOf
  <2>3. base[d].files[f] # NoBackup BY <2>2, ConstantsApart DEF SlotInv, File, NoBackup, Empty
  <2> QED BY <1>2, <1>8, <2>1, <2>2, <2>3 DEF SlotInv, Restored
<1>10. OwnOf(d)'
  <2>1. SUFFICES ASSUME Owns(d)' PROVE OwnOf(d)' BY DEF OwnOf
  <2>2. Owns(d) BY <1>3, <2>1 DEF Owns, Tx
  <2>3. ASSUME NEW g \in Slots PROVE SlotInv(d, g)'
    <3>1. SlotInv(d, g) BY <1>0, <2>2 DEF OwnOf
    <3>2. stage'[d] # "run" /\ stage[d] # "run" BY <1>3, <1>5
    <3>3. /\ base[d].files[g].by # d /\ File(base[d].files[g])
      BY <3>1 DEF SlotInv
    <3>4. /\ files'[g] = base[d].files[g] \/ files'[g].by = d
          /\ backup'[d][g] \in {NoBackup, base[d].files[g]}
          /\ files'[g].by = d => /\ files[g].by = d
                                 /\ step[d] >= PubAt[g] /\ backup'[d][g] = base[d].files[g]
      BY <1>1, <1>8, <1>9, <2>2, <3>1, <3>3 DEF SlotInv
    <3>5. proven'[d] = TRUE /\ files'[g].by = d => g \in Remaining(d)'
      <4>1. SUFFICES ASSUME proven'[d] = TRUE, files'[g].by = d PROVE g \in Remaining(d)'
        OBVIOUS
      <4>2. seen /\ ran /\ proven[d] = TRUE BY <1>3, <4>1
      <4>3. g # f BY <1>9, <2>2, <3>3, <4>1, <4>2
      <4>4. g \in Remaining(d) BY <3>1, <3>2, <3>4, <4>1, <4>2 DEF SlotInv
      <4>5. TransactionUndo(d)' = TransactionUndo(d) BY <1>3 DEF TransactionUndo
      <4> QED BY <1>3, <1>4, <1>5, <4>3, <4>4, <4>5 DEF Remaining
    <3> QED BY <1>3, <3>2, <3>3, <3>4, <3>5 DEF SlotInv
  <2>4. /\ daemon'.bin = d => step'[d] >= StartAt
        /\ proven'[d] = TRUE /\ step'[d] >= StartAt /\ stage'[d] \in {"undo", "discard", "restore"}
             => daemon'.state = "down"
    BY <1>0, <1>3, <1>5, <2>2 DEF OwnOf
  <2>5. stage'[d] # "run" BY <1>3, <1>5
  <2> QED BY <2>3, <2>4, <2>5 DEF OwnOf
<1>11. FailedOf(d)' BY <1>3, <1>6 DEF FailedOf
<1>12. CleanOf(d)'
  <2>1. SUFFICES ASSUME CleanDue(d)' PROVE Clean(d)' BY DEF CleanOf
  <2>2. stage'[d] = "discard" /\ proven'[d] = TRUE /\ stage[d] = "undo" /\ undo'[d] = {}
    BY <1>3, <1>4, <1>5, <1>6, <2>1 DEF CleanDue, Undone
  <2>3. seen /\ ran BY <1>3, <2>2
  <2>4. Owns(d)' BY <1>3, <2>2, <2>3 DEF Owns, Tx
  <2>5. Remaining(d)' = {} BY <2>2 DEF Remaining
  <2>6. \A g \in Slots : SlotInv(d, g)' BY <1>10, <2>4 DEF OwnOf
  <2>7. \A g \in Slots : files'[g].by # d /\ backup'[d][g].by # d
    BY <1>0, <2>2, <2>5, <2>6 DEF SlotInv, NoBackup
  <2>8. daemon'.bin # d
    <3>1. CASE step[d] >= StartAt
      BY <1>0, <1>3, <1>10, <2>2, <2>4, <3>1 DEF OwnOf, GuardTypeOK
    <3>2. CASE ~(step[d] >= StartAt)
      BY <1>3, <1>10, <2>4, <3>2 DEF OwnOf
    <3> QED BY <3>1, <3>2
  <2> QED BY <1>3, <2>3, <2>7, <2>8 DEF Clean
<1>13. Cut(d) => Cut(d)'
  <2>1. lock.owner # d => proven'[d] = FALSE BY <1>3
  <2> QED BY <1>3, <2>1 DEF Cut, Doomed
<1>14. ~Owns(d) => files' = files BY <1>1, <1>3 DEF Owns, Tx
<1>15. Owns(d) => Owns(d)' BY <1>3, <1>5 DEF Owns, Tx
<1>16. ~Cut(d)' /\ daemon'.state # "down" => daemon' = daemon /\ files'["binary"] = files["binary"]
  <2>1. SUFFICES ASSUME ~Cut(d)', daemon'.state # "down", ran, f = "binary"
                 PROVE  files'["binary"] = files["binary"]
    BY <1>1, <1>2, <1>3, <1>8 DEF Slots
  <2>2. proven[d] = TRUE /\ Owns(d)
    BY <1>0, <1>3, <2>1 DEF Cut, Owns, Tx
  <2>3. ~(step[d] >= StartAt)
    BY <1>0, <1>1, <1>3, <2>1, <2>2 DEF OwnOf, StageOf, StartAt
  <2>4. SlotInv(d, "binary") /\ PubAt["binary"] = 8 BY <1>0, <1>2, <2>1, <2>2 DEF OwnOf, PubAt
  <2> QED BY <1>9, <2>1, <2>2, <2>3, <2>4 DEF SlotInv, StartAt
<1>17. Ends(d) BY <1>13, <1>14, <1>15, <1>16 DEF Ends
<1> QED BY <1>7, <1>10, <1>11, <1>12, <1>17 DEF Mine

LEMMA CheckOwnedKeeps ==
  ASSUME GuardInv, NEW d \in Deployers, NEW seen \in BOOLEAN, CheckOwned(d, seen)
  PROVE  Mine(d)' /\ Ends(d)
<1>0. /\ GuardTypeOK /\ StageOf(d) /\ OwnOf(d) /\ step[d] \in 1 .. 12 /\ d \in Actors /\ d # None
      /\ proven[d] \in BOOLEAN
  BY Parts
<1>1. /\ stage[d] = "owned" /\ (seen => lock.owner = d)
      /\ UNCHANGED <<files, backup, daemon, lock, step, mypid, base, proven>>
  BY DEF CheckOwned, Command, Held, host
<1>2. /\ stage'[d] = IF ~seen THEN "release" ELSE IF step[d] >= StartAt THEN "quiesce"
                     ELSE IF TransactionUndo(d) = {} THEN "discard" ELSE "undo"
      /\ outcome'[d] = IF seen THEN outcome[d] ELSE "uncertain"
      /\ undo'[d] = IF seen THEN TransactionUndo(d) ELSE undo[d]
  BY <1>0 DEF CheckOwned, Goto, GuardTypeOK, StartAttempted
<1>3. outcome[d] = "none" BY <1>0, <1>1 DEF StageOf, Ended
<1>4. StageOf(d)'
  BY <1>1, <1>2, <1>3 DEF StageOf, Ended, Undone, Tx
<1>5. OwnOf(d)'
  <2>1. SUFFICES ASSUME Owns(d)' PROVE OwnOf(d)' BY DEF OwnOf
  <2>2. seen /\ Owns(d) BY <1>1, <1>2, <2>1 DEF Owns, Tx
  <2>3. Remaining(d)' = Remaining(d) BY <1>1, <1>2, <2>2 DEF Remaining
  <2>4. stage'[d] # "run" /\ stage[d] # "run" BY <1>1, <1>2
  <2>5. \A f \in Slots : SlotInv(d, f) BY <1>0, <2>2 DEF OwnOf
  <2>6. \A f \in Slots : SlotInv(d, f)' BY <1>1, <2>3, <2>4, <2>5 DEF SlotInv
  <2>7. step'[d] >= StartAt => stage'[d] = "quiesce" BY <1>1, <1>2, <2>2
  <2> QED BY <1>0, <1>1, <2>2, <2>4, <2>6, <2>7 DEF OwnOf
<1>6. FailedOf(d)' BY <1>2, <1>3 DEF FailedOf
<1>7. CleanOf(d)'
  <2>1. SUFFICES ASSUME CleanDue(d)' PROVE Clean(d)' BY DEF CleanOf
  <2>2. stage'[d] = "discard" /\ proven[d] = TRUE /\ seen
    BY <1>1, <1>2, <1>3, <2>1 DEF CleanDue, Undone
  <2>3. Owns(d) /\ TransactionUndo(d) = {} /\ ~(step[d] >= StartAt)
    BY <1>1, <1>2, <2>2 DEF Owns, Tx
  <2>4. Remaining(d) = {} /\ stage[d] # "run" BY <1>1, <2>3 DEF Remaining
  <2>5. \A g \in Slots : files[g].by # d /\ backup[d][g].by # d
    BY <1>0, <2>2, <2>3, <2>4 DEF OwnOf, SlotInv, NoBackup
  <2>6. daemon.bin # d BY <1>0, <2>3 DEF OwnOf
  <2> QED BY <1>1, <2>2, <2>5, <2>6 DEF Clean
<1>8. Cut(d) => Cut(d)' BY <1>1, <1>2, <1>3 DEF Cut, Doomed
<1>9. Owns(d) /\ ~Owns(d)' => Cut(d)' BY <1>1, <1>2 DEF Owns, Tx, Cut
<1>10. Ends(d) BY <1>1, <1>8, <1>9 DEF Ends
<1> QED BY <1>4, <1>5, <1>6, <1>7, <1>10 DEF Mine

LEMMA QuiesceKeeps ==
  ASSUME GuardInv, NEW d \in Deployers, NEW ran \in BOOLEAN, NEW seen \in BOOLEAN,
         Quiesce(d, ran, seen)
  PROVE  Mine(d)' /\ Ends(d)
<1>0. /\ GuardTypeOK /\ StageOf(d) /\ OwnOf(d) /\ step[d] \in 1 .. 12 /\ d \in Actors /\ d # None
      /\ proven[d] \in BOOLEAN
  BY Parts
<1>1. /\ stage[d] = "quiesce" /\ (ran => lock.owner = d) /\ (seen => ran)
      /\ daemon' = IF ran THEN Down ELSE daemon
      /\ UNCHANGED <<files, backup, lock, step, undo, mypid, base, outcome>>
  BY DEF Quiesce, Command, Held
<1>2. /\ stage'[d] = "undo" /\ proven'[d] = IF seen THEN proven[d] ELSE FALSE
  BY <1>0 DEF Quiesce, Goto, GuardTypeOK
<1>3. outcome[d] = "none" BY <1>0, <1>1 DEF StageOf, Ended
<1>4. StageOf(d)' BY <1>1, <1>2, <1>3 DEF StageOf, Ended, Undone, Tx
<1>5. OwnOf(d)'
  <2>1. SUFFICES ASSUME Owns(d)' PROVE OwnOf(d)' BY DEF OwnOf
  <2>2. Owns(d) BY <1>1, <2>1 DEF Owns, Tx
  <2>3. Remaining(d)' = Remaining(d) BY <1>1, <1>2 DEF Remaining
  <2>4. \A f \in Slots : SlotInv(d, f) BY <1>0, <2>2 DEF OwnOf
  <2>5. \A f \in Slots : SlotInv(d, f)' BY <1>1, <1>2, <2>3, <2>4 DEF SlotInv
  <2>6. proven'[d] = TRUE => daemon'.state = "down" BY <1>1, <1>2 DEF Down
  <2>7. daemon'.bin = d => step'[d] >= StartAt BY <1>0, <1>1, <2>2 DEF OwnOf, Down
  <2> QED BY <1>2, <2>5, <2>6, <2>7 DEF OwnOf
<1>6. FailedOf(d)' BY <1>2 DEF FailedOf
<1>7. CleanOf(d)' BY <1>1, <1>2, <1>3 DEF CleanOf, CleanDue, Undone
<1>8. Cut(d) => Cut(d)' BY <1>1, <1>2 DEF Cut, Doomed
<1>9. Owns(d) => Owns(d)' BY <1>1, <1>2 DEF Owns, Tx
<1>10. daemon'.state # "down" => daemon' = daemon BY <1>1 DEF Down
<1>11. Ends(d) BY <1>1, <1>8, <1>9, <1>10 DEF Ends
<1> QED BY <1>4, <1>5, <1>6, <1>7, <1>11 DEF Mine

\* The report of a transaction whose slots have all been rolled back.
LEMMA ReportKeeps ==
  ASSUME GuardInv, NEW d \in Deployers, stage[d] \in Undone, stage'[d] = "release",
         UNCHANGED <<files, backup, daemon, lock, step, undo, mypid, base>>,
         outcome'[d] \in {"failed", "uncertain"},
         outcome'[d] = "failed" => proven[d] = TRUE /\ proven'[d] = TRUE,
         proven[d] = FALSE => proven'[d] = FALSE
  PROVE  Mine(d)' /\ Ends(d)
<1>0. /\ GuardTypeOK /\ StageOf(d) /\ OwnOf(d) /\ CleanOf(d) /\ d \in Actors
      /\ proven[d] \in BOOLEAN
  BY Parts
<1>1. StageOf(d)' BY <1>0 DEF StageOf, Ended, Undone, Tx
<1>2. Owns(d)' = FALSE BY DEF Owns, Tx
<1>3. OwnOf(d)' BY <1>2 DEF OwnOf
<1>4. outcome'[d] = "failed" => Clean(d) /\ (lock.owner = d => files = base[d].files)
  <2>1. SUFFICES ASSUME outcome'[d] = "failed"
                 PROVE  Clean(d) /\ (lock.owner = d => files = base[d].files)
    OBVIOUS
  <2>2. Clean(d) BY <1>0, <2>1 DEF CleanOf, CleanDue
  <2>3. lock.owner = d => Owns(d) BY DEF Owns, Tx, Undone
  <2> QED BY <2>1, <2>2, <2>3, UndoneIsBase
<1>5. FailedOf(d)' BY <1>4 DEF FailedOf
<1>6. CleanOf(d)'
  <2>1. SUFFICES ASSUME CleanDue(d)' PROVE Clean(d)' BY DEF CleanOf
  <2>2. Clean(d) BY <1>4, <2>1 DEF CleanDue, Undone
  <2> QED BY <2>2 DEF Clean
<1>7. outcome[d] = "none" BY <1>0 DEF StageOf, Ended, Undone
<1>8. Cut(d) => Cut(d)' BY <1>7 DEF Cut, Doomed, Undone
<1>9. Owns(d) /\ ~Cut(d)' => files' = base[d].files
  BY <1>4 DEF Owns, Cut
<1>10. Ends(d) BY <1>8, <1>9 DEF Ends
<1> QED BY <1>1, <1>3, <1>5, <1>6, <1>10 DEF Mine

LEMMA DiscardKeeps ==
  ASSUME GuardInv, NEW d \in Deployers, NEW seen \in BOOLEAN, Discard(d, seen)
  PROVE  Mine(d)' /\ Ends(d)
<1>0. /\ GuardTypeOK /\ StageOf(d) /\ OwnOf(d) /\ CleanOf(d) /\ d \in Actors
      /\ proven[d] \in BOOLEAN
  BY Parts
<1>1. /\ stage[d] = "discard"
      /\ UNCHANGED <<files, backup, daemon, lock, step, undo, mypid, base>>
  BY DEF Discard, host
<1>2. /\ proven'[d] = IF seen THEN proven[d] ELSE FALSE
      /\ stage'[d] = IF step[d] >= StartAt THEN "restore" ELSE "release"
      /\ outcome'[d] = IF step[d] >= StartAt THEN outcome[d]
                       ELSE IF seen /\ proven[d] THEN "failed" ELSE "uncertain"
  BY <1>0 DEF Discard, Goto, GuardTypeOK, StartAttempted, Verdict
<1>3. CASE ~(step[d] >= StartAt)
  <2>1. /\ stage'[d] = "release" /\ stage[d] \in Undone /\ outcome'[d] \in {"failed", "uncertain"}
        /\ outcome'[d] = "failed" => proven[d] = TRUE /\ proven'[d] = TRUE
        /\ proven[d] = FALSE => proven'[d] = FALSE
    BY <1>0, <1>1, <1>2, <1>3 DEF Undone
  <2> QED BY <1>1, <2>1, ReportKeeps
<1>4. CASE step[d] >= StartAt
  <2>1. stage'[d] = "restore" /\ outcome'[d] = outcome[d] BY <1>2, <1>4
  <2>2. outcome[d] = "none" /\ undo[d] = {} BY <1>0, <1>1 DEF StageOf, Ended, Undone
  <2>3. proven'[d] = TRUE => proven[d] = TRUE BY <1>2
  <2>4. StageOf(d)' BY <1>1, <2>1, <2>2 DEF StageOf, Ended, Undone, Tx
  <2>5. OwnOf(d)'
    <3>1. SUFFICES ASSUME Owns(d)' PROVE OwnOf(d)' BY DEF OwnOf
    <3>2. Owns(d) BY <1>1, <3>1 DEF Owns, Tx
    <3>3. Remaining(d)' = Remaining(d) BY <1>1, <2>1 DEF Remaining
    <3>4. \A f \in Slots : SlotInv(d, f) BY <1>0, <3>2 DEF OwnOf
    <3>5. \A f \in Slots : SlotInv(d, f)' BY <1>1, <2>1, <2>3, <3>3, <3>4 DEF SlotInv
    <3> QED BY <1>0, <1>1, <2>1, <2>3, <3>2, <3>5 DEF OwnOf
  <2>6. FailedOf(d)' BY <2>1 DEF FailedOf
  <2>7. CleanOf(d)'
    <3>1. SUFFICES ASSUME CleanDue(d)' PROVE Clean(d)' BY DEF CleanOf
    <3>2. CleanDue(d) BY <1>1, <2>1, <2>2, <2>3, <3>1 DEF CleanDue, Undone
    <3> QED BY <1>0, <1>1, <3>2 DEF CleanOf, Clean
  <2>8. Cut(d) => Cut(d)' BY <1>1, <1>2, <2>1, <2>2 DEF Cut, Doomed
  <2>9. Owns(d) => Owns(d)' BY <1>1, <2>1 DEF Owns, Tx
  <2>10. Ends(d) BY <1>1, <2>8, <2>9 DEF Ends
  <2> QED BY <2>4, <2>5, <2>6, <2>7, <2>10 DEF Mine
<1> QED BY <1>3, <1>4

LEMMA RestoreKeeps ==
  ASSUME GuardInv, NEW d \in Deployers, NEW ran \in BOOLEAN, NEW seen \in BOOLEAN,
         NEW state \in {"down", "unready", "ready"}, RestoreGuard(d, ran, seen, state)
  PROVE  Mine(d)' /\ Ends(d)
<1>0. /\ GuardTypeOK /\ StageOf(d) /\ OwnOf(d) /\ CleanOf(d) /\ d \in Actors /\ d # None
      /\ proven[d] \in BOOLEAN
  BY Parts
<1>1. /\ stage[d] = "restore"
      /\ UNCHANGED <<files, backup, lock, step, undo, mypid, base, outcome>>
  BY DEF RestoreGuard
<1>2. /\ proven'[d] = IF seen THEN proven[d] ELSE FALSE
      /\ stage'[d] = "verify"
      /\ \/ daemon' = daemon
         \/ daemon'.state = "down" /\ daemon'.bin = None
         \/ daemon'.bin = files["binary"].by
  BY <1>0 DEF RestoreGuard, Goto, GuardTypeOK, Process, Down
<1>3. outcome[d] = "none" /\ undo[d] = {} BY <1>0, <1>1 DEF StageOf, Ended, Undone
<1>4. proven'[d] = TRUE => proven[d] = TRUE BY <1>2
<1>5. StageOf(d)' BY <1>1, <1>2, <1>3 DEF StageOf, Ended, Undone, Tx
<1>6. "binary" \in Slots /\ PubAt["binary"] = 8 BY DEF Slots, PubAt
<1>7. OwnOf(d)'
  <2>1. SUFFICES ASSUME Owns(d)' PROVE OwnOf(d)' BY DEF OwnOf
  <2>2. Owns(d) BY <1>1, <2>1 DEF Owns, Tx
  <2>3. Remaining(d)' = Remaining(d) BY <1>1, <1>2 DEF Remaining
  <2>4. \A f \in Slots : SlotInv(d, f) BY <1>0, <2>2 DEF OwnOf
  <2>5. \A f \in Slots : SlotInv(d, f)' BY <1>1, <1>2, <1>4, <2>3, <2>4 DEF SlotInv
  <2>6. daemon'.bin = d => step'[d] >= StartAt
    BY <1>0, <1>1, <1>2, <1>6, <2>2, <2>4 DEF OwnOf, SlotInv, StartAt
  <2> QED BY <1>2, <2>5, <2>6 DEF OwnOf
<1>8. FailedOf(d)' BY <1>2 DEF FailedOf
<1>9. CleanOf(d)'
  <2>1. SUFFICES ASSUME CleanDue(d)' PROVE Clean(d)' BY DEF CleanOf
  <2>2. CleanDue(d) BY <1>1, <1>2, <1>3, <1>4, <2>1 DEF CleanDue, Undone
  <2> QED BY <1>0, <1>1, <1>2, <1>6, <2>2 DEF CleanOf, Clean
<1>10. Cut(d) => Cut(d)' BY <1>1, <1>2, <1>3 DEF Cut, Doomed
<1>11. Owns(d) => Owns(d)' BY <1>1, <1>2 DEF Owns, Tx
<1>12. Ends(d) BY <1>1, <1>2, <1>10, <1>11 DEF Ends
<1> QED BY <1>5, <1>7, <1>8, <1>9, <1>12 DEF Mine

LEMMA VerifyKeeps ==
  ASSUME GuardInv, NEW d \in Deployers, NEW seen \in BOOLEAN, Verify(d, seen)
  PROVE  Mine(d)' /\ Ends(d)
<1>0. /\ GuardTypeOK /\ d \in Actors /\ proven[d] \in BOOLEAN BY Parts
<1>1. /\ stage[d] = "verify"
      /\ UNCHANGED <<files, backup, daemon, lock, step, undo, mypid, base, proven>>
  BY DEF Verify, host
<1>2. /\ stage'[d] = "release"
      /\ outcome'[d] = IF seen /\ Alive = base[d].alive /\ proven[d] THEN "failed" ELSE "uncertain"
  BY <1>0 DEF Verify, Goto, GuardTypeOK, Verdict
<1>3. /\ stage[d] \in Undone /\ outcome'[d] \in {"failed", "uncertain"}
      /\ outcome'[d] = "failed" => proven[d] = TRUE /\ proven'[d] = TRUE
      /\ proven[d] = FALSE => proven'[d] = FALSE
  BY <1>0, <1>1, <1>2 DEF Undone
<1> QED BY <1>1, <1>2, <1>3, ReportKeeps

LEMMA EndKeeps ==
  ASSUME GuardInv, NEW d \in Deployers, Interrupt(d) \/ CrashGuard(d)
  PROVE  Mine(d)' /\ Ends(d)
<1>0. /\ GuardTypeOK /\ StageOf(d) /\ OwnOf(d) /\ FailedOf(d) /\ CleanOf(d) /\ d \in Actors
      /\ proven[d] \in BOOLEAN
  BY Parts
<1>1. UNCHANGED <<files, backup, daemon, lock, step, undo, mypid, base, proven, outcome>>
  BY DEF Interrupt, CrashGuard, host
<1>2. CASE Interrupt(d)
  <2>1. UNCHANGED stage BY <1>2 DEF Interrupt
  <2>2. Remaining(d)' = Remaining(d) /\ Owns(d)' = Owns(d)
    BY <1>1, <2>1 DEF Remaining, Owns, TransactionUndo
  <2>3. OwnOf(d)' BY <1>0, <1>1, <2>1, <2>2 DEF OwnOf, SlotInv
  <2>4. StageOf(d)' /\ FailedOf(d)' /\ CleanOf(d)'
    BY <1>0, <1>1, <2>1 DEF StageOf, FailedOf, CleanOf, CleanDue, Clean
  <2>5. Ends(d) BY <1>1, <2>1, <2>2 DEF Ends, Cut, Doomed
  <2> QED BY <2>3, <2>4, <2>5 DEF Mine
<1>3. CASE CrashGuard(d)
  <2>1. stage'[d] = "crashed" BY <1>0, <1>3 DEF CrashGuard, Goto, GuardTypeOK
  <2>2. StageOf(d)' BY <1>0, <1>1, <2>1 DEF StageOf, Ended, Undone, Tx
  <2>3. Owns(d)' = FALSE BY <2>1 DEF Owns, Tx
  <2>4. OwnOf(d)' /\ FailedOf(d)' BY <2>1, <2>3 DEF OwnOf, FailedOf
  <2>5. CleanOf(d)'
    BY <1>0, <1>1, <2>1 DEF CleanOf, CleanDue, Clean, Undone
  <2>6. Cut(d)' BY <2>1 DEF Cut
  <2>7. Ends(d) BY <1>1, <2>6 DEF Ends
  <2> QED BY <2>2, <2>4, <2>5, <2>7 DEF Mine
<1> QED BY <1>2, <1>3

(***************************************************************************)
(* All steps.                                                              *)
(***************************************************************************)
\* The baseline of an owner is the one it took while nobody else wrote.
Based(d) ==
  Owns(d)' => \/ Owns(d) /\ base'[d] = base[d]
              \/ lock.owner = d /\ stage[d] = "locked" /\ base'[d].files = files

LEMMA DeployerSteps ==
  ASSUME GuardInv, NEW d \in Deployers,
         \/ \E ran, seen \in BOOLEAN : AcquireLock(d, ran, seen)
         \/ \E ran \in BOOLEAN : ReleaseLock(d, ran)
         \/ DeployerStep(d)
  PROVE  GuardTypeOK' /\ Moves(d) /\ Mine(d)' /\ Ends(d) /\ Based(d)
<1>0. GuardTypeOK /\ OwnOf(d) /\ d \in Actors BY Parts
<1>1. ASSUME NEW ran \in BOOLEAN, NEW seen \in BOOLEAN, AcquireLock(d, ran, seen)
      PROVE  GuardTypeOK' /\ Moves(d) /\ Mine(d)' /\ Ends(d) /\ Based(d)
  <2>1. Owns(d)' = FALSE BY <1>0, <1>1 DEF AcquireLock, Goto, Owns, Tx, GuardTypeOK
  <2> QED BY <1>0, <1>1, <2>1, AcquireMoves, AcquireKeeps DEF Based
<1>2. ASSUME NEW ran \in BOOLEAN, ReleaseLock(d, ran)
      PROVE  GuardTypeOK' /\ Moves(d) /\ Mine(d)' /\ Ends(d) /\ Based(d)
  <2>1. Owns(d)' = FALSE BY <1>0, <1>2 DEF ReleaseLock, Goto, Owns, Tx, GuardTypeOK
  <2> QED BY <1>0, <1>2, <2>1, ReleaseMoves, ReleaseKeeps DEF Based
<1>3. ASSUME NEW seen \in BOOLEAN, Baseline(d, seen)
      PROVE  GuardTypeOK' /\ Moves(d) /\ Mine(d)' /\ Ends(d) /\ Based(d)
  <2>1. stage[d] = "locked" /\ (seen => base'[d].files = files) /\ (~seen => stage'[d] = "release")
    BY <1>0, <1>3 DEF Baseline, Goto, GuardTypeOK
  <2>2. lock' = lock BY <1>3 DEF Baseline
  <2>3. Based(d) BY <2>1, <2>2 DEF Based, Owns, Tx
  <2> QED BY <1>0, <1>3, <2>3, BaselineMoves, BaselineKeeps
<1>4. ASSUME stage[d] \in Tx, base' = base, lock' = lock PROVE Based(d)
  BY <1>4 DEF Based, Owns
<1>5. ASSUME NEW seen \in BOOLEAN,
             \/ CheckStatus(d, seen) \/ Activate(d, seen) \/ CheckOwned(d, seen)
             \/ Discard(d, seen) \/ Verify(d, seen)
      PROVE  GuardTypeOK' /\ Moves(d) /\ Mine(d)' /\ Ends(d) /\ Based(d)
  <2>1. stage[d] \in Tx /\ base' = base /\ lock' = lock
    BY <1>5 DEF CheckStatus, Activate, CheckOwned, Discard, Verify, Tx
  <2>2. Based(d) BY <1>4, <2>1
  <2> QED BY <1>0, <1>5, <2>2, CheckStatusMoves, CheckStatusKeeps, ActivateMoves, ActivateKeeps,
             CheckOwnedMoves, CheckOwnedKeeps, DiscardMoves, DiscardKeeps, VerifyMoves, VerifyKeeps
<1>6. ASSUME NEW ran \in BOOLEAN, NEW seen \in BOOLEAN,
             \/ Prepare(d, ran, seen) \/ Publish(d, ran, seen)
             \/ RollBackSlot(d, ran, seen) \/ Quiesce(d, ran, seen)
      PROVE  GuardTypeOK' /\ Moves(d) /\ Mine(d)' /\ Ends(d) /\ Based(d)
  <2>1. stage[d] \in Tx /\ base' = base /\ lock' = lock
    BY <1>6 DEF Prepare, Publish, RollBackSlot, Quiesce, Tx
  <2>2. Based(d) BY <1>4, <2>1
  <2> QED BY <1>0, <1>6, <2>2, PrepareMoves, PrepareKeeps, PublishMoves, PublishKeeps,
             RollBackMoves, RollBackKeeps, QuiesceMoves, QuiesceKeeps
<1>7. ASSUME NEW ran \in BOOLEAN, NEW seen \in BOOLEAN,
             NEW state \in {"down", "unready", "ready"},
             Start(d, ran, seen, state) \/ RestoreGuard(d, ran, seen, state)
      PROVE  GuardTypeOK' /\ Moves(d) /\ Mine(d)' /\ Ends(d) /\ Based(d)
  <2>1. stage[d] \in Tx /\ base' = base /\ lock' = lock
    BY <1>7 DEF Start, RestoreGuard, Tx
  <2>2. Based(d) BY <1>4, <2>1
  <2> QED BY <1>0, <1>7, <2>2, StartMoves, StartKeeps, RestoreMoves, RestoreKeeps
<1>8. ASSUME Interrupt(d) \/ CrashGuard(d)
      PROVE  GuardTypeOK' /\ Moves(d) /\ Mine(d)' /\ Ends(d) /\ Based(d)
  <2>1. base' = base /\ lock' = lock /\ (stage'[d] = stage[d] \/ stage'[d] = "crashed")
    BY <1>0, <1>8 DEF Interrupt, CrashGuard, Goto, GuardTypeOK
  <2>2. Based(d) BY <2>1 DEF Based, Owns, Tx
  <2> QED BY <1>0, <1>8, <2>2, EndMoves, EndKeeps
<1> QED BY <1>1, <1>2, <1>3, <1>5, <1>6, <1>7, <1>8 DEF DeployerStep

\* What a teardown does to the host as a whole.
Spares ==
  /\ OfOne(files) => OfOne(files')
  /\ daemon'.state # "down" => daemon' = daemon /\ files'["binary"].by = files["binary"].by

LEMMA CloserSteps ==
  ASSUME GuardInv, NEW a \in Closers,
         \/ \E ran, seen \in BOOLEAN : AcquireLock(a, ran, seen)
         \/ \E ran \in BOOLEAN : ReleaseLock(a, ran)
         \/ BeginTeardown(a) \/ StopAnyway(a)
         \/ \E seen \in BOOLEAN : Prove(a, seen) \/ CheckExpected(a, seen)
         \/ \E ran, seen \in BOOLEAN : Remove(a, ran, seen)
  PROVE  GuardTypeOK' /\ Moves(a) /\ RemoveOf(a)' /\ Spares
<1>0. GuardTypeOK /\ a \in Actors /\ a \notin Deployers BY ConstantsApart DEF GuardInv
<1>1. ASSUME NEW ran \in BOOLEAN, NEW seen \in BOOLEAN, AcquireLock(a, ran, seen)
      PROVE  GuardTypeOK' /\ Moves(a) /\ RemoveOf(a)' /\ Spares
  <2>1. stage'[a] # "remove" BY <1>0, <1>1 DEF AcquireLock, Goto, GuardTypeOK
  <2>2. UNCHANGED <<files, daemon>> BY <1>1 DEF AcquireLock, host
  <2> QED BY <1>0, <1>1, <2>1, <2>2, AcquireMoves DEF RemoveOf, Spares
<1>2. ASSUME NEW ran \in BOOLEAN, ReleaseLock(a, ran)
      PROVE  GuardTypeOK' /\ Moves(a) /\ RemoveOf(a)' /\ Spares
  <2>1. stage'[a] # "remove" BY <1>0, <1>2 DEF ReleaseLock, Goto, GuardTypeOK
  <2>2. UNCHANGED <<files, daemon>> BY <1>2 DEF ReleaseLock, host
  <2> QED BY <1>0, <1>2, <2>1, <2>2, ReleaseMoves DEF RemoveOf, Spares
<1>3. ASSUME BeginTeardown(a) \/ StopAnyway(a) \/ \E seen \in BOOLEAN : CheckExpected(a, seen)
      PROVE  GuardTypeOK' /\ Moves(a) /\ RemoveOf(a)' /\ Spares
  <2>1. GuardTypeOK' /\ Moves(a) /\ UNCHANGED <<files, daemon, lock>>
    BY <1>0, <1>3, TeardownMoves
  <2>2. RemoveOf(a)'
    <3>1. CASE BeginTeardown(a)
      <4>1. stage'[a] = "lock" BY <1>0, <3>1 DEF BeginTeardown, Goto, GuardTypeOK
      <4> QED BY <4>1 DEF RemoveOf
    <3>2. CASE StopAnyway(a)
      <4>1. proof'[a].state = "waived" BY <1>0, <3>2 DEF StopAnyway, GuardTypeOK
      <4> QED BY <4>1 DEF RemoveOf
    <3>3. ASSUME NEW seen \in BOOLEAN, CheckExpected(a, seen) PROVE RemoveOf(a)'
      <4>1. /\ proof' = proof /\ files' = files
            /\ stage'[a] = "remove" => files["manifest"] = proof[a].manifest
        BY <1>0, <3>3 DEF CheckExpected, Goto, GuardTypeOK, host
      <4> QED BY <4>1 DEF RemoveOf
    <3> QED BY <1>3, <3>1, <3>2, <3>3
  <2> QED BY <2>1, <2>2 DEF Spares
<1>4. ASSUME NEW seen \in BOOLEAN, Prove(a, seen)
      PROVE  GuardTypeOK' /\ Moves(a) /\ RemoveOf(a)' /\ Spares
  <2>1. /\ GuardTypeOK' /\ Moves(a) /\ stage'[a] = "release"
        /\ \A f \in Slots : files'[f].by = files[f].by
    BY <1>0, <1>4, ProveMoves
  <2>2. daemon' = daemon BY <1>4 DEF Prove
  <2>3. Spares BY <2>1, <2>2 DEF Spares, OfOne, InstallSlots, Slots
  <2> QED BY <2>1, <2>3 DEF RemoveOf
<1>5. ASSUME NEW ran \in BOOLEAN, NEW seen \in BOOLEAN, Remove(a, ran, seen)
      PROVE  GuardTypeOK' /\ Moves(a) /\ RemoveOf(a)' /\ Spares
  <2>1. /\ GuardTypeOK' /\ Moves(a) /\ stage'[a] = "release"
        /\ ran => lock.owner = a /\ daemon' = Down /\ \A f \in InstallSlots : files'[f] = Empty
        /\ ~ran => UNCHANGED <<files, backup, daemon, lock>>
    BY <1>0, <1>5, RemoveMoves
  <2>2. "binary" \in InstallSlots BY DEF InstallSlots, Slots
  <2>3. Spares BY <2>1, <2>2 DEF Spares, OfOne, Empty, Down
  <2> QED BY <2>1, <2>3 DEF RemoveOf
<1> QED BY <1>1, <1>2, <1>3, <1>4, <1>5

\* The host stays of one deployment, or becomes so again, unless somebody is cut off.
LEMMA WholeStep ==
  ASSUME GuardInv, NEW a \in Actors, Moves(a), \A d \in Deployers : Cut(d) => Cut(d)',
         a \in Deployers => Ends(a) /\ Based(a), a \in Closers => Spares
  PROVE  WholeInv'
<1>1. SUFFICES ASSUME Sound'
               PROVE  /\ (daemon.state # "down" => daemon.bin = files["binary"].by)'
                      /\ \A d \in Deployers : Owns(d)' => OfOne(base[d].files)'
                      /\ (\A d \in Deployers : ~Owns(d)') => OfOne(files)'
  BY DEF WholeInv
<1>2. /\ Sound
      /\ daemon.state # "down" => daemon.bin = files["binary"].by
      /\ \A d \in Deployers : Owns(d) => OfOne(base[d].files)
      /\ (\A d \in Deployers : ~Owns(d)) => OfOne(files)
  BY <1>1 DEF Sound, GuardInv, WholeInv
<1>3. \A d \in Deployers : ~Cut(d)' BY <1>1 DEF Sound
<1>4. a \in Deployers \/ a \in Closers BY DEF Actors
<1>5. daemon'.state # "down" => daemon'.bin = files'["binary"].by
  BY <1>2, <1>3, <1>4 DEF Ends, Spares
<1>6. ASSUME NEW d \in Deployers, Owns(d)' PROVE OfOne(base'[d].files)
  <2>1. CASE d # a
    <3>1. Owns(d) /\ base'[d] = base[d]
      BY <1>6, <2>1, ConstantsApart DEF Owns, Moves
    <3> QED BY <1>2, <3>1
  <2>2. CASE d = a
    <3>1. \/ Owns(d) /\ base'[d] = base[d]
          \/ lock.owner = d /\ stage[d] = "locked" /\ base'[d].files = files
      BY <1>6, <2>2 DEF Based
    <3>2. CASE Owns(d) /\ base'[d] = base[d] BY <1>2, <3>2
    <3>3. CASE lock.owner = d /\ stage[d] = "locked" /\ base'[d].files = files
      BY <1>2, <3>3 DEF Owns, Tx
    <3> QED BY <3>1, <3>2, <3>3
  <2> QED BY <2>1, <2>2
<1>7. ASSUME \A d \in Deployers : ~Owns(d)' PROVE OfOne(files')
  <2>1. CASE \A d \in Deployers : ~Owns(d)
    BY <1>2, <1>4, <2>1 DEF Ends, Spares
  <2>2. ASSUME NEW d \in Deployers, Owns(d) PROVE OfOne(files')
    <3>0. OfOne(base[d].files) BY <1>2, <2>2
    <3>1. CASE d = a
      <4>1. (\A f \in Slots : files'[f].by = d) \/ files' = base[d].files
        BY <1>3, <1>7, <2>2, <3>1 DEF Ends
      <4> QED BY <3>0, <4>1 DEF OfOne, InstallSlots, Slots
    <3>2. CASE d # a
      <4>1. /\ stage'[d] = stage[d] /\ step'[d] = step[d] /\ lock.owner # a /\ files' = files
            /\ stage[d] \in Tx
        BY <2>2, <3>2, ConstantsApart DEF Owns, Moves
      <4>2. lock'.owner # d BY <1>7, <4>1 DEF Owns
      <4>3. ~Doomed(d)' /\ ~Cut(d) BY <1>2, <1>3 DEF Cut, Sound
      <4>4. step[d] \in 1 .. 12 /\ proven[d] \in BOOLEAN BY Parts
      <4>5. stage[d] \in Undone \/ (stage[d] = "run" /\ step[d] = 12)
        BY <4>1, <4>2, <4>3, <4>4 DEF Doomed, Tx, Undone
      <4>6. proven[d] = TRUE BY <4>3, <4>4 DEF Cut
      <4>7. CASE stage[d] \in Undone
        BY <2>2, <3>0, <4>1, <4>6, <4>7, UndoneIsBase
      <4>8. CASE stage[d] = "run" /\ step[d] = 12
        <5>1. \A f \in Slots : files[f].by = d BY <2>2, <4>8, ThroughIsOwn
        <5> QED BY <4>1, <5>1 DEF OfOne, InstallSlots, Slots
      <4> QED BY <4>5, <4>7, <4>8
    <3> QED BY <3>1, <3>2
  <2> QED BY <2>1, <2>2
<1> QED BY <1>5, <1>6, <1>7

LEMMA HostSteps ==
  ASSUME GuardInv, ExpireLock \/ RestartDaemon \/ BecomeReady \/ UNCHANGED guardVars
  PROVE  GuardInv'
<1>0. GuardTypeOK /\ "binary" \in Slots /\ "config" \in Slots BY DEF GuardInv, Slots
<1>1. /\ UNCHANGED <<files, backup, stage, step, undo, mypid, base, proven, outcome, interrupted,
                     proof>>
      /\ lock'.owner = lock.owner
  BY <1>0 DEF ExpireLock, RestartDaemon, BecomeReady, guardVars, host, local, GuardTypeOK
<1>2. /\ GuardTypeOK'
      /\ \/ daemon' = daemon
         \/ /\ daemon.state # "down" /\ daemon'.state # "down"
            /\ daemon'.bin \in {daemon.bin, files["binary"].by}
  <2>1. CASE ExpireLock
    <3>1. lock' \in [owner : Actors \union {None}, live : BOOLEAN] /\ UNCHANGED <<daemon, nextPid>>
      BY <1>0, <2>1 DEF ExpireLock, GuardTypeOK, host
    <3> QED BY <1>0, <1>1, <3>1 DEF GuardTypeOK
  <2>2. CASE RestartDaemon
    <3> DEFINE conf == IF daemon.config = None THEN None ELSE files["config"].by
    <3>1. conf \in Deployments \union {None} /\ files["binary"].by \in Deployments \union {None}
      BY <1>0 DEF GuardTypeOK, Content
    <3>2. /\ daemon' = Process("unready", files["binary"].by, conf) /\ lock' = lock
          /\ nextPid' = nextPid + 1 /\ daemon.state # "down"
      BY <2>2 DEF RestartDaemon
    <3> HIDE DEF conf
    <3>3. /\ daemon' \in [state : {"down", "unready", "ready"}, pid : Nat,
                          bin : Deployments \union {None}, config : Deployments \union {None}]
          /\ daemon'.state = "unready" /\ daemon'.bin = files["binary"].by /\ nextPid' \in Nat
      BY <1>0, <3>1, <3>2 DEF Process, GuardTypeOK
    <3> QED BY <1>0, <1>1, <3>2, <3>3 DEF GuardTypeOK
  <2>3. CASE BecomeReady
    <3>1. /\ daemon' \in [state : {"down", "unready", "ready"}, pid : Nat,
                          bin : Deployments \union {None}, config : Deployments \union {None}]
          /\ daemon'.state = "ready" /\ daemon'.bin = daemon.bin /\ nextPid' = nextPid
          /\ daemon.state = "unready" /\ lock' = lock
      BY <1>0, <2>3 DEF BecomeReady, GuardTypeOK
    <3> QED BY <1>0, <1>1, <3>1 DEF GuardTypeOK
  <2>4. CASE UNCHANGED guardVars
    BY <1>0, <2>4 DEF guardVars, GuardTypeOK
  <2> QED BY <2>1, <2>2, <2>3, <2>4
<1>3. ASSUME NEW d \in Deployers
      PROVE  /\ StageOf(d)' /\ OwnOf(d)' /\ FailedOf(d)' /\ CleanOf(d)'
             /\ Owns(d)' = Owns(d) /\ Cut(d)' = Cut(d)
  <2>0. /\ StageOf(d) /\ OwnOf(d) /\ FailedOf(d) /\ CleanOf(d) BY Parts
  <2>1. Owns(d)' = Owns(d) BY <1>1 DEF Owns
  <2>2. Cut(d)' = Cut(d) BY <1>1 DEF Cut, Doomed
  <2>3. StageOf(d)' /\ FailedOf(d)' BY <1>1, <2>0 DEF StageOf, FailedOf
  <2>4. CleanOf(d)' BY <1>0, <1>1, <1>2, <2>0 DEF CleanOf, CleanDue, Clean
  <2>5. OwnOf(d)'
    <3>1. SUFFICES ASSUME Owns(d) PROVE OwnOf(d)' BY <2>1 DEF OwnOf
    <3>2. Remaining(d)' = Remaining(d) BY <1>1 DEF Remaining, TransactionUndo
    <3>3. \A f \in Slots : SlotInv(d, f) BY <2>0, <3>1 DEF OwnOf
    <3>4. \A f \in Slots : SlotInv(d, f)' BY <1>1, <3>2, <3>3 DEF SlotInv
    <3>5. PubAt["binary"] = 8 BY DEF PubAt
    <3>6. daemon'.bin = d => step[d] >= StartAt
      BY <1>0, <1>2, <2>0, <3>1, <3>3, <3>5 DEF OwnOf, SlotInv, StartAt
    <3> QED BY <1>1, <1>2, <2>0, <3>1, <3>4, <3>6 DEF OwnOf
  <2> QED BY <2>1, <2>2, <2>3, <2>4, <2>5
<1>4. RemoveInv' BY <1>1 DEF GuardInv, RemoveInv, RemoveOf
<1>5. WholeInv'
  <2>1. Sound' = Sound BY <1>3 DEF Sound
  <2> QED BY <1>1, <1>2, <1>3, <2>1 DEF GuardInv, WholeInv
<1> QED BY <1>2, <1>3, <1>4, <1>5 DEF GuardInv, StageInv, OwnInv, FailedInv, CleanInv

LEMMA InvInit == GuardInit => GuardInv
<1> SUFFICES ASSUME GuardInit PROVE GuardInv OBVIOUS
<1>1. PICK found \in {Old, None} :
        /\ files = [f \in Slots |-> IF found = None THEN Empty
                                    ELSE [by |-> Old, pid |-> IF f = "manifest" THEN 1 ELSE 0]]
        /\ daemon \in {Down} \union (IF found = None THEN {}
                         ELSE {[state |-> "ready", pid |-> 1, bin |-> Old, config |-> Old]})
  BY DEF GuardInit
<1>2. /\ nextPid = 2
      /\ backup = [d \in Deployers |-> [f \in Slots |-> NoBackup]]
      /\ lock = [owner |-> None, live |-> FALSE]
      /\ stage = [a \in Actors |-> "lock"] /\ step = [d \in Deployers |-> 1]
      /\ undo = [d \in Deployers |-> {}] /\ mypid = [d \in Deployers |-> 0]
      /\ base = [d \in Deployers |-> [files |-> files, alive |-> FALSE]]
      /\ proven = [d \in Deployers |-> TRUE] /\ outcome = [d \in Deployers |-> "none"]
      /\ interrupted = [d \in Deployers |-> FALSE]
      /\ proof = [a \in Closers |-> [state |-> "none", manifest |-> Empty, alive |-> FALSE, pid |-> 0]]
  BY DEF GuardInit
<1>3. /\ \A f \in Slots : /\ files[f] \in Content /\ File(files[f])
                          /\ files[f].by = found /\ files[f].by \notin Deployers
      /\ files \in [Slots -> Content]
  <2>1. [by |-> Old, pid |-> 0] \in Content /\ [by |-> Old, pid |-> 1] \in Content
    BY DEF Content, Deployments
  <2>2. \A f \in Slots : \/ files[f] = Empty /\ found = None
                         \/ files[f] = [by |-> Old, pid |-> 0] /\ found = Old
                         \/ files[f] = [by |-> Old, pid |-> 1] /\ found = Old
    BY <1>1
  <2>3. \A f \in Slots : files[f] \in Content /\ File(files[f])
    BY <2>1, <2>2, ConstantsApart DEF File
  <2>4. \A f \in Slots : files[f].by = found BY <2>2 DEF Empty
  <2>5. found \notin Deployers BY ConstantsApart
  <2>6. files \in [Slots -> Content] BY <1>1, <2>3
  <2> QED BY <2>3, <2>4, <2>5, <2>6
<1>4. /\ daemon \in [state : {"down", "unready", "ready"}, pid : Nat,
                     bin : Deployments \union {None}, config : Deployments \union {None}]
      /\ daemon.state = "down" => daemon.bin = None
      /\ daemon.state # "down" => daemon.bin = found
      /\ daemon.bin \notin Deployers
  BY <1>1, ConstantsApart DEF Down, Deployments
<1>5. GuardTypeOK
  <2>1. /\ backup \in [Deployers -> [Slots -> Content]]
        /\ lock \in [owner : Actors \union {None}, live : BOOLEAN]
        /\ proof \in [Closers -> [state : {"none", "taken", "used", "waived"}, manifest : Content,
                                  alive : BOOLEAN, pid : Nat]]
    BY <1>2, ConstantsApart
  <2>2. base \in [Deployers -> [files : [Slots -> Content], alive : BOOLEAN]]
    BY <1>2, <1>3
  <2>3. stage \in [Actors -> Stages] BY <1>2 DEF Stages
  <2>4. /\ step \in [Deployers -> 1 .. 12] /\ undo \in [Deployers -> SUBSET Slots]
        /\ mypid \in [Deployers -> Nat] /\ nextPid \in Nat
        /\ proven \in [Deployers -> BOOLEAN] /\ interrupted \in [Deployers -> BOOLEAN]
        /\ outcome \in [Deployers -> {"none", "ok", "failed", "uncertain"}]
    BY <1>2
  <2> QED BY <1>3, <1>4, <2>1, <2>2, <2>3, <2>4 DEF GuardTypeOK
<1>6. ASSUME NEW d \in Deployers
      PROVE  /\ StageOf(d) /\ OwnOf(d) /\ FailedOf(d) /\ CleanOf(d) /\ ~Owns(d)
  <2>1. /\ stage[d] = "lock" /\ step[d] = 1 /\ proven[d] = TRUE /\ outcome[d] = "none"
        /\ undo[d] = {} /\ lock.owner = None /\ d # None
        /\ \A f \in Slots : backup[d][f] = NoBackup
    BY <1>2, ConstantsApart
  <2>2. StageOf(d) BY <2>1 DEF StageOf, Ended, Undone, Tx
  <2>3. ~Owns(d) BY <2>1 DEF Owns, Tx
  <2>4. OwnOf(d) /\ FailedOf(d) BY <2>1, <2>3 DEF OwnOf, FailedOf
  <2>5. Clean(d) BY <1>3, <1>4, <2>1, ConstantsApart DEF Clean
  <2> QED BY <2>2, <2>3, <2>4, <2>5 DEF CleanOf
<1>7. RemoveInv
  BY <1>2, ConstantsApart DEF RemoveInv, RemoveOf
<1>8. WholeInv
  <2>1. OfOne(files) BY <1>3 DEF OfOne, InstallSlots, Slots
  <2>2. daemon.state # "down" => daemon.bin = files["binary"].by BY <1>3, <1>4 DEF Slots
  <2> QED BY <1>6, <2>1, <2>2 DEF WholeInv
<1> QED BY <1>5, <1>6, <1>7, <1>8 DEF GuardInv, StageInv, OwnInv, FailedInv, CleanInv

LEMMA InvNext == GuardInv /\ [GuardNext]_guardVars => GuardInv'
<1> SUFFICES ASSUME GuardInv, [GuardNext]_guardVars PROVE GuardInv' OBVIOUS
<1>1. ASSUME NEW d \in Deployers,
             \/ \E ran, seen \in BOOLEAN : AcquireLock(d, ran, seen)
             \/ \E ran \in BOOLEAN : ReleaseLock(d, ran)
             \/ DeployerStep(d)
      PROVE  GuardInv'
  <2>1. GuardTypeOK' /\ Moves(d) /\ Mine(d)' /\ Ends(d) /\ Based(d) BY <1>1, DeployerSteps
  <2>2. d \in Actors /\ d \notin Closers BY ConstantsApart
  <2>3. \A e \in Deployers : StageOf(e)' /\ OwnOf(e)' /\ FailedOf(e)' /\ CleanOf(e)'
    <3>1. StageOf(d)' /\ OwnOf(d)' /\ FailedOf(d)' /\ CleanOf(d)' BY <2>1 DEF Mine
    <3>2. ASSUME NEW e \in Deployers, e # d
          PROVE  StageOf(e)' /\ OwnOf(e)' /\ FailedOf(e)' /\ CleanOf(e)'
      BY <2>1, <2>2, <3>2, OthersKeep
    <3> QED BY <3>1, <3>2
  <2>4. \A e \in Deployers : Cut(e) => Cut(e)'
    <3>1. Cut(d) => Cut(d)' BY <2>1 DEF Ends
    <3>2. ASSUME NEW e \in Deployers, e # d PROVE Cut(e) => Cut(e)'
      BY <2>1, <2>2, <3>2, OthersKeep
    <3> QED BY <3>1, <3>2
  <2>5. \A b \in Closers : RemoveOf(b)'
    BY <2>1, <2>2, OtherTeardowns
  <2>6. WholeInv' BY <2>1, <2>2, <2>4, WholeStep
  <2> QED BY <2>1, <2>3, <2>5, <2>6
        DEF GuardInv, StageInv, OwnInv, FailedInv, CleanInv, RemoveInv
<1>2. ASSUME NEW a \in Closers,
             \/ \E ran, seen \in BOOLEAN : AcquireLock(a, ran, seen)
             \/ \E ran \in BOOLEAN : ReleaseLock(a, ran)
             \/ BeginTeardown(a) \/ StopAnyway(a)
             \/ \E seen \in BOOLEAN : Prove(a, seen) \/ CheckExpected(a, seen)
             \/ \E ran, seen \in BOOLEAN : Remove(a, ran, seen)
      PROVE  GuardInv'
  <2>1. GuardTypeOK' /\ Moves(a) /\ RemoveOf(a)' /\ Spares BY <1>2, CloserSteps
  <2>2. a \in Actors /\ a \notin Deployers BY ConstantsApart
  <2>3. ASSUME NEW e \in Deployers
        PROVE  StageOf(e)' /\ OwnOf(e)' /\ FailedOf(e)' /\ CleanOf(e)' /\ (Cut(e) => Cut(e)')
    <3>1. e # a BY <2>2
    <3> QED BY <2>1, <2>2, <3>1, OthersKeep
  <2>4. \A b \in Closers : RemoveOf(b)'
    <3>1. ASSUME NEW b \in Closers, b # a PROVE RemoveOf(b)'
      BY <2>1, <2>2, <3>1, OtherTeardowns
    <3> QED BY <2>1, <3>1
  <2>5. WholeInv' BY <2>1, <2>2, <2>3, WholeStep
  <2> QED BY <2>1, <2>3, <2>4, <2>5
        DEF GuardInv, StageInv, OwnInv, FailedInv, CleanInv, RemoveInv
<1>3. CASE ExpireLock \/ RestartDaemon \/ BecomeReady \/ UNCHANGED guardVars
  BY <1>3, HostSteps
<1>4. CASE GuardDone BY <1>4, HostSteps DEF GuardDone
<1> QED BY <1>1, <1>2, <1>3, <1>4 DEF GuardNext, Actors

\* The inductive invariant of the deployment transaction: the host is what the
\* owner of the lease found, changed by the commands it got through
\* (start_guard_daemon, _GuardDeploymentTransaction).
THEOREM TransactionHolds == GuardSpec => []GuardInv
BY InvInit, InvNext, PTL DEF GuardSpec

\* A deployment reported as failed has left nothing of itself on the host, for
\* any number of deployments, teardowns and troubles (_require_remote_rollback,
\* _GuardDeploymentTransaction.rollback).
THEOREM FailuresAreRestored == GuardSpec => []FailedIsRestored
<1>1. GuardInv => FailedIsRestored
  BY DEF GuardInv, CleanInv, CleanOf, CleanDue, Clean, FailedInv, FailedOf, FailedIsRestored
<1> QED BY <1>1, TransactionHolds, PTL

\* Leases that expire in the middle never mix two deployments, unless an
\* execution ends as uncertain (start_guard_daemon, the fence of each command).
THEOREM HostStaysWhole == GuardSpec => []HostIsWhole
<1>1. GuardInv => HostIsWhole
  <2> SUFFICES ASSUME GuardInv, AtRest
               PROVE  \E o \in Deployments \union {None} :
                        /\ \A f \in InstallSlots : files[f].by = o
                        /\ o # None => files["identity"].by = o
                        /\ daemon.state # "down" => daemon.bin = o
    BY DEF HostIsWhole
  <2>1. ASSUME NEW d \in Deployers PROVE ~Cut(d) /\ ~Owns(d)
    <3>1. /\ stage[d] \in {"lock", "done", "proved"} /\ outcome[d] # "uncertain"
      BY <2>1, ConstantsApart DEF AtRest
    <3>2. StageOf(d) BY Parts
    <3> QED BY <3>1, <3>2 DEF Cut, Doomed, Owns, Tx, StageOf
  <2>2. OfOne(files) /\ (daemon.state # "down" => daemon.bin = files["binary"].by)
    BY <2>1 DEF GuardInv, WholeInv, Sound
  <2>3. files["binary"].by \in Deployments \union {None}
    BY DEF GuardInv, GuardTypeOK, Content, Slots
  <2> QED BY <2>2, <2>3 DEF OfOne
<1> QED BY <1>1, TransactionHolds, PTL

\* A certificate is activated only for a deployment whose five parts are in
\* place, whatever happened on the way (activation_callback).
THEOREM ActivationsAreWhole == GuardSpec => ActivatedIsWhole
<1>1. GuardInv /\ [GuardNext]_guardVars =>
        [\A d \in Deployers : outcome[d] # "ok" /\ outcome'[d] = "ok" /\ lock.owner = d =>
           /\ \A f \in Slots : files[f].by = d
           /\ files["manifest"].pid = mypid[d]]_guardVars
  <2> SUFFICES ASSUME GuardInv, GuardNext, NEW d \in Deployers,
                      outcome[d] # "ok", outcome'[d] = "ok", lock.owner = d
               PROVE  (\A f \in Slots : files[f].by = d) /\ files["manifest"].pid = mypid[d]
    BY DEF guardVars
  <2>0. GuardTypeOK /\ step[d] \in 1 .. 12 /\ d \in Actors BY Parts
  <2>1. stage[d] = "run" /\ Op(d) = "activate"
    <3>1. ASSUME NEW a \in Actors,
                 \/ \E ran, seen \in BOOLEAN : AcquireLock(a, ran, seen)
                 \/ \E ran \in BOOLEAN : ReleaseLock(a, ran)
          PROVE  FALSE
      BY <2>0, <3>1 DEF AcquireLock, ReleaseLock, GuardTypeOK
    <3>2. ASSUME NEW e \in Deployers, DeployerStep(e), ~(\E seen \in BOOLEAN : Activate(e, seen))
          PROVE  FALSE
      <4>1. outcome'[d] \in {outcome[d], "failed", "uncertain"}
        BY <2>0, <3>2 DEF DeployerStep, Baseline, CheckStatus, CheckOwned, Discard, Verify, Prepare,
           Publish, RollBackSlot, Quiesce, Start, RestoreGuard, Interrupt, CrashGuard, Verdict,
           GuardTypeOK
      <4> QED BY <4>1
    <3>3. ASSUME NEW a \in Closers,
                 \/ BeginTeardown(a) \/ StopAnyway(a)
                 \/ \E seen \in BOOLEAN : Prove(a, seen) \/ CheckExpected(a, seen)
                 \/ \E ran, seen \in BOOLEAN : Remove(a, ran, seen)
          PROVE  FALSE
      BY <3>3 DEF BeginTeardown, StopAnyway, Prove, CheckExpected, Remove
    <3>4. ASSUME ExpireLock \/ RestartDaemon \/ BecomeReady \/ GuardDone PROVE FALSE
      BY <3>4 DEF ExpireLock, RestartDaemon, BecomeReady, GuardDone, local, guardVars
    <3>5. PICK e \in Deployers : DeployerStep(e) BY <3>1, <3>3, <3>4 DEF GuardNext
    <3>6. PICK seen \in BOOLEAN : Activate(e, seen) BY <3>2, <3>5
    <3>7. e = d BY <2>0, <3>6 DEF Activate, GuardTypeOK
    <3> QED BY <3>6, <3>7 DEF Activate
  <2>2. step[d] = 12 BY <2>0, <2>1, ScriptFacts
  <2>3. Owns(d) BY <2>1 DEF Owns, Tx
  <2> QED BY <2>1, <2>2, <2>3, ThroughIsOwn
<1> QED BY <1>1, TransactionHolds, PTL DEF GuardSpec, ActivatedIsWhole

\* A conditional teardown removes exactly the deployment its worker proved
\* (stop_guard_daemon, _guard_stop_over).
THEOREM TeardownsAreExact == GuardSpec => TeardownIsExact
<1>1. GuardInv /\ [GuardNext]_guardVars =>
        [\A a \in Closers :
           stage[a] = "remove" /\ proof[a].state = "used" /\ files["manifest"] # Empty
             /\ files'["manifest"] = Empty /\ stage'[a] = "release"
           => files["manifest"] = proof[a].manifest]_guardVars
  <2> SUFFICES ASSUME GuardInv, GuardNext, NEW a \in Closers, stage[a] = "remove",
                      proof[a].state = "used", files["manifest"] # Empty,
                      files'["manifest"] = Empty, stage'[a] = "release"
               PROVE  files["manifest"] = proof[a].manifest
    BY DEF guardVars
  <2>0. GuardTypeOK /\ a \in Actors /\ a \notin Deployers BY ConstantsApart DEF GuardInv
  <2>1. \/ \E d \in Deployers : \/ \E ran, seen \in BOOLEAN : AcquireLock(d, ran, seen)
                                \/ \E ran \in BOOLEAN : ReleaseLock(d, ran)
                                \/ DeployerStep(d)
        \/ \E b \in Closers :
             \/ \E ran, seen \in BOOLEAN : AcquireLock(b, ran, seen)
             \/ \E ran \in BOOLEAN : ReleaseLock(b, ran)
             \/ BeginTeardown(b) \/ StopAnyway(b)
             \/ \E seen \in BOOLEAN : Prove(b, seen) \/ CheckExpected(b, seen)
             \/ \E ran, seen \in BOOLEAN : Remove(b, ran, seen)
        \/ ExpireLock \/ RestartDaemon \/ BecomeReady \/ GuardDone
    BY DEF GuardNext, Actors
  <2>2. ASSUME ExpireLock \/ RestartDaemon \/ BecomeReady \/ GuardDone PROVE FALSE
    BY <2>2 DEF ExpireLock, RestartDaemon, BecomeReady, GuardDone, local, guardVars
  <2>3. PICK b \in Actors : Moves(b)
    BY <2>1, <2>2, DeployerSteps, CloserSteps, ConstantsApart
  <2>4. b = a BY <2>0, <2>3 DEF Moves
  <2>5. lock.owner = a BY <2>3, <2>4 DEF Moves
  <2> QED BY <2>5 DEF GuardInv, RemoveInv, RemoveOf
<1> QED BY <1>1, TransactionHolds, PTL DEF GuardSpec, TeardownIsExact

\* What module GuardJob takes a deployment to be: a file of the host changes only under a
\* lease that is valid, by its owner; a deployment puts there what is its own or what it
\* found, a teardown removes a file or renews the process number in the manifest.
FilesChange ==
  \A f \in Slots : files'[f] # files[f] =>
    \/ \E d \in Deployers : Held(d) /\ (files'[f].by = d \/ files'[f] = base[d].files[f])
    \/ \E a \in Closers : Held(a) /\ files'[f].by \in {files[f].by, None}

LEMMA DeployerWrites ==
  ASSUME GuardInv, NEW d \in Deployers, DeployerStep(d)
  PROVE  FilesChange
<1>0. GuardTypeOK /\ OwnOf(d)  BY DEF GuardInv, OwnInv
<1>1. ASSUME NEW ran \in BOOLEAN, NEW seen \in BOOLEAN, Publish(d, ran, seen)
      PROVE  FilesChange
  <2>1. \/ files' = files
        \/ /\ Held(d)
           /\ \E p : files' = [files EXCEPT ![Slot(d)] = [by |-> d, pid |-> p]]
    BY <1>1 DEF Publish, Command
  <2> QED  BY <1>0, <2>1 DEF FilesChange, GuardTypeOK
<1>2. ASSUME NEW ran \in BOOLEAN, NEW seen \in BOOLEAN, NEW state, Start(d, ran, seen, state)
      PROVE  FilesChange
  <2>1. \/ files' = files
        \/ Held(d) /\ files' = [files EXCEPT !["binary"] = [by |-> d, pid |-> 0]]
    BY <1>2 DEF Start, Command
  <2> QED  BY <1>0, <2>1 DEF FilesChange, GuardTypeOK
<1>3. ASSUME NEW ran \in BOOLEAN, NEW seen \in BOOLEAN, RollBackSlot(d, ran, seen)
      PROVE  FilesChange
  <2>1. stage[d] \in {"helper", "undo"}  BY <1>3 DEF RollBackSlot
  <2>2. CASE files' = files  BY <2>2 DEF FilesChange
  <2>3. CASE files' # files
    <3>1. PICK g \in undo[d] : Held(d) /\ files' = [files EXCEPT ![g] = Restored(d, g)]
      BY <1>3, <2>3 DEF RollBackSlot, Command
    <3>2. g \in Slots  BY <1>0, <3>1 DEF GuardTypeOK
    <3>3. Owns(d)  BY <2>1, <3>1 DEF Owns, Tx, Held
    <3>4. backup[d][g] \in {NoBackup, base[d].files[g]}  BY <1>0, <3>2, <3>3 DEF OwnOf, SlotInv
    <3>5. Restored(d, g) \in {files[g], base[d].files[g]}  BY <3>4 DEF Restored
    <3>6. ASSUME NEW f \in Slots, files'[f] # files[f]
          PROVE  Held(d) /\ files'[f] = base[d].files[f]
      <4>1. f = g /\ files'[f] = Restored(d, g)  BY <1>0, <3>1, <3>6 DEF GuardTypeOK
      <4> QED  BY <3>1, <3>5, <3>6, <4>1
    <3> QED  BY <3>6 DEF FilesChange
  <2> QED  BY <2>2, <2>3
<1>4. CASE files' = files  BY <1>4 DEF FilesChange
<1>5. ASSUME files' # files
      PROVE  \E ran, seen \in BOOLEAN :
               \/ Publish(d, ran, seen) \/ RollBackSlot(d, ran, seen)
               \/ \E state : Start(d, ran, seen, state)
  <2>1. \A seen \in BOOLEAN :
          ~(\/ Baseline(d, seen) \/ CheckStatus(d, seen) \/ Activate(d, seen)
            \/ CheckOwned(d, seen) \/ Discard(d, seen) \/ Verify(d, seen))
    BY <1>5 DEF Baseline, CheckStatus, Activate, CheckOwned, Discard, Verify, host
  <2>2. \A ran, seen \in BOOLEAN :
          ~(Prepare(d, ran, seen) \/ Quiesce(d, ran, seen) \/ \E state : RestoreGuard(d, ran, seen, state))
    BY <1>5 DEF Prepare, Quiesce, RestoreGuard
  <2>3. ~(Interrupt(d) \/ CrashGuard(d))  BY <1>5 DEF Interrupt, CrashGuard, host
  <2> QED  BY <2>1, <2>2, <2>3 DEF DeployerStep
<1> QED  BY <1>1, <1>2, <1>3, <1>4, <1>5

LEMMA CloserWrites ==
  ASSUME GuardInv, NEW a \in Closers,
         \/ BeginTeardown(a) \/ StopAnyway(a)
         \/ \E seen \in BOOLEAN : Prove(a, seen) \/ CheckExpected(a, seen)
         \/ \E ran, seen \in BOOLEAN : Remove(a, ran, seen)
  PROVE  FilesChange
<1>0. GuardTypeOK  BY DEF GuardInv
<1>1. CASE files' = files  BY <1>1 DEF FilesChange
<1>2. ASSUME NEW seen \in BOOLEAN, Prove(a, seen), files' # files  PROVE FilesChange
  <2>1. Held(a)  BY <1>2 DEF Prove, Command
  <2>2. \E p : files' = [files EXCEPT !["manifest"] = [files["manifest"] EXCEPT !.pid = p]]
    <3> DEFINE m == files["manifest"]
               adopt == /\ m # Empty /\ Alive /\ daemon.pid # m.pid /\ LineageMatches(m)
    <3>1. files' = [files EXCEPT !["manifest"] =
                      IF adopt THEN [m EXCEPT !.pid = daemon.pid] ELSE m]
      BY <1>2 DEF Prove
    <3>2. adopt
      <4> HIDE DEF adopt
      <4>1. ASSUME ~adopt PROVE FALSE
        <5>1. files' = [files EXCEPT !["manifest"] = m]  BY <3>1, <4>1
        <5> QED  BY <1>0, <1>2, <5>1 DEF GuardTypeOK
      <4> QED  BY <4>1
    <3> QED  BY <3>1, <3>2
  <2>3. \A f \in Slots : files'[f].by = files[f].by
    BY <1>0, <2>2 DEF GuardTypeOK, Content, Slots
  <2> QED  BY <2>1, <2>3 DEF FilesChange
<1>3. ASSUME NEW ran \in BOOLEAN, NEW seen \in BOOLEAN, Remove(a, ran, seen), files' # files
      PROVE  FilesChange
  <2>1. /\ Held(a)
        /\ files' = [f \in Slots |-> IF f \in InstallSlots THEN Empty ELSE files[f]]
    BY <1>3 DEF Remove, Removable, Command
  <2>2. \A f \in Slots : files'[f].by \in {files[f].by, None}  BY <2>1 DEF Empty
  <2> QED  BY <2>1, <2>2 DEF FilesChange
<1>4. ASSUME files' # files
      PROVE  \/ \E seen \in BOOLEAN : Prove(a, seen)
             \/ \E ran, seen \in BOOLEAN : Remove(a, ran, seen)
  BY <1>4 DEF BeginTeardown, StopAnyway, CheckExpected, host
<1> QED  BY <1>1, <1>2, <1>3, <1>4

\* Every change of the installed files is one of the owner of a valid lease, to its own
\* or to what it found: a deployment never leaves anything but itself and what was there
\* (the fence of each command, _rollback_remote_file, _guard_stop_over).
THEOREM WritesAreOwned == GuardSpec => [][FilesChange]_guardVars
<1>1. GuardInv /\ [GuardNext]_guardVars => [FilesChange]_guardVars
  <2> SUFFICES ASSUME GuardInv, GuardNext PROVE FilesChange  OBVIOUS
  <2>1. ASSUME NEW a \in Actors,
               \/ \E ran, seen \in BOOLEAN : AcquireLock(a, ran, seen)
               \/ \E ran \in BOOLEAN : ReleaseLock(a, ran)
        PROVE  FilesChange
    BY <2>1 DEF AcquireLock, ReleaseLock, host, FilesChange
  <2>2. CASE ExpireLock \/ RestartDaemon \/ BecomeReady \/ GuardDone
    <3>1. files' = files
      BY <2>2 DEF ExpireLock, RestartDaemon, BecomeReady, GuardDone, host, guardVars
    <3> QED  BY <3>1 DEF FilesChange
  <2> QED  BY <2>1, <2>2, DeployerWrites, CloserWrites DEF GuardNext
<1> QED  BY <1>1, TransactionHolds, PTL DEF GuardSpec
=============================================================================
