------------------------------ MODULE GuardDeploy ------------------------------
(***************************************************************************)
(* The remote Guard deployment transaction (form: deploy/agent.py) on one  *)
(* host.  Several Form executions deploy, prove or tear down the Guard of  *)
(* the same host; each remote command is one atomic shell command that     *)
(* holds the kernel gate lock, checks that its owner still holds the       *)
(* deployment lease and renews it (the fence).  Its answer may be lost     *)
(* after it ran.                                                           *)
(*                                                                         *)
(* The five things a deployment replaces are slots: the binary, the        *)
(* configuration (standing for the detector inputs published the same      *)
(* way), the identity pointer, the environment file and the manifest.      *)
(* The content of a slot is the deployment that wrote it, and for the      *)
(* manifest also the process it names.                                     *)
(***************************************************************************)
EXTENDS Naturals, Sequences, FiniteSets

CONSTANTS
  Deployers,    \* executions that run start_guard_daemon, once each
  Closers,      \* executions that prove a deployment and tear down what they proved,
                \* or (the guard stop endpoint) tear down whatever is there
  Old,          \* the deployment found on the host
  None,         \* no deployment, no owner
  Build,        \* the build a deployment installs (its binary and config hashes)
  MaxTroubles   \* bound on troubles: commands that fail or whose answer is lost, crashes,
                \* leases that run out, executions interrupted by their worker, daemons
                \* that die

Deployments == Deployers \union {Old}
Actors == Deployers \union Closers

ASSUME GuardAssumption ==
  /\ Old \notin Deployers /\ None \notin Deployments \union Actors
  /\ Deployers \intersect Closers = {}
  /\ Build \in [Deployments -> {"v1", "v2"}]
  /\ MaxTroubles \in Nat

Slots == {"binary", "config", "identity", "env", "manifest"}
InstallSlots == Slots \ {"identity"}     \* what lives in the install directory
Empty == [by |-> None, pid |-> 0]        \* an absent file
Content == [by : Deployments \union {None}, pid : Nat]
NoBackup == [by |-> None, pid |-> 1]      \* neither a copy nor an absent marker
Down == [state |-> "down", pid |-> 0, bin |-> None, config |-> None]

VARIABLES
  files,      \* [Slots -> Content]: what the host has
  backup,     \* [Deployers -> [Slots -> Content or NoBackup]]
  daemon,     \* the guard process: down, unready or ready
  nextPid,    \* the process number the host gives next
  lock,       \* [owner, live]: the deployment lease
  stage,      \* [Actors -> the part of its operation it is in]
  step,       \* [Deployers -> its position in Script]
  undo,       \* [Deployers -> slots it still has to roll back]
  mypid,      \* [Deployers -> the process it started]
  base,       \* [Deployers -> what it found under the lock]
  proven,     \* [Deployers -> no rollback step has failed]
  outcome,    \* [Deployers -> none, ok, failed or uncertain]
  interrupted,\* [Deployers -> its worker told it to stop]
  proof,      \* [Closers -> what it proved, or that it asks for no proof]
  faults, expiries, deaths  \* troubles so far

host == <<files, backup, daemon, nextPid>>
local == <<stage, step, undo, mypid, base, proven, outcome, interrupted, proof>>
guardVars == <<files, backup, daemon, nextPid, lock, stage, step, undo, mypid, base,
               proven, outcome, interrupted, proof, faults, expiries, deaths>>

(***************************************************************************)
(* The order of the remote commands of start_guard_daemon.                 *)
(***************************************************************************)
Script ==
  << <<"prepare", "binary">>,
     <<"prepare", "config">>,   <<"publish", "config">>,
     <<"prepare", "identity">>, <<"publish", "identity">>,
     <<"prepare", "env">>,      <<"publish", "env">>,
     <<"start", "binary">>,     <<"check", "binary">>,
     <<"prepare", "manifest">>, <<"publish", "manifest">>,
     <<"activate", "manifest">> >>

StartAt == 8

\* The command at which the transaction has recorded the publication of a slot.
RecordedAt == [binary |-> 1, config |-> 3, identity |-> 7, env |-> 7, manifest |-> 11]

Op(d) == Script[step[d]][1]
Slot(d) == Script[step[d]][2]
StartAttempted(d) == step[d] >= StartAt

(***************************************************************************)
(* _require_remote_rollback: what the failing helper itself rolls back,    *)
(* before the transaction rolls back what it has recorded.                 *)
(***************************************************************************)
HelperUndo(d) == IF Op(d) \notin {"prepare", "publish"} THEN {}
                 ELSE IF Slot(d) = "env" THEN {"env", "identity"} ELSE {Slot(d)}

\* A variant that forgets the identity pointer.
TransactionUndoFiles(d) == {f \in Slots \ {"identity"} : step[d] > RecordedAt[f]}

\* _GuardDeploymentTransaction.rollback: what the transaction has recorded.
TransactionUndo(d) == {f \in Slots : step[d] > RecordedAt[f]}

\* The order of every rollback: the files in reverse, then the identity.
UndoRank == [manifest |-> 1, env |-> 2, config |-> 3, binary |-> 4, identity |-> 5]

(***************************************************************************)
(* The deployment lease.                                                   *)
(***************************************************************************)
Held(a) == lock.owner = a /\ lock.live

Trouble == faults + expiries + deaths + Cardinality({d \in Deployers : interrupted[d]}) < MaxTroubles

\* session.exec aborts at once when the worker of the execution is interrupted.
Reaches(a) == IF a \in Deployers THEN ~interrupted[a] ELSE TRUE

\* A fenced command of a: whether it ran, and whether its answer was seen.
Command(a, ran, seen) ==
  /\ seen => ran
  /\ ran => Held(a) /\ Reaches(a)
  /\ IF seen \/ ~Held(a) \/ ~Reaches(a)
       THEN faults' = faults
       ELSE Trouble /\ faults' = faults + 1

Goto(a, s) == stage' = [stage EXCEPT ![a] = s]

\* _acquire_guard_deployment_lock; a refused or unanswered one is released again.
AcquireLock(a, ran, seen) ==
  /\ stage[a] = "lock"
  /\ seen => ran
  /\ ran => Reaches(a) /\ ~(lock.live /\ lock.owner # None)
  /\ IF seen \/ ~Reaches(a) \/ (lock.live /\ lock.owner # None)
       THEN faults' = faults
       ELSE Trouble /\ faults' = faults + 1
  /\ lock' = IF ran THEN [owner |-> a, live |-> TRUE] ELSE lock
  /\ Goto(a, IF seen THEN "locked" ELSE "release")
  /\ outcome' = IF a \in Deployers /\ ~seen THEN [outcome EXCEPT ![a] = "failed"] ELSE outcome
  /\ UNCHANGED <<host, step, undo, mypid, base, proven, interrupted, proof, expiries, deaths>>

\* _release_guard_deployment_lock: only the owner's lease is removed, errors are ignored.
ReleaseLock(a, ran) ==
  /\ stage[a] = "release"
  /\ ran => Reaches(a)
  /\ IF ran \/ ~Reaches(a) THEN faults' = faults
                           ELSE Trouble /\ faults' = faults + 1
  /\ lock' = IF ran /\ lock.owner = a THEN [owner |-> None, live |-> FALSE] ELSE lock
  /\ Goto(a, IF a \in Closers /\ proof[a].state = "taken" THEN "proved" ELSE "done")
  /\ UNCHANGED <<host, step, undo, mypid, base, proven, outcome, interrupted, proof, expiries, deaths>>

\* The time to live of the lease passes without a renewal.
ExpireLock ==
  /\ lock.live /\ Trouble
  /\ lock' = [lock EXCEPT !.live = FALSE]
  /\ expiries' = expiries + 1
  /\ UNCHANGED <<host, local, faults, deaths>>

(***************************************************************************)
(* start_guard_daemon.                                                     *)
(***************************************************************************)
Alive == daemon.state = "ready"

\* The rollback baselines are read under the lock.
Baseline(d, seen) ==
  /\ stage[d] = "locked"
  /\ Command(d, seen, seen)
  /\ base' = IF seen THEN [base EXCEPT ![d] = [files |-> files, alive |-> Alive]] ELSE base
  /\ outcome' = IF seen THEN outcome ELSE [outcome EXCEPT ![d] = "failed"]
  /\ Goto(d, IF seen THEN "run" ELSE "release")
  /\ UNCHANGED <<host, lock, step, undo, mypid, proven, interrupted, proof, expiries, deaths>>

\* The next command after a success, the helper's own rollback after a failure.
Continue(d, seen) ==
  IF seen
    THEN /\ step' = [step EXCEPT ![d] = @ + 1]
         /\ UNCHANGED <<stage, undo>>
    ELSE /\ undo' = [undo EXCEPT ![d] = HelperUndo(d)]
         /\ Goto(d, IF HelperUndo(d) = {} THEN "owned" ELSE "helper")
         /\ step' = step

\* _prepare_remote_file_publication and the first command of _install_agent_identity.
Prepare(d, ran, seen) ==
  /\ stage[d] = "run" /\ Op(d) = "prepare"
  /\ Command(d, ran, seen)
  /\ backup' = IF ran THEN [backup EXCEPT ![d][Slot(d)] = files[Slot(d)]] ELSE backup
  /\ Continue(d, seen)
  /\ UNCHANGED <<files, daemon, nextPid, lock, mypid, base, proven, outcome, interrupted,
                 proof, expiries, deaths>>

\* _remote_file_cas_condition: the slot is still what the backup says it was.
Unchanged(d, f) == backup[d][f] # NoBackup /\ backup[d][f] = files[f]

\* A variant that does not look at the result of the publication.
PublishUnchecked(d, ran, seen) ==
  /\ stage[d] = "run" /\ Op(d) = "publish"
  /\ Command(d, ran, seen)
  /\ files' = IF ran
                THEN [files EXCEPT ![Slot(d)] =
                        [by |-> d, pid |-> IF Slot(d) = "manifest" THEN mypid[d] ELSE 0]]
                ELSE files
  /\ Continue(d, TRUE)
  /\ UNCHANGED <<backup, daemon, nextPid, lock, mypid, base, proven, outcome, interrupted,
                 proof, expiries, deaths>>

\* Upload to a private name, then publish by a rename; the identity pointer has no condition.
Publish(d, ran, seen) ==
  /\ stage[d] = "run" /\ Op(d) = "publish"
  /\ Command(d, ran, seen)
  /\ ran => Slot(d) = "identity" \/ Unchanged(d, Slot(d))
  /\ files' = IF ran
                THEN [files EXCEPT ![Slot(d)] =
                        [by |-> d, pid |-> IF Slot(d) = "manifest" THEN mypid[d] ELSE 0]]
                ELSE files
  /\ Continue(d, seen)
  /\ UNCHANGED <<backup, daemon, nextPid, lock, mypid, base, proven, outcome, interrupted,
                 proof, expiries, deaths>>

Process(state, bin, config) ==
  [state |-> state, pid |-> nextPid, bin |-> bin, config |-> config]

\* _guard_start_command: stop, publish the binary, start, wait for the readiness marker.
Start(d, ran, seen, state) ==
  /\ stage[d] = "run" /\ Op(d) = "start"
  /\ Command(d, ran, seen)
  /\ ran => Unchanged(d, "binary")
  /\ seen => state = "ready"
  /\ ~ran => state = "down"
  /\ IF ran
       THEN /\ files' = [files EXCEPT !["binary"] = [by |-> d, pid |-> 0]]
            /\ daemon' = IF state = "down" THEN Down
                           ELSE Process(state, d, files["config"].by)
            /\ nextPid' = nextPid + 1
       ELSE UNCHANGED <<files, daemon, nextPid>>
  /\ mypid' = IF seen THEN [mypid EXCEPT ![d] = nextPid] ELSE mypid
  /\ Continue(d, seen)
  /\ UNCHANGED <<backup, lock, base, proven, outcome, interrupted, proof, expiries, deaths>>

\* The status is read again under the lock: a daemon that is gone fails the deployment.
CheckStatus(d, seen) ==
  /\ stage[d] = "run" /\ Op(d) = "check"
  /\ IF Alive THEN Command(d, seen, seen) ELSE ~seen /\ faults' = faults
  /\ Continue(d, seen)
  /\ UNCHANGED <<host, lock, mypid, base, proven, outcome, interrupted, proof, expiries, deaths>>

\* activation_callback, then the backups are dropped.  Neither waits for the lease.
Activate(d, seen) ==
  /\ stage[d] = "run" /\ Op(d) = "activate"
  /\ seen => ~interrupted[d]
  /\ IF seen \/ interrupted[d] THEN faults' = faults
                               ELSE Trouble /\ faults' = faults + 1
  /\ IF seen
       THEN /\ outcome' = [outcome EXCEPT ![d] = "ok"]
            /\ Goto(d, "release")
            /\ backup' = IF Held(d) THEN [backup EXCEPT ![d] = [f \in Slots |-> NoBackup]]
                                    ELSE backup
            /\ UNCHANGED <<step, undo>>
       ELSE /\ Continue(d, FALSE)
            /\ UNCHANGED <<outcome, backup>>
  /\ UNCHANGED <<files, daemon, nextPid, lock, mypid, base, proven, interrupted, proof,
                 expiries, deaths>>

(***************************************************************************)
(* _GuardDeploymentTransaction.rollback.                                   *)
(***************************************************************************)
\* _rollback_remote_file and _rollback_agent_identity.
Restored(d, f) == IF backup[d][f] = NoBackup THEN files[f] ELSE backup[d][f]

RollBackSlot(d, ran, seen) ==
  /\ stage[d] \in {"helper", "undo"}
  /\ Command(d, ran, seen)
  /\ \E f \in undo[d] :
       /\ \A g \in undo[d] : UndoRank[f] <= UndoRank[g]
       /\ IF ran THEN /\ files' = [files EXCEPT ![f] = Restored(d, f)]
                      /\ backup' = [backup EXCEPT ![d][f] = NoBackup]
                 ELSE UNCHANGED <<files, backup>>
       /\ undo' = [undo EXCEPT ![d] = @ \ {f}]
       /\ Goto(d, IF undo[d] # {f} THEN stage[d]
                  ELSE IF stage[d] = "helper" THEN "owned" ELSE "discard")
  /\ proven' = IF seen THEN proven ELSE [proven EXCEPT ![d] = FALSE]
  /\ UNCHANGED <<daemon, nextPid, lock, step, mypid, base, outcome, interrupted, proof, expiries, deaths>>

\* A rollback is only tried by the owner of the lease.
CheckOwned(d, seen) ==
  /\ stage[d] = "owned"
  /\ Command(d, seen, seen)
  /\ undo' = IF seen THEN [undo EXCEPT ![d] = TransactionUndo(d)] ELSE undo
  /\ Goto(d, IF ~seen THEN "release"
             ELSE IF StartAttempted(d) THEN "quiesce"
             ELSE IF TransactionUndo(d) = {} THEN "discard" ELSE "undo")
  /\ outcome' = IF seen THEN outcome ELSE [outcome EXCEPT ![d] = "uncertain"]
  /\ UNCHANGED <<host, lock, step, mypid, base, proven, interrupted, proof, expiries, deaths>>

\* _quiesce_guard
Quiesce(d, ran, seen) ==
  /\ stage[d] = "quiesce"
  /\ Command(d, ran, seen)
  /\ daemon' = IF ran THEN Down ELSE daemon
  /\ proven' = IF seen THEN proven ELSE [proven EXCEPT ![d] = FALSE]
  /\ Goto(d, "undo")
  /\ UNCHANGED <<files, backup, nextPid, lock, step, undo, mypid, base, outcome, interrupted,
                 proof, expiries, deaths>>

\* A variant that reports every finished rollback as proven.
VerdictOptimistic(d) == "failed"

\* What the caller is told once the rollback has ended.
Verdict(d) == IF proven[d] THEN "failed" ELSE "uncertain"

\* The staged binary is removed; without a start attempt the rollback ends here.
Discard(d, seen) ==
  /\ stage[d] = "discard"
  /\ seen => Reaches(d)
  /\ IF seen \/ ~Reaches(d) THEN faults' = faults
                            ELSE Trouble /\ faults' = faults + 1
  /\ proven' = IF seen THEN proven ELSE [proven EXCEPT ![d] = FALSE]
  /\ outcome' = IF StartAttempted(d) THEN outcome
                ELSE [outcome EXCEPT ![d] = IF seen THEN Verdict(d) ELSE "uncertain"]
  /\ Goto(d, IF StartAttempted(d) THEN "restore" ELSE "release")
  /\ UNCHANGED <<host, lock, step, undo, mypid, base, interrupted, proof, expiries, deaths>>

\* _restore_guard_after_failed_deploy: with the arguments the previous daemon had.
RestoreGuard(d, ran, seen, state) ==
  /\ stage[d] = "restore"
  /\ Command(d, ran, seen)
  /\ state # "down" => base[d].alive /\ ran
  /\ seen /\ base[d].alive => state = "ready"
  /\ daemon' = IF ~ran THEN daemon
               ELSE IF state = "down" THEN Down
               ELSE Process(state, files["binary"].by,
                            IF base[d].files["config"] = Empty THEN None ELSE files["config"].by)
  /\ nextPid' = IF ran /\ base[d].alive THEN nextPid + 1 ELSE nextPid
  /\ proven' = IF seen THEN proven ELSE [proven EXCEPT ![d] = FALSE]
  /\ Goto(d, "verify")
  /\ UNCHANGED <<files, backup, lock, step, undo, mypid, base, outcome, interrupted, proof,
                 expiries, deaths>>

\* The status is read without the fence and compared with the baseline.
Verify(d, seen) ==
  /\ stage[d] = "verify"
  /\ seen => Reaches(d)
  /\ IF seen \/ ~Reaches(d) THEN faults' = faults
                            ELSE Trouble /\ faults' = faults + 1
  /\ outcome' = [outcome EXCEPT ![d] =
                   IF seen /\ Alive = base[d].alive THEN Verdict(d) ELSE "uncertain"]
  /\ Goto(d, "release")
  /\ UNCHANGED <<host, lock, step, undo, mypid, base, proven, interrupted, proof, expiries, deaths>>

\* The worker is cancelled, times out, shuts down or notices that its lease is lost.
Interrupt(d) ==
  /\ ~interrupted[d] /\ stage[d] \notin {"done", "crashed"} /\ Trouble
  /\ interrupted' = [interrupted EXCEPT ![d] = TRUE]
  /\ UNCHANGED <<host, lock, stage, step, undo, mypid, base, proven, outcome, proof, faults,
                 expiries, deaths>>

\* The Form process of an execution dies; its lease stays until it expires.
CrashGuard(d) ==
  /\ stage[d] \notin {"lock", "done", "crashed"} /\ Trouble
  /\ faults' = faults + 1
  /\ Goto(d, "crashed")
  /\ UNCHANGED <<host, lock, step, undo, mypid, base, proven, outcome, interrupted, proof,
                 expiries, deaths>>

(***************************************************************************)
(* guard_deployment_proof.                                                 *)
(***************************************************************************)
\* _guard_restart_lineage_matches: hashes, the pointer and the running executable.
LineageMatches(m) ==
  /\ files["binary"].by # None /\ Build[files["binary"].by] = Build[m.by]
  /\ files["config"].by # None /\ Build[files["config"].by] = Build[m.by]
  /\ files["identity"].by = m.by
  /\ daemon.bin = files["binary"].by

\* Manifest and status under the lock; a process the supervisor restarted is adopted.
Prove(a, seen) ==
  /\ stage[a] = "locked" /\ proof[a].state = "none"
  /\ Command(a, seen, seen)
  /\ LET m == files["manifest"]
         adopt == /\ m # Empty /\ Alive /\ daemon.pid # m.pid /\ LineageMatches(m)
         shown == IF adopt THEN [m EXCEPT !.pid = daemon.pid] ELSE m
     IN  IF seen
           THEN /\ files' = [files EXCEPT !["manifest"] = shown]
                /\ proof' = [proof EXCEPT ![a] =
                               [state |-> "taken", manifest |-> shown, alive |-> Alive,
                                pid |-> daemon.pid]]
           ELSE UNCHANGED <<files, proof>>
  /\ Goto(a, "release")
  /\ UNCHANGED <<backup, daemon, nextPid, lock, step, undo, mypid, base, proven, outcome,
                 interrupted, expiries, deaths>>

\* A proof is used for a conditional teardown only when it names the live process.
Matched(p) == p.manifest # Empty /\ p.alive /\ p.manifest.pid = p.pid

BeginTeardown(a) ==
  /\ stage[a] = "proved" /\ Matched(proof[a])
  /\ Goto(a, "lock")
  /\ proof' = [proof EXCEPT ![a].state = "used"]
  /\ UNCHANGED <<host, lock, step, undo, mypid, base, proven, outcome, interrupted, faults,
                 expiries, deaths>>

(***************************************************************************)
(* stop_guard_daemon.                                                      *)
(***************************************************************************)
\* The comparison with the expected manifest.
CheckExpected(a, seen) ==
  /\ stage[a] = "locked" /\ proof[a].state = "used"
  /\ Command(a, seen, seen)
  /\ Goto(a, IF seen /\ files["manifest"] = proof[a].manifest THEN "remove" ELSE "release")
  /\ UNCHANGED <<host, lock, step, undo, mypid, base, proven, outcome, interrupted, proof,
                 expiries, deaths>>

\* The guard stop endpoint expects no manifest.
StopAnyway(a) ==
  /\ stage[a] = "locked" /\ proof[a].state = "none"
  /\ proof' = [proof EXCEPT ![a].state = "waived"]
  /\ Goto(a, "remove")
  /\ UNCHANGED <<host, lock, step, undo, mypid, base, proven, outcome, interrupted, faults,
                 expiries, deaths>>

\* A variant whose removal does not check the lease again.
RemovableUnfenced(a, ran, seen) == (seen <=> ran) /\ faults' = faults

\* The removal is a fenced command of its own.
Removable(a, ran, seen) == Command(a, ran, seen)

\* _guard_stop_over: the daemon, the install directory and with it lease and backups.
Remove(a, ran, seen) ==
  /\ stage[a] = "remove"
  /\ Removable(a, ran, seen)
  /\ IF ran
       THEN /\ files' = [f \in Slots |-> IF f \in InstallSlots THEN Empty ELSE files[f]]
            /\ backup' = [d \in Deployers |-> [f \in Slots |->
                            IF f \in InstallSlots THEN NoBackup ELSE backup[d][f]]]
            /\ daemon' = Down
            /\ lock' = [owner |-> None, live |-> FALSE]
       ELSE UNCHANGED <<files, backup, daemon, lock>>
  /\ Goto(a, "release")
  /\ UNCHANGED <<nextPid, step, undo, mypid, base, proven, outcome, interrupted, proof, expiries, deaths>>

(***************************************************************************)
(* The host: systemd restarts a daemon that dies, with the files it finds. *)
(***************************************************************************)
RestartDaemon ==
  /\ daemon.state # "down" /\ Trouble
  /\ deaths' = deaths + 1
  /\ daemon' = Process("unready", files["binary"].by,
                       IF daemon.config = None THEN None ELSE files["config"].by)
  /\ nextPid' = nextPid + 1
  /\ UNCHANGED <<files, backup, lock, local, faults, expiries>>

BecomeReady ==
  /\ daemon.state = "unready"
  /\ daemon' = [daemon EXCEPT !.state = "ready"]
  /\ UNCHANGED <<files, backup, nextPid, lock, local, faults, expiries, deaths>>

\* Everything has ended (the model stops here, the system waits for the next job).
GuardDone ==
  /\ \A a \in Actors : stage[a] \in {"done", "crashed", "proved"}
  /\ UNCHANGED guardVars

GuardInit ==
  /\ \E found \in {Old, None} :
       /\ files = [f \in Slots |-> IF found = None THEN Empty
                                   ELSE [by |-> Old, pid |-> IF f = "manifest" THEN 1 ELSE 0]]
       /\ daemon \in {Down} \union (IF found = None THEN {}
                        ELSE {[state |-> "ready", pid |-> 1, bin |-> Old, config |-> Old]})
  /\ nextPid = 2
  /\ backup = [d \in Deployers |-> [f \in Slots |-> NoBackup]]
  /\ lock = [owner |-> None, live |-> FALSE]
  /\ stage = [a \in Actors |-> "lock"]
  /\ step = [d \in Deployers |-> 1]
  /\ undo = [d \in Deployers |-> {}]
  /\ mypid = [d \in Deployers |-> 0]
  /\ base = [d \in Deployers |-> [files |-> files, alive |-> FALSE]]
  /\ proven = [d \in Deployers |-> TRUE]
  /\ outcome = [d \in Deployers |-> "none"]
  /\ interrupted = [d \in Deployers |-> FALSE]
  /\ proof = [a \in Closers |-> [state |-> "none", manifest |-> Empty, alive |-> FALSE, pid |-> 0]]
  /\ faults = 0 /\ expiries = 0 /\ deaths = 0

DeployerStep(d) ==
  \/ \E seen \in BOOLEAN :
       \/ Baseline(d, seen) \/ CheckStatus(d, seen) \/ Activate(d, seen)
       \/ CheckOwned(d, seen) \/ Discard(d, seen) \/ Verify(d, seen)
       \/ \E ran \in BOOLEAN :
            \/ Prepare(d, ran, seen) \/ Publish(d, ran, seen)
            \/ RollBackSlot(d, ran, seen) \/ Quiesce(d, ran, seen)
            \/ \E state \in {"down", "unready", "ready"} :
                 Start(d, ran, seen, state) \/ RestoreGuard(d, ran, seen, state)
  \/ Interrupt(d) \/ CrashGuard(d)

GuardNext ==
  \/ \E a \in Actors :
       \/ \E ran, seen \in BOOLEAN : AcquireLock(a, ran, seen)
       \/ \E ran \in BOOLEAN : ReleaseLock(a, ran)
  \/ \E d \in Deployers : DeployerStep(d)
  \/ \E a \in Closers :
       \/ BeginTeardown(a) \/ StopAnyway(a)
       \/ \E seen \in BOOLEAN : Prove(a, seen) \/ CheckExpected(a, seen)
       \/ \E ran, seen \in BOOLEAN : Remove(a, ran, seen)
  \/ ExpireLock \/ RestartDaemon \/ BecomeReady
  \/ GuardDone

GuardSpec == GuardInit /\ [][GuardNext]_guardVars

(***************************************************************************)
(* Properties.                                                             *)
(***************************************************************************)
AtRest == /\ \A a \in Actors : stage[a] \in {"lock", "done", "proved"}
          /\ \A d \in Deployers : outcome[d] # "uncertain"

\* A deployment reported as failed (which lets the worker abort its
\* certificate) has left no file, no pointer and no process behind, and at the
\* moment of the report, if nobody took the lease since, every slot is as the
\* deployment found it (start_guard_daemon, rollback).
FailedIsRestored ==
  /\ \A d \in Deployers : outcome[d] = "failed" =>
       /\ \A f \in Slots : files[f].by # d
       /\ daemon.bin # d
  /\ \A d \in Deployers :
       outcome[d] = "failed" /\ stage[d] = "release" /\ lock.owner = d /\ step[d] > 1
         => files = base[d].files

\* Once every execution has ended and none is uncertain, all files in the
\* install directory, the pointer and the running binary are of one deployment:
\* leases that expire in the middle never mix two of them.
HostIsWhole ==
  AtRest => \E o \in Deployments \union {None} :
              /\ \A f \in InstallSlots : files[f].by = o
              /\ o # None => files["identity"].by = o
              /\ daemon.state # "down" => daemon.bin = o

\* A certificate is activated only for a deployment whose five parts are in
\* place, unless the lease was taken over after the manifest was published.
ActivatedIsWhole ==
  [][\A d \in Deployers :
       outcome[d] # "ok" /\ outcome'[d] = "ok" /\ lock.owner = d =>
         /\ \A f \in Slots : files[f].by = d
         /\ files["manifest"].pid = mypid[d]]_guardVars

\* A conditional teardown removes exactly the deployment its worker proved: the
\* lease may expire and be taken over between the comparison and the removal.
TeardownIsExact ==
  [][\A a \in Closers :
       stage[a] = "remove" /\ proof[a].state = "used" /\ files["manifest"] # Empty /\ files'["manifest"] = Empty
         /\ stage'[a] = "release"
       => files["manifest"] = proof[a].manifest]_guardVars

=============================================================================
