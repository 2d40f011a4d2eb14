-------------------------------- MODULE MdvmSync -------------------------------
(***************************************************************************)
(* The Microsoft Defender vulnerability connector (form: mdvm.py) and the   *)
(* Analyzer handler of its batches (api/ingest.py).  The connector keeps    *)
(* the set of active findings in a database that polling processes share:   *)
(* a baseline replaces it, a delta changes it.  The set is changed BEFORE   *)
(* the snapshots of the devices concerned are handed to Analyzer, and the   *)
(* watermark moves after that.  Analyzer stores a snapshot under an id made *)
(* of its content, once.                                                    *)
(***************************************************************************)
EXTENDS Naturals

CONSTANTS
  Devices,
  Findings,
  DeviceOf,      \* [Findings -> Devices]
  VmSyncers,     \* polling processes
  Refresh,       \* baseline_refresh_hours
  Horizon,       \* the 13 days a delta may reach back
  DeltaOverlap,  \* delta_overlap_seconds
  VmLeaseTime,   \* lease_seconds
  MaxVmTime,     \* bound on the clock
  MaxVmMisses    \* bound on failed requests, lost answers and deaths

ASSUME MdvmAssumption ==
  /\ DeviceOf \in [Findings -> Devices]
  /\ {Refresh, Horizon, DeltaOverlap, VmLeaseTime, MaxVmTime, MaxVmMisses} \subseteq Nat
  /\ "none" \notin VmSyncers /\ "gone" \notin VmSyncers

VARIABLES
  vmClock,
  vuln,      \* [Findings -> active, time of the last change] upstream
  vmState,   \* the state row: mark (watermark), base (last baseline), owner, until
  active,    \* mdvm_findings: the materialised set
  device,    \* mdvm_devices: [Devices -> observed_at, 0: no row]
  reports,   \* [Devices -> ids of the stored snapshots]
  shown,     \* [Devices -> findings of the newest stored snapshot]
  vmPoll,    \* [VmSyncers -> the synchronization under way]
  overtaken, \* history: a round that was handing over lost its expired lease
  vmMisses

vmVars == <<vmClock, vuln, vmState, active, device, reports, shown, vmPoll, overtaken, vmMisses>>

Before(a, b) == IF a > b THEN a - b ELSE 0
Later(a, b) == IF a > b THEN a ELSE b
VmIdle == [at |-> "rest", started |-> 0, mode |-> "none", changes |-> {}, snaps |-> {}]
VmMiss == vmMisses < MaxVmMisses /\ vmMisses' = vmMisses + 1
Unleased == [vmState EXCEPT !.owner = "none", !.until = 0]

\* Upstream: a finding becomes active or is fixed, one per unit of time.
Flip(f) ==
  /\ \A g \in Findings : vuln[g].t < vmClock
  /\ vuln' = [vuln EXCEPT ![f] = [on |-> ~@.on, t |-> vmClock]]
  /\ UNCHANGED <<vmClock, vmState, active, device, reports, shown, vmPoll, overtaken, vmMisses>>

VmPass ==
  /\ vmClock < MaxVmTime
  /\ vmClock' = vmClock + 1
  /\ UNCHANGED <<vuln, vmState, active, device, reports, shown, vmPoll, overtaken, vmMisses>>

\* acquire, and what sync_once reads of the row it acquired.
BaselineDue(started) ==
  \/ vmState.mark = 0 \/ vmState.base = 0
  \/ started - vmState.base >= Refresh \/ started - vmState.mark >= Horizon

VmAcquire(p) ==
  /\ vmPoll[p].at = "rest"
  /\ vmState.owner = "none" \/ vmState.until <= vmClock
  /\ vmState' = [vmState EXCEPT !.owner = p, !.until = vmClock + VmLeaseTime]
  /\ vmPoll' = [vmPoll EXCEPT ![p] =
       [VmIdle EXCEPT !.at = "fetch", !.started = vmClock,
                      !.mode = IF BaselineDue(vmClock) THEN "baseline" ELSE "delta"]]
  /\ overtaken' = (overtaken \/ (vmState.owner \in VmSyncers
                                 /\ vmPoll[vmState.owner].at \in {"snapshot", "send"}))
  /\ UNCHANGED <<vmClock, vuln, active, device, reports, shown, vmMisses>>

\* A baseline lists what is active, a delta what changed since the watermark less the
\* overlap; each record carries its own time.  An export is taken to be current: the
\* changes that the overlap is there to catch late are not modelled.
Exported(mode) ==
  {[f |-> f, on |-> vuln[f].on, t |-> vuln[f].t] :
     f \in {g \in Findings : IF mode = "baseline" THEN vuln[g].on
                             ELSE /\ vuln[g].t > 0
                                  /\ vuln[g].t >= Before(vmState.mark, DeltaOverlap)}}

VmFetch(p) ==
  /\ vmPoll[p].at = "fetch"
  /\ vmPoll' = [vmPoll EXCEPT ![p].at = "apply", ![p].changes = Exported(vmPoll[p].mode)]
  /\ UNCHANGED <<vmClock, vuln, vmState, active, device, reports, shown, overtaken, vmMisses>>

TimesOn(cs, d) == {c.t : c \in {x \in cs : DeviceOf[x.f] = d}}
Observed(cs, d, old) == IF TimesOn(cs, d) = {} THEN old
                        ELSE Later(old, CHOOSE t \in TimesOn(cs, d) : \A u \in TimesOn(cs, d) : u <= t)

\* A variant: a baseline is merged into the set instead of replacing it.
KeptMerged(mode) == active

\* What a baseline or a delta leaves of the old set.
Kept(mode) == IF mode = "baseline" THEN {} ELSE active

\* replace_baseline / apply_delta: one transaction of the lease owner.
VmApply(p) ==
  LET cs == vmPoll[p].changes
      mode == vmPoll[p].mode
  IN  /\ vmPoll[p].at = "apply"
      /\ IF vmState.owner = p
           THEN /\ active' = {c.f : c \in {x \in cs : x.on}}
                             \union (Kept(mode) \ {c.f : c \in cs})
                /\ device' = [d \in Devices |->
                     Observed(cs, d, IF mode = "baseline" THEN 0 ELSE device[d])]
                /\ vmPoll' = [vmPoll EXCEPT ![p].at = "snapshot"]
           ELSE /\ vmPoll' = [vmPoll EXCEPT ![p] = VmIdle]
                /\ UNCHANGED <<active, device>>
      /\ UNCHANGED <<vmClock, vuln, vmState, reports, shown, overtaken, vmMisses>>

\* device_snapshots: of the devices the changes named.
Affected(cs) == {DeviceOf[c.f] : c \in cs}
Content(d) == {f \in active : DeviceOf[f] = d}

\* A variant: the id of a snapshot forgets when it was observed.
ReportIdTimeless(d) == [observed |-> 0, findings |-> Content(d)]

ReportId(d) == [observed |-> device[d], findings |-> Content(d)]

VmSnapshot(p) ==
  /\ vmPoll[p].at = "snapshot"
  /\ vmPoll' = [vmPoll EXCEPT ![p].at = "send",
       ![p].snaps = {[d |-> d, id |-> ReportId(d)] :
                       d \in {e \in Affected(vmPoll[p].changes) : device[e] > 0}}]
  /\ UNCHANGED <<vmClock, vuln, vmState, active, device, reports, shown, overtaken, vmMisses>>

\* store_mdvm_vulnerability_batch: a snapshot whose id is known is not stored again.
Store(s) ==
  /\ reports' = [reports EXCEPT ![s.d] = @ \union {s.id}]
  /\ shown' = [shown EXCEPT ![s.d] = IF s.id \in reports[s.d] THEN @ ELSE s.id.findings]

VmSend(p, s) ==
  /\ vmPoll[p].at = "send" /\ s \in vmPoll[p].snaps
  /\ Store(s)
  /\ vmPoll' = [vmPoll EXCEPT ![p].snaps = @ \ {s}]
  /\ UNCHANGED <<vmClock, vuln, vmState, active, device, overtaken, vmMisses>>

\* success, for the lease owner.
VmSucceed(p) ==
  /\ vmPoll[p].at = "send" /\ vmPoll[p].snaps = {}
  /\ vmState' = IF vmState.owner = p
       THEN [Unleased EXCEPT !.mark = vmPoll[p].started,
                             !.base = IF vmPoll[p].mode = "baseline" THEN vmPoll[p].started ELSE @]
       ELSE vmState
  /\ vmPoll' = [vmPoll EXCEPT ![p] = VmIdle]
  /\ UNCHANGED <<vmClock, vuln, active, device, reports, shown, overtaken, vmMisses>>

\* failure: an export, the capacity check (which rolls the transaction back) or the host
\* map fails, or a batch is not derived although it may be stored.
VmFail(p) ==
  /\ vmPoll[p].at # "rest" /\ VmMiss
  /\ \/ UNCHANGED <<reports, shown>>
     \/ \E s \in vmPoll[p].snaps : Store(s)
  /\ vmState' = IF vmState.owner = p THEN Unleased ELSE vmState
  /\ vmPoll' = [vmPoll EXCEPT ![p] = VmIdle]
  /\ UNCHANGED <<vmClock, vuln, active, device, overtaken>>

\* The process stops or dies; the lease row keeps an owner that never returns.
VmDie(p) ==
  /\ vmPoll[p].at # "rest" /\ VmMiss
  /\ vmState' = [vmState EXCEPT !.owner = IF @ = p THEN "gone" ELSE @]
  /\ vmPoll' = [vmPoll EXCEPT ![p] = VmIdle]
  /\ UNCHANGED <<vmClock, vuln, active, device, reports, shown, overtaken>>

MdvmInit ==
  /\ vmClock = 1 /\ vmMisses = 0 /\ overtaken = FALSE
  /\ vuln = [f \in Findings |-> [on |-> FALSE, t |-> 0]]
  /\ vmState = [mark |-> 0, base |-> 0, owner |-> "none", until |-> 0]
  /\ active = {}
  /\ device = [d \in Devices |-> 0]
  /\ reports = [d \in Devices |-> {}]
  /\ shown = [d \in Devices |-> {}]
  /\ vmPoll = [p \in VmSyncers |-> VmIdle]

MdvmNext ==
  \/ VmPass
  \/ \E f \in Findings : Flip(f)
  \/ \E p \in VmSyncers : \/ VmAcquire(p) \/ VmFetch(p) \/ VmApply(p) \/ VmSnapshot(p)
                          \/ VmSucceed(p) \/ VmFail(p) \/ VmDie(p)
                          \/ \E s \in vmPoll[p].snaps : VmSend(p, s)

MdvmSpec == MdvmInit /\ [][MdvmNext]_vmVars

Synced(f) == vuln[f].t > 0 /\ vuln[f].t < vmState.mark

\* The materialised set is the upstream one up to the watermark: baselines, deltas,
\* failed and repeated rounds and lease takeovers neither lose a finding nor keep a
\* fixed one (mdvm.py replaces or changes the set in one transaction of the owner).
MaterializedIsUpstream == \A f \in Findings : Synced(f) => (f \in active <=> vuln[f].on)

\* Whatever upstream reported as active before the watermark, the newest snapshot
\* that Analyzer holds of the device shows (while no round that was handing over
\* has outlived its lease and been overtaken: nothing checks the lease there).
ActiveIsShown ==
  ~overtaken => \A f \in Findings : Synced(f) /\ vuln[f].on => f \in shown[DeviceOf[f]]

\* A finding that was fixed before the watermark is not shown any more: the device is
\* reported even when its last finding is fixed.
FixedIsShown == \A f \in Findings : Synced(f) /\ ~vuln[f].on => f \notin shown[DeviceOf[f]]

=============================================================================
