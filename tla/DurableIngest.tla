--------------------------- MODULE DurableIngest ----------------------------
(***************************************************************************)
(* What Analyzer promises about an envelope it has accepted: it is stored  *)
(* once, its result is derived once, and its outcome is recorded after     *)
(* both and eventually.  The outcome of a finished envelope may age out of *)
(* the deduplication window; an envelope sent again after that is accepted *)
(* again and adds nothing.                                                 *)
(***************************************************************************)
EXTENDS Naturals

CONSTANT Keys  \* idempotency keys of envelopes

VARIABLES
  status,  \* what the ledger knows of an envelope
  raw,     \* stored copies of the envelope
  derived  \* results derived from it

ingestVars == <<status, raw, derived>>

Init ==
  /\ status = [k \in Keys |-> "unknown"]
  /\ raw = [k \in Keys |-> 0]
  /\ derived = [k \in Keys |-> 0]

Accept(k) ==
  /\ status[k] = "unknown"
  /\ status' = [status EXCEPT ![k] = "accepted"]
  /\ UNCHANGED <<raw, derived>>

Store(k) ==
  /\ status[k] = "accepted"
  /\ raw[k] = 0
  /\ raw' = [raw EXCEPT ![k] = 1]
  /\ UNCHANGED <<status, derived>>

Derive(k) ==
  /\ status[k] = "accepted"
  /\ raw[k] = 1
  /\ derived[k] = 0
  /\ derived' = [derived EXCEPT ![k] = 1]
  /\ UNCHANGED <<status, raw>>

(* An outcome is recorded, and outcomes beyond the window are forgotten.   *)
Finish(k, old) ==
  /\ status[k] = "accepted"
  /\ raw[k] = 1
  /\ derived[k] = 1
  /\ \A o \in old : status[o] = "done"
  /\ status' = [o \in Keys |-> IF o = k THEN "done"
                               ELSE IF o \in old THEN "unknown"
                               ELSE status[o]]
  /\ UNCHANGED <<raw, derived>>

Process(k) == Store(k) \/ Derive(k) \/ \E old \in SUBSET (Keys \ {k}) : Finish(k, old)

Next == \E k \in Keys : Accept(k) \/ Process(k)

Spec == Init /\ [][Next]_ingestVars /\ \A k \in Keys : WF_ingestVars(Process(k))
=============================================================================
