---------------------------- MODULE MCServices ----------------------------
(***************************************************************************)
(* The services around the scan pipeline for TLC: both Defender            *)
(* synchronisations, the schedules, the credentials and the uploads of      *)
(* Form, the record stores of Analyzer and the spool of the agent.  They   *)
(* share no state, so that only one of them moves in a behaviour:          *)
(* interleaving them would add no outcome.  Of the readers of the record   *)
(* stores those by cursor and by offset know nothing of the cache: they    *)
(* and the projections are checked apart, the latter with fewer rows since *)
(* retention by bytes drops any number, and without torn lines, which      *)
(* belong to no upload.  Mishaps of the spool do not meet the payload that *)
(* exceeds it, which never gets into the queue.                            *)
(***************************************************************************)
EXTENDS MdeSync, MdvmSync, RecordStore, Schedules, Credentials, ChunkedUpload,
        AgentSpool, TLC

\* p1 and p2 are the two processes, or the two keys, of a service.
CONSTANTS p1, p2, d1, f1, f2

VARIABLE focus

\* Every alert belongs to the incident, every finding to the device.
AllMembers == [n \in Incidents |-> Alerts]
OneDevice == [f \in Findings |-> d1]

\* Enough reports for retention and for pages, fewer rows beside them.
RowBound == [s \in Stores |-> IF s = "reports" THEN 5 ELSE 1]

\* One payload alone exceeds the spool.
Sizes == [p \in Payloads |-> IF p = "large" THEN 3 ELSE 1]

\* Reports have two streams and no matches, trace batches three.
Rows == [bytes : {1, 2}, matches : {0}]
Light == [bytes |-> 1, matches |-> 0]
Heavy == [bytes |-> 1, matches |-> 3]
SmallContents ==
  {<<a, v>> : a, v \in BoundedSeq(Rows, 2)}
    \union {<<a, b, c>> : a \in BoundedSeq({Light, Heavy}, 1),
                          b \in BoundedSeq({Light}, 1), c \in BoundedSeq({Heavy}, 1)}
    \union {<< <<[bytes |-> 5, matches |-> 0]>>, <<>> >>}

Same == Permutations({p1, p2}) \union Permutations({f1, f2})

ServicesInit ==
  /\ focus \in {"mde", "mdvm", "readers", "projections", "schedules", "credentials",
                "upload", "spool"}
  /\ MdeInit /\ MdvmInit /\ RecordInit /\ ScheduleInit /\ CredentialInit /\ UploadInit
  /\ SpoolInit
  /\ focus \notin {"readers", "projections"} => backend = "sqlite"
  /\ focus # "credentials" => transport = "ssh" /\ ~established
  /\ focus # "upload" => content = <<<<>>, <<>>>>

ServicesNext ==
  /\ UNCHANGED focus
  /\ \/ /\ focus = "mde" /\ MdeNext
        /\ UNCHANGED <<vmVars, recVars, schedVars, credVars, upVars, spoolVars>>
     \/ /\ focus = "mdvm" /\ MdvmNext
        /\ UNCHANGED <<mdeVars, recVars, schedVars, credVars, upVars, spoolVars>>
     \/ /\ focus = "readers" /\ RecordNext /\ req'.kind \notin ProjectionKinds
        /\ UNCHANGED <<mdeVars, vmVars, schedVars, credVars, upVars, spoolVars>>
     \/ /\ focus = "projections" /\ RecordNext
        /\ req'.kind \in ProjectionKinds \union {"none", "missing"}
        /\ lastId'["reports"] <= MaxRows /\ tears' = 0
        /\ UNCHANGED <<mdeVars, vmVars, schedVars, credVars, upVars, spoolVars>>
     \/ /\ focus = "schedules" /\ ScheduleNext
        /\ UNCHANGED <<mdeVars, vmVars, recVars, credVars, upVars, spoolVars>>
     \/ /\ focus = "credentials" /\ CredentialNext
        /\ UNCHANGED <<mdeVars, vmVars, recVars, schedVars, upVars, spoolVars>>
     \/ /\ focus = "upload" /\ UploadNext
        /\ UNCHANGED <<mdeVars, vmVars, recVars, schedVars, credVars, spoolVars>>
     \/ /\ focus = "spool" /\ SpoolNext /\ ("large" \in fresh' \/ mishaps' = 0)
        /\ UNCHANGED <<mdeVars, vmVars, recVars, schedVars, credVars, upVars>>

ServicesSpec ==
  /\ ServicesInit
  /\ [][ServicesNext]_<<focus, mdeVars, vmVars, recVars, schedVars, credVars, upVars, spoolVars>>
=============================================================================
