----------------------------- MODULE Credentials -----------------------------
(***************************************************************************)
(* The managed credential of one endpoint: a key pair that is listed in the *)
(* target's authorized_keys (deploy/bootstrap.py), or a client certificate  *)
(* that is mapped to its account (deploy/winrm_bootstrap.py).  Bootstrap,   *)
(* rotation and revocation (api/credentials.py, api/scans.py) change files  *)
(* of the Form host and the target one after the other, without a lock.  A  *)
(* remote command may fail, or take effect and fail; the process may die.   *)
(***************************************************************************)
EXTENDS Naturals

CONSTANTS
  Operators,    \* requests under way at the same time
  Transports,   \* subset of {"ssh", "winrm"}
  MaxPairs      \* bound on the key pairs ever generated

ASSUME CredentialAssumption == Transports \subseteq {"ssh", "winrm"} /\ MaxPairs \in Nat

VARIABLES
  transport,
  remote,       \* pairs the target accepts
  files,        \* [Names -> the pair a file belongs to, or NoPair]
  pairs,        \* pairs generated so far
  op,           \* [Operators -> [kind, pc, old, new, password]]
  established   \* a bootstrap has succeeded and no revocation has begun its command

credVars == <<transport, remote, files, pairs, op, established>>

NoPair == 0
Names == {"key", "pub", "newKey", "newPub", "oldKey", "oldPub"}
Ready == [kind |-> "none", pc |-> "idle", old |-> NoPair, new |-> NoPair, password |-> FALSE]

Exists(name) == files[name] # NoPair

\* An SSH login needs the private key, a WinRM login both halves of the pair.
Works(key, pub) == files[key] \in remote /\ (transport = "winrm" => files[key] = files[pub])

At(o, kind, pc) == op[o].kind = kind /\ op[o].pc = pc
Go(o, pc) == op' = [op EXCEPT ![o].pc = pc]
GiveUp(o) == op' = [op EXCEPT ![o] = [Ready EXCEPT !.pc = "failed"]]
Removed(names) == [n \in Names |-> IF n \in names THEN NoPair ELSE files[n]]
Staged == {"newKey", "newPub"}
Backup == {"oldKey", "oldPub"}

Begun(o, kind, old) ==
  \E pw \in BOOLEAN :
    op' = [op EXCEPT ![o] = [kind |-> kind, pc |-> "start", old |-> old, new |-> NoPair,
                             password |-> pw]]

\* A session by the managed key if it works, else by the password.
Session(o) == Works("key", "pub") \/ op[o].password

\* What a remote command leaves behind: its effect, or not when it reports a failure.
Outcome(effect) == remote' \in {effect, remote}

(***************************************************************************)
(* Bootstrap: ensure_key_auth, ensure_cert_auth.                           *)
(***************************************************************************)
StartEnsure(o) ==
  /\ op[o].pc \in {"idle", "done", "failed"}
  /\ Begun(o, "ensure", NoPair)
  /\ IF Exists("key") /\ (transport = "ssh" \/ Exists("pub"))
       THEN UNCHANGED <<files, pairs>>
       ELSE /\ pairs < MaxPairs
            /\ pairs' = pairs + 1
            /\ files' = [files EXCEPT !["key"] = pairs + 1, !["pub"] = pairs + 1]
  /\ UNCHANGED <<transport, remote, established>>

\* SSH tries the key first; a probe may fail though the key is accepted.
ProbeEnsure(o) ==
  /\ At(o, "ensure", "start")
  /\ \/ transport = "ssh" /\ Exists("pub") /\ Works("key", "pub") /\ Go(o, "done")
        /\ established' = TRUE
     \/ Exists("pub") /\ op[o].password /\ Go(o, "install") /\ UNCHANGED established
     \/ ~(Exists("pub") /\ op[o].password) /\ GiveUp(o) /\ UNCHANGED established
  /\ UNCHANGED <<transport, remote, files, pairs>>

\* A line that is installed need not be accepted: that is what the login after it is for.
InstallEnsure(o) ==
  /\ At(o, "ensure", "install")
  /\ IF ~Exists("pub") THEN GiveUp(o) /\ UNCHANGED remote
     ELSE Outcome(remote \union {files["pub"]}) /\ (Go(o, "verify") \/ GiveUp(o))
  /\ UNCHANGED <<transport, files, pairs, established>>

VerifyEnsure(o) ==
  /\ At(o, "ensure", "verify")
  /\ \/ Works("key", "pub") /\ Go(o, "done") /\ established' = TRUE
     \/ GiveUp(o) /\ UNCHANGED established
  /\ UNCHANGED <<transport, remote, files, pairs>>

(***************************************************************************)
(* Rotation: rotate_key, rotate_cert.                                      *)
(***************************************************************************)
\* Both halves, no backup of an earlier rotation; WinRM asks for the password and
\* copies the backup at once.
StartRotate(o) ==
  /\ op[o].pc \in {"idle", "done", "failed"}
  /\ Exists("key") /\ Exists("pub") /\ ~Exists("oldKey") /\ ~Exists("oldPub")
  /\ pairs < MaxPairs
  /\ pairs' = pairs + 1
  /\ Begun(o, "rotate", files["pub"])
  /\ transport = "winrm" => op'[o].password
  /\ files' = [files EXCEPT !["newKey"] = pairs + 1, !["newPub"] = pairs + 1,
                            !["oldKey"] = IF transport = "winrm" THEN files["key"] ELSE @,
                            !["oldPub"] = IF transport = "winrm" THEN files["pub"] ELSE @]
  /\ UNCHANGED <<transport, remote, established>>

\* The public half is read from its staged file; a file that is gone is an error.
InstallNew(o) ==
  LET new == files["newPub"]
      able == Exists("newPub") /\ Session(o)
  IN  /\ At(o, "rotate", "start")
      /\ \/ /\ able /\ Outcome(remote \union {new})
            /\ op' = [op EXCEPT ![o].pc = "prove", ![o].new = new]
            /\ UNCHANGED files
         \/ /\ IF able THEN Outcome(remote \union {new}) ELSE UNCHANGED remote
            /\ IF transport = "ssh" THEN GiveUp(o) /\ files' = Removed(Staged)
                                    ELSE Go(o, "reinstall") /\ UNCHANGED files
      /\ UNCHANGED <<transport, pairs, established>>

\* A variant: the new pair is promoted without a login.
ProveNewSkipped(o) ==
  /\ At(o, "rotate", "prove")
  /\ Go(o, "backup")
  /\ UNCHANGED <<transport, remote, files, pairs, established>>

\* A login with the staged pair; SSH withdraws a pair that does not log in, as far as
\* it can.
ProveNew(o) ==
  /\ At(o, "rotate", "prove")
  /\ \/ Works("newKey", "newPub") /\ Go(o, "backup") /\ UNCHANGED <<remote, files>>
     \/ /\ transport = "ssh" /\ Outcome(remote \ {op[o].new})
        /\ GiveUp(o) /\ files' = Removed(Staged)
     \/ transport = "winrm" /\ Go(o, "reinstall") /\ UNCHANGED <<remote, files>>
  /\ UNCHANGED <<transport, pairs, established>>

\* A copy that fails ends the rotation; what was copied stays.
BackUp(o) ==
  /\ At(o, "rotate", "backup")
  /\ \/ /\ Go(o, "promoteKey")
        /\ files' = IF transport = "winrm" THEN files
                    ELSE [files EXCEPT !["oldKey"] = files["key"], !["oldPub"] = files["pub"]]
     \/ /\ transport = "ssh" /\ GiveUp(o)
        /\ \E kept \in {NoPair, files["key"]} : files' = [Removed(Staged) EXCEPT !["oldKey"] = kept]
  /\ UNCHANGED <<transport, remote, pairs, established>>

\* One file after the other.
Promote(o, half, from, pc) ==
  /\ Exists(from)
  /\ files' = [files EXCEPT ![half] = files[from], ![from] = NoPair]
  /\ Go(o, pc)
  /\ UNCHANGED <<transport, remote, pairs, established>>

PromoteKey(o) == At(o, "rotate", "promoteKey") /\ Promote(o, "key", "newKey", "promotePub")
PromotePub(o) == At(o, "rotate", "promotePub") /\ Promote(o, "pub", "newPub", "clean")

\* An error while promoting puts the old halves back.
Demote(o) ==
  LET restored == [Removed(Staged) EXCEPT
        !["key"] = IF Exists("oldKey") THEN files["oldKey"] ELSE @,
        !["pub"] = IF Exists("oldPub") THEN files["oldPub"] ELSE @]
  IN  /\ At(o, "rotate", "promoteKey") \/ At(o, "rotate", "promotePub")
      /\ GiveUp(o)
      /\ \/ /\ transport = "ssh" /\ Outcome(remote \ {op[o].new})
            /\ files' = [restored EXCEPT !["oldKey"] = NoPair, !["oldPub"] = NoPair]
         \/ /\ transport = "winrm" /\ remote' = remote \union {op[o].old}
            /\ files' = [restored EXCEPT !["oldKey"] = NoPair, !["oldPub"] = NoPair]
         \/ /\ transport = "winrm" /\ Outcome(remote \union {op[o].old})
            /\ files' = restored
      /\ UNCHANGED <<transport, pairs, established>>

\* WinRM: an installation that failed is followed by one of the old certificate.
Reinstall(o) ==
  /\ At(o, "rotate", "reinstall")
  /\ GiveUp(o)
  /\ \/ remote' = remote \union {op[o].old} /\ files' = Removed(Staged \union Backup)
     \/ Outcome(remote \union {op[o].old}) /\ files' = Removed(Staged)
  /\ UNCHANGED <<transport, pairs, established>>

\* A variant: the backup goes before the answer to the last command is read.
CleanUnread(o) ==
  /\ At(o, "rotate", "clean")
  /\ Outcome(remote \ {op[o].old})
  /\ files' = Removed(Backup) /\ Go(o, "done")
  /\ UNCHANGED <<transport, pairs, established>>

\* The old pair is withdrawn over a session of the new one.
Clean(o) ==
  /\ At(o, "rotate", "clean")
  /\ \/ /\ Works("key", "pub") /\ remote' = remote \ {op[o].old}
        /\ files' = Removed(Backup) /\ Go(o, "done")
     \/ /\ IF Works("key", "pub") THEN Outcome(remote \ {op[o].old}) ELSE UNCHANGED remote
        /\ GiveUp(o) /\ UNCHANGED files
  /\ UNCHANGED <<transport, pairs, established>>

(***************************************************************************)
(* Revocation: revoke_key and _delete_key_files, revoke_cert.              *)
(***************************************************************************)
StartRevoke(o) ==
  /\ op[o].pc \in {"idle", "done", "failed"}
  /\ Exists("key") /\ Exists("pub")
  /\ Begun(o, "revoke", files["pub"])
  /\ UNCHANGED <<transport, remote, files, pairs, established>>

Revoke(o) ==
  /\ At(o, "revoke", "start")
  /\ IF ~Session(o) THEN GiveUp(o) /\ UNCHANGED <<remote, established>>
     ELSE /\ established' = FALSE
          /\ \/ remote' = remote \ {op[o].old} /\ Go(o, "delete")
             \/ Outcome(remote \ {op[o].old}) /\ GiveUp(o)
  /\ UNCHANGED <<transport, files, pairs>>

DeleteFiles(o) ==
  /\ At(o, "revoke", "delete")
  /\ files' = Removed({"key", "pub"})
  /\ Go(o, "done")
  /\ UNCHANGED <<transport, remote, pairs, established>>

ProcessDies ==
  /\ \E o \in Operators : op[o].pc \notin {"idle", "done", "failed"}
  /\ op' = [o \in Operators |-> Ready]
  /\ UNCHANGED <<transport, remote, files, pairs, established>>

\* Form starts without the credential or with one that an earlier run has set up.
CredentialInit ==
  /\ transport \in Transports
  /\ established \in BOOLEAN
  /\ pairs = IF established THEN 1 ELSE 0
  /\ remote = IF established THEN {1} ELSE {}
  /\ files = [n \in Names |-> IF established /\ n \in {"key", "pub"} THEN 1 ELSE NoPair]
  /\ op = [o \in Operators |-> Ready]

CredentialNext ==
  \/ \E o \in Operators :
       \/ StartEnsure(o) \/ ProbeEnsure(o) \/ InstallEnsure(o) \/ VerifyEnsure(o)
       \/ StartRotate(o) \/ InstallNew(o) \/ ProveNew(o) \/ BackUp(o)
       \/ PromoteKey(o) \/ PromotePub(o) \/ Demote(o) \/ Reinstall(o) \/ Clean(o)
       \/ StartRevoke(o) \/ Revoke(o) \/ DeleteFiles(o)
  \/ ProcessDies

CredentialSpec == CredentialInit /\ [][CredentialNext]_credVars

(***************************************************************************)
(* Properties.                                                             *)
(***************************************************************************)
\* Once a credential works, no failed, ambiguous or interrupted rotation locks Form
\* out: the managed SSH key stays accepted; of a WinRM pair that is half promoted the
\* backup is (rotate_key, rotate_cert).
NeverLockedOut ==
  established => Works("key", "pub") \/ (transport = "winrm" /\ Works("oldKey", "oldPub"))

\* While rotations are all that is under way, the managed SSH key keeps working
\* (rotate_key).
RotationKeepsAccess ==
  [][/\ transport = "ssh" /\ established /\ Works("key", "pub")
     /\ \A o \in Operators : op[o].pc \in {"idle", "done", "failed"} \/ op[o].kind = "rotate"
     => Works("key", "pub")']_credVars

\* A rotation that reports success has left one pair: both halves are the new one,
\* the target accepts it and no longer the old one, and no copy of the old is kept
\* (rotate_key, rotate_cert).
RotationIsClean ==
  \A o \in Operators : At(o, "rotate", "done") =>
    /\ files["key"] = op[o].new /\ files["pub"] = op[o].new /\ op[o].new \in remote
    /\ op[o].old \notin remote /\ ~Exists("oldKey") /\ ~Exists("oldPub")
=============================================================================
