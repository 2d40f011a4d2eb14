------------------------ MODULE AgentIdentityProofs -------------------------
(***************************************************************************)
(* Theorems about AgentIdentity, for every set of targets, issuers and     *)
(* keys, every validity and overlap, and clock readings of any age.        *)
(***************************************************************************)
EXTENDS AgentIdentity, TLAPS

(* What is always true of one identity, of its generations and of the      *)
(* private keys given for them.                                            *)
Lineage(id, cs, gv, now) ==
  /\ id.state = "absent" => id = NoIdentity
  /\ \A g \in Generations : cs[g].state = "absent" => cs[g] = NoCert
  /\ id.state = "revoked" => \A g \in Generations : cs[g].state \in {"absent", "revoked"}
  /\ \A g, h \in Generations :
       /\ cs[g].state = "staged" /\ cs[h].state /= "absent" => h <= g
       /\ cs[g].state = "active" /\ cs[h].state = "retired" => h < g
       /\ cs[g].state = "active" /\ cs[h].state = "active" => g = h
       /\ cs[g].state = "retired" /\ cs[h].state = "retired"
            /\ cs[g].overlap > now /\ cs[h].overlap > now => g = h
       /\ cs[g].key /= NoKey /\ cs[g].key = cs[h].key => g = h
  /\ \A g \in Generations : gv[g] \subseteq {cs[g].leaf}

(* The inductive invariant.                                                *)
IdentityInv ==
  /\ IdentityTypeOK
  /\ \A t \in Targets : Lineage(identity[t], cert[t], given[t], clock)

(* A reading of the clock is a time that has passed.                       *)
LEMMA ReadingsPast ==
  ASSUME clock \in Nat, NEW r \in Readings
  PROVE  r \in Nat /\ r <= clock
BY DEF Readings

(* The registry is empty at first.                                         *)
LEMMA IdentityInitInv == IdentityInit => IdentityInv
<1> SUFFICES ASSUME IdentityInit PROVE IdentityInv
  OBVIOUS
<1>1. NoIdentity \in Identity /\ NoCert \in Cert
  BY DEF NoIdentity, NoCert, Identity, Cert, Times, Null
<1>2. IdentityTypeOK
  BY <1>1, IdentityBounds DEF IdentityInit, IdentityTypeOK, Generations, NoIdentity, NoCert, Idle
<1>3. ASSUME NEW t \in Targets
      PROVE  Lineage(identity[t], cert[t], given[t], clock)
  BY <1>3 DEF IdentityInit, Lineage, NoIdentity, NoCert
<1> QED
  BY <1>2, <1>3 DEF IdentityInv

(* What stage_certificate inserts.                                         *)
LEMMA StagedCertRow ==
  ASSUME NEW i \in Issuers, issuing[i] \in Issue
  PROVE  StagedCert(i) \in Cert
BY DEF StagedCert, Issue, Cert, Times, Null

(* Revocation makes a row of a row.                                        *)
LEMMA RevokedCertRow ==
  ASSUME NEW c \in Cert
  PROVE  /\ RevokedCert(c) \in Cert
         /\ RevokedCert(c).leaf = c.leaf
         /\ RevokedCert(c).key = c.key
         /\ c.state = "absent" => RevokedCert(c) = c
         /\ c.state /= "absent" => RevokedCert(c).state = "revoked"
BY DEF RevokedCert, Cert, Times, Null

(* What activate makes of the other generations.                           *)
LEMMA RotatedCertRow ==
  ASSUME NEW c \in Cert, NEW r \in Nat
  PROVE  /\ RotatedCert(c, r) \in Cert
         /\ RotatedCert(c, r).leaf = c.leaf
         /\ RotatedCert(c, r).key = c.key
         /\ c.state \in {"absent", "staged", "revoked"} => RotatedCert(c, r) = c
         /\ c.state \in {"active", "retired"} => RotatedCert(c, r).state = "retired"
         /\ c.state = "retired" => RotatedCert(c, r).overlap <= r
<1>1. CASE c.state = "active"
  <2>1. Smaller(c.notAfter, r + Overlap) \in Times
    BY IdentityBounds DEF Smaller, Cert, Times, Null
  <2>2. RotatedCert(c, r) = [c EXCEPT !.state = "retired",
                                      !.overlap = Smaller(c.notAfter, r + Overlap)]
    BY <1>1 DEF RotatedCert
  <2> QED
    BY <1>1, <2>1, <2>2 DEF Cert
<1>2. CASE c.state = "retired"
  <2>1. CASE c.overlap > r
    <3>1. RotatedCert(c, r) = [c EXCEPT !.overlap = r]
      BY <1>2, <2>1 DEF RotatedCert
    <3> QED
      BY <1>2, <3>1 DEF Cert, Times
  <2>2. CASE ~ (c.overlap > r)
    <3>1. RotatedCert(c, r) = c
      BY <1>2, <2>2 DEF RotatedCert
    <3> QED
      BY <1>2, <2>2, <3>1 DEF Cert, Times, Null
  <2> QED
    BY <2>1, <2>2
<1>3. CASE c.state \in {"absent", "staged", "revoked"}
  BY <1>3 DEF RotatedCert
<1> QED
  BY <1>1, <1>2, <1>3 DEF Cert

(* The rows of the other targets are as they were.                         *)
LEMMA OneTarget ==
  ASSUME IdentityInv, IdentityTypeOK', NEW t \in Targets,
         \A u \in Targets \ {t} : /\ identity'[u] = identity[u]
                                  /\ cert'[u] = cert[u]
                                  /\ given'[u] = given[u],
         clock' = clock,
         Lineage(identity[t], cert[t], given[t], clock)'
  PROVE  IdentityInv'
BY DEF IdentityInv

(* A new binding has no generations.                                       *)
LEMMA GetOrCreateInv ==
  ASSUME IdentityInv, NEW t \in Targets, NEW h \in Hosts, NEW sc \in ScopeSets,
         GetOrCreate(t, h, sc)
  PROVE  IdentityInv'
<1> DEFINE new == [state |-> "active", host |-> h, scopes |-> sc, generation |-> 0]
<1>1. new \in Identity
  BY DEF Identity
<1>2. /\ identity' = [identity EXCEPT ![t] = new]
      /\ UNCHANGED <<cert, given, issuing, clock>>
      /\ identity[t] = NoIdentity
  BY DEF GetOrCreate, Exists, IdentityInv, Lineage
<1>3. IdentityTypeOK'
  BY <1>1, <1>2 DEF IdentityInv, IdentityTypeOK, NoIdentity
<1>4. Lineage(identity[t], cert[t], given[t], clock)'
  <2>1. identity'[t] = new
    BY <1>2 DEF IdentityInv, IdentityTypeOK
  <2> QED
    BY <1>2, <2>1 DEF IdentityInv, Lineage
<1> QED
  BY <1>2, <1>3, <1>4, OneTarget DEF IdentityInv, IdentityTypeOK

(* Beginning or ending an issue without staging leaves the registry alone. *)
LEMMA IssuingInv ==
  ASSUME IdentityInv, UNCHANGED <<identity, cert, given, clock>>,
         issuing' \in [Issuers -> Issue \cup {Idle}]
  PROVE  IdentityInv'
BY DEF IdentityInv, IdentityTypeOK

(* What an issuer has read and generated is well formed.                   *)
LEMMA BeginIssueInv ==
  ASSUME IdentityInv, NEW i \in Issuers, NEW t \in Targets,
         NEW k \in DeployKeys \cup {NoKey}, NEW r \in Readings, BeginIssue(i, t, k, r)
  PROVE  IdentityInv'
<1>1. r \in Nat
  BY ReadingsPast DEF IdentityInv, IdentityTypeOK
<1>2. [target |-> t, generation |-> identity[t].generation + 1, key |-> k,
       notAfter |-> r + Validity] \in Issue
  BY <1>1, IdentityBounds DEF Issue, IdentityInv, IdentityTypeOK, Identity
<1> QED
  BY <1>2, IssuingInv DEF BeginIssue, IdentityInv, IdentityTypeOK

(* A staged generation is newer than all others, the only staged one, and  *)
(* the only one that carries its key.                                      *)
LEMMA StageCertificateInv ==
  ASSUME IdentityInv, NEW i \in Issuers, StageCertificate(i)
  PROVE  IdentityInv'
<1>0. issuing[i] \in Issue /\ issuing[i].target \in Targets
      /\ issuing[i].generation \in Generations
  BY DEF StageCertificate, IdentityInv, IdentityTypeOK, Issue
<1> PICK t \in Targets, g \in Generations :
      t = issuing[i].target /\ g = issuing[i].generation
  BY <1>0
<1>1. issuing[i] \in Issue /\ t \in Targets /\ g \in Generations
  BY <1>0
<1>2. /\ cert' = [cert EXCEPT ![t][g] = StagedCert(i)]
      /\ identity' = [identity EXCEPT ![t].generation = g]
      /\ given' = [given EXCEPT ![t][g] = @ \cup {i}]
      /\ issuing' = [issuing EXCEPT ![i] = Idle]
      /\ clock' = clock
      /\ Stageable(i)
  BY DEF StageCertificate
<1>3. /\ identity[t].state = "active"
      /\ g = identity[t].generation + 1
      /\ \A h \in Generations : cert[t][h].state /= "staged"
      /\ issuing[i].key /= NoKey => \A h \in Generations : cert[t][h].key /= issuing[i].key
  BY <1>2 DEF Stageable, Reserved
<1>4. StagedCert(i) \in Cert
  BY <1>1, StagedCertRow
<1>5. /\ identity[t] \in Identity /\ identity[t].generation \in Nat /\ g \in Nat
      /\ cert[t][g] = NoCert /\ given[t][g] = {}
  <2>1. identity[t] \in Identity /\ identity[t].generation \in Nat /\ g \in Nat
    BY <1>1 DEF IdentityInv, IdentityTypeOK, Identity, Generations
  <2>2. cert[t][g].state = "absent"
    BY <1>1, <1>3, <2>1 DEF IdentityInv, IdentityTypeOK
  <2>3. cert[t][g] = NoCert
    BY <1>1, <2>2 DEF IdentityInv, Lineage
  <2>4. given[t][g] \subseteq {NoIssuer}
    BY <1>1, <2>3 DEF IdentityInv, Lineage, NoCert
  <2>5. given[t][g] \subseteq Issuers
    BY <1>1 DEF IdentityInv, IdentityTypeOK
  <2> QED
    BY <2>1, <2>3, <2>4, <2>5, NullsAssumption
<1>6. /\ \A h \in Generations : cert'[t][h] = IF h = g THEN StagedCert(i) ELSE cert[t][h]
      /\ \A h \in Generations : given'[t][h] = IF h = g THEN {i} ELSE given[t][h]
      /\ identity'[t] = [identity[t] EXCEPT !.generation = g]
  BY <1>1, <1>2, <1>5 DEF IdentityInv, IdentityTypeOK
<1>7. \A h \in Generations : cert[t][h].state /= "absent" => h < g
  BY <1>1, <1>3, <1>5 DEF IdentityInv, IdentityTypeOK, Generations
<1>8. IdentityTypeOK'
  <2>1. identity' \in [Targets -> Identity]
    BY <1>1, <1>2, <1>5 DEF IdentityInv, IdentityTypeOK, Identity
  <2>2. cert' \in [Targets -> [Generations -> Cert]]
    BY <1>1, <1>2, <1>4 DEF IdentityInv, IdentityTypeOK
  <2>3. ASSUME NEW u \in Targets, NEW h \in Generations
        PROVE  cert'[u][h].state = "absent" <=> h > identity'[u].generation
    <3>1. CASE u = t
      <4>1. identity'[u].generation = g
        BY <3>1, <1>6, <1>5 DEF Identity
      <4>2. CASE h = g
        BY <3>1, <4>1, <4>2, <1>6, <1>5 DEF StagedCert
      <4>3. CASE h /= g
        <5>1. cert'[u][h] = cert[t][h]
          BY <3>1, <4>3, <1>6
        <5>2. h \in Nat
          BY DEF Generations
        <5>3. cert[t][h].state = "absent" <=> h > identity[t].generation
          BY <1>1 DEF IdentityInv, IdentityTypeOK
        <5> QED
          BY <5>1, <5>2, <5>3, <4>1, <4>3, <1>3, <1>5
      <4> QED
        BY <4>2, <4>3
    <3>2. CASE u /= t
      BY <3>2, <1>1, <1>2 DEF IdentityInv, IdentityTypeOK
    <3> QED
      BY <3>1, <3>2
  <2>4. given' \in [Targets -> [Generations -> SUBSET Issuers]]
    BY <1>1, <1>2 DEF IdentityInv, IdentityTypeOK
  <2>5. issuing' \in [Issuers -> Issue \cup {Idle}]
    BY <1>2 DEF IdentityInv, IdentityTypeOK
  <2> QED
    BY <2>1, <2>2, <2>3, <2>4, <2>5, <1>2 DEF IdentityInv, IdentityTypeOK
<1>9. Lineage(identity[t], cert[t], given[t], clock)'
  <2>1. identity'[t].state = "active"
    BY <1>3, <1>5, <1>6 DEF Identity
  <2>2. \A h \in Generations : cert'[t][h].state = "absent" => cert'[t][h] = NoCert
    BY <1>6, <1>1 DEF StagedCert, IdentityInv, Lineage
  <2>3. ASSUME NEW a \in Generations, NEW b \in Generations
        PROVE  /\ cert'[t][a].state = "staged" /\ cert'[t][b].state /= "absent" => b <= a
               /\ cert'[t][a].state = "active" /\ cert'[t][b].state = "retired" => b < a
               /\ cert'[t][a].state = "active" /\ cert'[t][b].state = "active" => a = b
               /\ cert'[t][a].state = "retired" /\ cert'[t][b].state = "retired"
                    /\ cert'[t][a].overlap > clock' /\ cert'[t][b].overlap > clock' => a = b
               /\ cert'[t][a].key /= NoKey /\ cert'[t][a].key = cert'[t][b].key => a = b
    <3>1. a \in Nat /\ b \in Nat
      BY DEF Generations
    <3>2. StagedCert(i).state = "staged" /\ StagedCert(i).key = issuing[i].key
      BY DEF StagedCert
    <3>3. /\ cert[t][a].state = "active" /\ cert[t][b].state = "retired" => b < a
          /\ cert[t][a].state = "active" /\ cert[t][b].state = "active" => a = b
          /\ cert[t][a].state = "retired" /\ cert[t][b].state = "retired"
               /\ cert[t][a].overlap > clock /\ cert[t][b].overlap > clock => a = b
          /\ cert[t][a].key /= NoKey /\ cert[t][a].key = cert[t][b].key => a = b
      BY <1>1 DEF IdentityInv, Lineage
    <3>4. CASE a = g /\ b = g
      BY <3>1, <3>4
    <3>5. CASE a = g /\ b /= g
      <4>1. cert'[t][a] = StagedCert(i) /\ cert'[t][b] = cert[t][b]
        BY <3>5, <1>6
      <4>2. cert[t][b].state /= "absent" => b < g
        BY <1>7
      <4>3. issuing[i].key /= NoKey => cert[t][b].key /= issuing[i].key
        BY <1>3
      <4> QED
        BY <3>1, <3>2, <3>5, <4>1, <4>2, <4>3
    <3>6. CASE a /= g /\ b = g
      <4>1. cert'[t][a] = cert[t][a] /\ cert'[t][b] = StagedCert(i)
        BY <3>6, <1>6
      <4>2. cert[t][a].state /= "staged"
        BY <1>3
      <4>3. issuing[i].key /= NoKey => cert[t][a].key /= issuing[i].key
        BY <1>3
      <4> QED
        BY <3>1, <3>2, <3>6, <4>1, <4>2, <4>3
    <3>7. CASE a /= g /\ b /= g
      <4>1. cert'[t][a] = cert[t][a] /\ cert'[t][b] = cert[t][b] /\ clock' = clock
        BY <3>7, <1>2, <1>6
      <4>2. cert[t][a].state /= "staged"
        BY <1>3
      <4> QED
        BY <3>3, <4>1, <4>2
    <3> QED
      BY <3>4, <3>5, <3>6, <3>7
  <2>4. \A h \in Generations : given'[t][h] \subseteq {cert'[t][h].leaf}
    BY <1>6, <1>1 DEF StagedCert, IdentityInv, Lineage
  <2> QED
    BY <2>1, <2>2, <2>3, <2>4 DEF Lineage
<1> QED
  BY <1>1, <1>2, <1>8, <1>9, OneTarget DEF IdentityInv, IdentityTypeOK

(* A step that rewrites rows of one target, keeps which of them exist, and *)
(* keeps the counter of the identity.                                      *)
LEMMA RewriteType ==
  ASSUME IdentityInv, NEW t \in Targets, NEW cs \in [Generations -> Cert],
         cert' = [cert EXCEPT ![t] = cs],
         \A g \in Generations : cs[g].state = "absent" <=> cert[t][g].state = "absent",
         identity' \in [Targets -> Identity],
         \A u \in Targets : identity'[u].generation = identity[u].generation,
         UNCHANGED <<issuing, given, clock>>
  PROVE  IdentityTypeOK'
BY DEF IdentityInv, IdentityTypeOK

(* A step that only revokes: every row stays or becomes revoked, and no    *)
(* row gets a key.                                                         *)
LEMMA RevokingInv ==
  ASSUME IdentityInv, NEW t \in Targets, NEW cs \in [Generations -> Cert],
         cert' = [cert EXCEPT ![t] = cs],
         \A g \in Generations :
           /\ cs[g] = cert[t][g] \/ (cs[g].state = "revoked" /\ cert[t][g].state /= "absent")
           /\ cs[g].key \in {cert[t][g].key, NoKey}
           /\ cs[g].leaf = cert[t][g].leaf,
         identity' \in [Targets -> Identity],
         \A u \in Targets \ {t} : identity'[u] = identity[u],
         identity'[t].generation = identity[t].generation,
         \/ identity'[t] = identity[t]
         \/ /\ identity'[t].state = "revoked"
            /\ \A g \in Generations : cs[g].state \in {"absent", "revoked"},
         UNCHANGED <<issuing, given, clock>>
  PROVE  IdentityInv'
<1>1. \A g \in Generations : cs[g].state = "absent" <=> cert[t][g].state = "absent"
  OBVIOUS
<1>2. IdentityTypeOK'
  BY <1>1, RewriteType
<1>3. cert'[t] = cs
  BY DEF IdentityInv, IdentityTypeOK
<1>4. Lineage(identity[t], cert[t], given[t], clock)
  BY DEF IdentityInv
<1>5. Lineage(identity'[t], cs, given[t], clock)
  <2>1. identity'[t].state = "absent" => identity'[t] = NoIdentity
    BY <1>4 DEF Lineage
  <2>2. \A g \in Generations : cs[g].state = "absent" => cs[g] = NoCert
    BY <1>4 DEF Lineage
  <2>3. identity'[t].state = "revoked"
          => \A g \in Generations : cs[g].state \in {"absent", "revoked"}
    BY <1>4 DEF Lineage
  <2>4. \A g \in Generations : given[t][g] \subseteq {cs[g].leaf}
    BY <1>4 DEF Lineage
  <2>5. ASSUME NEW a \in Generations, NEW b \in Generations
        PROVE  /\ cs[a].state = "staged" /\ cs[b].state /= "absent" => b <= a
               /\ cs[a].state = "active" /\ cs[b].state = "retired" => b < a
               /\ cs[a].state = "active" /\ cs[b].state = "active" => a = b
               /\ cs[a].state = "retired" /\ cs[b].state = "retired"
                    /\ cs[a].overlap > clock /\ cs[b].overlap > clock => a = b
               /\ cs[a].key /= NoKey /\ cs[a].key = cs[b].key => a = b
    BY <1>4, <1>1 DEF Lineage
  <2> QED
    BY <2>1, <2>2, <2>3, <2>4, <2>5 DEF Lineage
<1> QED
  BY <1>2, <1>3, <1>5, OneTarget DEF IdentityInv, IdentityTypeOK

(* abort *)
LEMMA AbortInv ==
  ASSUME IdentityInv, NEW t \in Targets, NEW g \in Generations, Abort(t, g)
  PROVE  IdentityInv'
<1> DEFINE row == [cert[t][g] EXCEPT !.state = "revoked", !.overlap = Null, !.key = NoKey]
           cs == [cert[t] EXCEPT ![g] = row]
<1>1. cert[t] \in [Generations -> Cert] /\ identity \in [Targets -> Identity]
  BY DEF IdentityInv, IdentityTypeOK
<1>2. row \in Cert /\ row.state = "revoked" /\ row.key = NoKey /\ row.leaf = cert[t][g].leaf
  BY <1>1 DEF Cert, Times
<1> HIDE DEF row
<1>3. cs \in [Generations -> Cert]
  BY <1>1, <1>2
<1>4. cert' = [cert EXCEPT ![t] = cs] /\ UNCHANGED <<identity, issuing, given, clock>>
      /\ cert[t][g].state = "staged"
  BY DEF Abort, IdentityInv, IdentityTypeOK, row
<1>5. \A h \in Generations :
        /\ cs[h] = cert[t][h] \/ (cs[h].state = "revoked" /\ cert[t][h].state /= "absent")
        /\ cs[h].key \in {cert[t][h].key, NoKey}
        /\ cs[h].leaf = cert[t][h].leaf
  BY <1>1, <1>2, <1>4
<1> HIDE DEF cs
<1> QED
  BY <1>1, <1>3, <1>4, <1>5, RevokingInv

(* revoke of a generation *)
LEMMA RevokeGenerationInv ==
  ASSUME IdentityInv, NEW t \in Targets, NEW g \in Generations, RevokeGeneration(t, g)
  PROVE  IdentityInv'
<1> DEFINE cs == [cert[t] EXCEPT ![g] = RevokedCert(@)]
<1>1. cert[t] \in [Generations -> Cert] /\ identity \in [Targets -> Identity]
  BY DEF IdentityInv, IdentityTypeOK
<1>2. cs \in [Generations -> Cert]
  BY <1>1, RevokedCertRow
<1>3. cert' = [cert EXCEPT ![t] = cs] /\ UNCHANGED <<identity, issuing, given, clock>>
      /\ cert[t][g].state /= "absent"
  BY DEF RevokeGeneration, IdentityInv, IdentityTypeOK
<1>4. \A h \in Generations :
        /\ cs[h] = cert[t][h] \/ (cs[h].state = "revoked" /\ cert[t][h].state /= "absent")
        /\ cs[h].key \in {cert[t][h].key, NoKey}
        /\ cs[h].leaf = cert[t][h].leaf
  BY <1>1, <1>3, RevokedCertRow
<1> HIDE DEF cs
<1> QED
  BY <1>1, <1>2, <1>3, <1>4, RevokingInv

(* revoke of an identity *)
LEMMA RevokeIdentityInv ==
  ASSUME IdentityInv, NEW t \in Targets, RevokeIdentity(t)
  PROVE  IdentityInv'
<1> DEFINE cs == [g \in Generations |-> RevokedCert(cert[t][g])]
<1>1. cert[t] \in [Generations -> Cert] /\ identity \in [Targets -> Identity]
  BY DEF IdentityInv, IdentityTypeOK
<1>2. cs \in [Generations -> Cert]
  BY <1>1, RevokedCertRow
<1>3. cert' = [cert EXCEPT ![t] = cs] /\ UNCHANGED <<issuing, given, clock>>
      /\ identity' = [identity EXCEPT ![t].state = "revoked"]
  BY DEF RevokeIdentity
<1>4. \A h \in Generations :
        /\ cs[h] = cert[t][h] \/ (cs[h].state = "revoked" /\ cert[t][h].state /= "absent")
        /\ cs[h].key \in {cert[t][h].key, NoKey}
        /\ cs[h].leaf = cert[t][h].leaf
        /\ cs[h].state \in {"absent", "revoked"}
  BY <1>1, RevokedCertRow
<1>5. /\ identity' \in [Targets -> Identity]
      /\ identity'[t].state = "revoked"
      /\ identity'[t].generation = identity[t].generation
      /\ \A u \in Targets \ {t} : identity'[u] = identity[u]
  BY <1>1, <1>3 DEF Identity
<1> HIDE DEF cs
<1>6. \/ identity'[t] = identity[t]
      \/ /\ identity'[t].state = "revoked"
         /\ \A g \in Generations : cs[g].state \in {"absent", "revoked"}
  BY <1>4, <1>5
<1>7. cert' = [cert EXCEPT ![t] = cs] /\ UNCHANGED <<issuing, given, clock>>
  BY <1>3
<1>8. \A h \in Generations :
        /\ cs[h] = cert[t][h] \/ (cs[h].state = "revoked" /\ cert[t][h].state /= "absent")
        /\ cs[h].key \in {cert[t][h].key, NoKey}
        /\ cs[h].leaf = cert[t][h].leaf
  BY <1>4
<1> QED
  BY <1>2, <1>5, <1>6, <1>7, <1>8, RevokingInv

(* revoke_certificates *)
LEMMA RevokeCertificatesInv ==
  ASSUME IdentityInv, NEW t \in Targets, RevokeCertificates(t)
  PROVE  IdentityInv'
<1> DEFINE Gone(c) == [RevokedCert(c) EXCEPT !.key = NoKey]
           cs == [g \in Generations |->
                    IF cert[t][g].state \in {"absent", "revoked"} THEN cert[t][g]
                    ELSE Gone(cert[t][g])]
<1>1. cert[t] \in [Generations -> Cert] /\ identity \in [Targets -> Identity]
  BY DEF IdentityInv, IdentityTypeOK
<1>2. ASSUME NEW c \in Cert, c.state /= "absent"
      PROVE  /\ Gone(c) \in Cert /\ Gone(c).state = "revoked"
             /\ Gone(c).key = NoKey /\ Gone(c).leaf = c.leaf
  BY <1>2, RevokedCertRow DEF Cert
<1> HIDE DEF Gone
<1>3. cs \in [Generations -> Cert]
  BY <1>1, <1>2
<1>4. cert' = [cert EXCEPT ![t] = cs] /\ UNCHANGED <<identity, issuing, given, clock>>
  BY DEF RevokeCertificates, Gone
<1>5. \A h \in Generations :
        /\ cs[h] = cert[t][h] \/ (cs[h].state = "revoked" /\ cert[t][h].state /= "absent")
        /\ cs[h].key \in {cert[t][h].key, NoKey}
        /\ cs[h].leaf = cert[t][h].leaf
  BY <1>1, <1>2
<1> HIDE DEF cs
<1> QED
  BY <1>1, <1>3, <1>4, <1>5, RevokingInv

(* activate: the staged generation is the newest, the active one becomes   *)
(* the only retired one that is still accepted, and the overlap of those   *)
(* retired before has ended by the reading of the clock.                   *)
LEMMA ActivateInv ==
  ASSUME IdentityInv, NEW t \in Targets, NEW g \in Generations, NEW r \in Readings,
         Activate(t, g, r)
  PROVE  IdentityInv'
<1> DEFINE row == [cert[t][g] EXCEPT !.state = "active", !.overlap = Null]
           cs == [h \in Generations |-> IF h = g THEN row ELSE RotatedCert(cert[t][h], r)]
<1>1. /\ cert[t] \in [Generations -> Cert]
      /\ identity \in [Targets -> Identity]
      /\ r \in Nat /\ r <= clock /\ clock \in Nat
  BY ReadingsPast DEF IdentityInv, IdentityTypeOK
<1>2. /\ row \in Cert /\ row.state = "active"
      /\ row.key = cert[t][g].key /\ row.leaf = cert[t][g].leaf
  BY <1>1 DEF Cert, Times
<1> HIDE DEF row
<1>3. /\ cert' = [cert EXCEPT ![t] = cs]
      /\ UNCHANGED <<identity, issuing, given, clock>>
      /\ identity[t].state = "active"
      /\ cert[t][g].state = "staged"
  BY DEF Activate, Activatable, row
<1>4. ASSUME NEW h \in Generations
      PROVE  /\ cs[h] \in Cert
             /\ cs[h].leaf = cert[t][h].leaf
             /\ cs[h].key = cert[t][h].key
             /\ cs[h].state = "absent" <=> cert[t][h].state = "absent"
             /\ cs[h].state = "absent" => cs[h] = cert[t][h]
             /\ cs[h].state = "staged" => cert[t][h].state = "staged" /\ h /= g
             /\ cs[h].state = "active" => h = g
             /\ cs[h].state = "retired" => h /= g /\ cert[t][h].state \in {"active", "retired"}
             /\ cs[h].state = "retired" /\ cs[h].overlap > clock => cert[t][h].state = "active"
  <2>1. CASE h = g
    BY <2>1, <1>2, <1>3
  <2>2. CASE h /= g
    <3>1. cs[h] = RotatedCert(cert[t][h], r) /\ cert[t][h] \in Cert
      BY <2>2, <1>1
    <3> HIDE DEF cs
    <3>2. cs[h].overlap \in Times
      BY <3>1, <1>1, RotatedCertRow DEF Cert
    <3>3. cert[t][h].state \in {"absent", "staged", "active", "retired", "revoked"}
      BY <3>1 DEF Cert
    <3>4. cert[t][h].state = "retired" => ~ (cs[h].overlap > clock)
      <4>1. cert[t][h].state = "retired" => cs[h].overlap <= r
        BY <3>1, <1>1, RotatedCertRow
      <4>2. cs[h].overlap \in Int
        BY <3>2 DEF Times, Null
      <4> QED
        BY <4>1, <4>2, <1>1
    <3> QED
      BY <2>2, <3>1, <3>3, <3>4, <1>1, RotatedCertRow
  <2> QED
    BY <2>1, <2>2
<1>5. cs \in [Generations -> Cert]
  BY <1>4
<1> HIDE DEF cs
<1>6. IdentityTypeOK'
  BY <1>1, <1>3, <1>4, <1>5, RewriteType
<1>7. cert'[t] = cs
  BY <1>3 DEF IdentityInv, IdentityTypeOK
<1>8. Lineage(identity[t], cert[t], given[t], clock)
  BY DEF IdentityInv
<1>9. Lineage(identity[t], cs, given[t], clock)
  <2>1. \A h \in Generations : cs[h].state = "absent" => cs[h] = NoCert
    BY <1>4, <1>8 DEF Lineage
  <2>2. \A h \in Generations : given[t][h] \subseteq {cs[h].leaf}
    BY <1>4, <1>8 DEF Lineage
  <2>3. ASSUME NEW a \in Generations, NEW b \in Generations
        PROVE  /\ cs[a].state = "staged" /\ cs[b].state /= "absent" => b <= a
               /\ cs[a].state = "active" /\ cs[b].state = "retired" => b < a
               /\ cs[a].state = "active" /\ cs[b].state = "active" => a = b
               /\ cs[a].state = "retired" /\ cs[b].state = "retired"
                    /\ cs[a].overlap > clock /\ cs[b].overlap > clock => a = b
               /\ cs[a].key /= NoKey /\ cs[a].key = cs[b].key => a = b
    <3>1. a \in Nat /\ b \in Nat /\ g \in Nat
      BY DEF Generations
    <3>2. cs[a].state = "staged" /\ cs[b].state /= "absent" => b <= a
      BY <1>4, <1>8 DEF Lineage
    <3>3. cs[a].state = "active" /\ cs[b].state = "retired" => b < a
      <4> SUFFICES ASSUME cs[a].state = "active", cs[b].state = "retired" PROVE b < a
        OBVIOUS
      <4>1. a = g /\ b /= g /\ cert[t][b].state /= "absent"
        BY <1>4
      <4>2. b <= g
        BY <4>1, <1>3, <1>8 DEF Lineage
      <4> QED
        BY <4>1, <4>2, <3>1
    <3>4. cs[a].state = "active" /\ cs[b].state = "active" => a = b
      BY <1>4
    <3>5. cs[a].state = "retired" /\ cs[b].state = "retired"
            /\ cs[a].overlap > clock /\ cs[b].overlap > clock => a = b
      BY <1>4, <1>8 DEF Lineage
    <3>6. cs[a].key /= NoKey /\ cs[a].key = cs[b].key => a = b
      BY <1>4, <1>8 DEF Lineage
    <3> QED
      BY <3>2, <3>3, <3>4, <3>5, <3>6
  <2>4. /\ identity[t].state = "absent" => identity[t] = NoIdentity
        /\ identity[t].state /= "revoked"
    BY <1>3, <1>8 DEF Lineage
  <2> QED
    BY <2>1, <2>2, <2>3, <2>4 DEF Lineage
<1> QED
  BY <1>3, <1>6, <1>7, <1>9, OneTarget DEF IdentityInv, IdentityTypeOK

(* Time only ends overlaps.                                                *)
LEMMA TickInv == ASSUME IdentityInv, Tick PROVE IdentityInv'
<1>1. clock \in Nat /\ clock' = clock + 1 /\ UNCHANGED <<identity, cert, issuing, given>>
  BY DEF Tick, IdentityInv, IdentityTypeOK
<1>2. IdentityTypeOK'
  BY <1>1 DEF IdentityInv, IdentityTypeOK
<1>3. ASSUME NEW t \in Targets
      PROVE  Lineage(identity[t], cert[t], given[t], clock)'
  <2>1. \A g \in Generations : cert[t][g].overlap \in Int
    BY DEF IdentityInv, IdentityTypeOK, Cert, Times, Null
  <2>2. \A g \in Generations : cert[t][g].overlap > clock' => cert[t][g].overlap > clock
    BY <1>1, <2>1
  <2> QED
    BY <1>1, <2>2 DEF IdentityInv, Lineage
<1> QED
  BY <1>2, <1>3 DEF IdentityInv

(* Every step of the registry preserves the invariant.                     *)
LEMMA IdentityStepInv == IdentityInv /\ [IdentityNext]_idVars => IdentityInv'
<1> SUFFICES ASSUME IdentityInv, [IdentityNext]_idVars PROVE IdentityInv'
  OBVIOUS
<1>1. CASE UNCHANGED idVars
  BY <1>1 DEF idVars, IdentityInv, IdentityTypeOK, Lineage
<1>2. CASE Tick
  BY <1>2, TickInv
<1>3. ASSUME NEW i \in Issuers, IssueStep(i) PROVE IdentityInv'
  <2>1. CASE StageCertificate(i)
    BY <2>1, StageCertificateInv
  <2>2. CASE StageNothing(i)
    BY <2>2, IssuingInv DEF StageNothing, IdentityInv, IdentityTypeOK
  <2> QED
    BY <1>3, <2>1, <2>2, BeginIssueInv DEF IssueStep
<1>4. ASSUME NEW t \in Targets, OperatorStep(t) PROVE IdentityInv'
  BY <1>4, GetOrCreateInv, AbortInv, RevokeGenerationInv, ActivateInv, RevokeIdentityInv,
     RevokeCertificatesInv DEF OperatorStep
<1> QED
  BY <1>1, <1>2, <1>3, <1>4 DEF IdentityNext

(* The registry keeps every lineage: the invariant the rest follows from.  *)
THEOREM LineagesKept == IdentitySpec => []IdentityInv
BY IdentityInitInv, IdentityStepInv, PTL DEF IdentitySpec

(* The rows of the registry are well formed, and an identity counts the    *)
(* generations it has.                                                     *)
THEOREM IdentityTypeCorrect == IdentitySpec => []IdentityTypeOK
<1>1. IdentityInv => IdentityTypeOK
  BY DEF IdentityInv
<1> QED
  BY <1>1, LineagesKept, PTL

(* However fast and with however old readings generations are rotated, at  *)
(* most one active and one retired credential are accepted.                *)
THEOREM WindowHolds == IdentitySpec => []RotationWindow
<1>1. IdentityInv => RotationWindow
  BY DEF IdentityInv, Lineage, RotationWindow, Accepted
<1> QED
  BY <1>1, LineagesKept, PTL

(* No issuer that read an identity before its revocation can give it a     *)
(* credential afterwards.                                                  *)
THEOREM RevocationHolds == IdentitySpec => []RevokedIsDead
<1>1. IdentityInv => RevokedIsDead
  BY DEF IdentityInv, Lineage, RevokedIsDead
<1> QED
  BY <1>1, LineagesKept, PTL

(* No older generation comes back into service.                            *)
THEOREM AdvanceHolds == IdentitySpec => []GenerationsAdvance
<1>1. IdentityInv => GenerationsAdvance
  BY DEF IdentityInv, Lineage, GenerationsAdvance
<1> QED
  BY <1>1, LineagesKept, PTL

(* A private key is given with the leaf it belongs to, or not at all.      *)
THEOREM BundlesMatch == IdentitySpec => []BundleMatchesLeaf
<1>1. IdentityInv => BundleMatchesLeaf
  BY DEF IdentityInv, Lineage, BundleMatchesLeaf
<1> QED
  BY <1>1, LineagesKept, PTL

(* A step on one generation or a rotation keeps leaves and revocations.    *)
LEMMA KeepsGenerations ==
  ASSUME IdentityInv, [IdentityNext]_idVars, NEW t \in Targets, NEW g \in Generations
  PROVE  /\ cert[t][g].state /= "absent" => cert'[t][g].leaf = cert[t][g].leaf
         /\ cert[t][g].state = "revoked" => cert'[t][g].state = "revoked"
<1>0. cert \in [Targets -> [Generations -> Cert]] /\ cert[t][g] \in Cert
      /\ cert[t] \in [Generations -> Cert] /\ clock \in Nat
  BY DEF IdentityInv, IdentityTypeOK
<1>1. CASE cert' = cert
  BY <1>1
<1>2. ASSUME NEW i \in Issuers, StageCertificate(i)
      PROVE  cert'[t][g] = cert[t][g] \/ cert[t][g].state = "absent"
  <2>1. issuing[i] \in Issue /\ issuing[i].target \in Targets
        /\ issuing[i].generation \in Generations
    BY <1>2 DEF StageCertificate, IdentityInv, IdentityTypeOK, Issue
  <2>2. issuing[i].generation > identity[issuing[i].target].generation
    BY <1>2, <2>1 DEF StageCertificate, Stageable, IdentityInv, IdentityTypeOK, Identity
  <2>3. cert[issuing[i].target][issuing[i].generation].state = "absent"
    BY <2>1, <2>2 DEF IdentityInv, IdentityTypeOK
  <2>4. cert' = [cert EXCEPT ![issuing[i].target][issuing[i].generation] = StagedCert(i)]
    BY <1>2 DEF StageCertificate
  <2> QED
    BY <2>1, <2>3, <2>4, <1>0
<1>3. ASSUME NEW u \in Targets, NEW k \in Generations, NEW r \in Readings, Activate(u, k, r)
      PROVE  cert'[t][g].leaf = cert[t][g].leaf
             /\ (cert[t][g].state = "revoked" => cert'[t][g].state = "revoked")
  <2>1. r \in Nat
    BY <1>0, ReadingsPast
  <2>2. CASE u /= t
    BY <1>0, <1>3, <2>2 DEF Activate
  <2>3. CASE u = t
    <3>1. cert'[t][g] = IF g = k
                        THEN [cert[t][k] EXCEPT !.state = "active", !.overlap = Null]
                        ELSE RotatedCert(cert[t][g], r)
      BY <1>0, <1>3, <2>3 DEF Activate
    <3>2. CASE g = k
      <4>1. cert[t][g].state = "staged"
        BY <1>3, <2>3, <3>2 DEF Activate, Activatable
      <4>2. [cert[t][k] EXCEPT !.state = "active", !.overlap = Null].leaf = cert[t][g].leaf
        BY <1>0, <3>2 DEF Cert
      <4> QED
        BY <3>1, <3>2, <4>1, <4>2
    <3>3. CASE g /= k
      <4>1. cert'[t][g] = RotatedCert(cert[t][g], r)
        BY <3>1, <3>3
      <4> QED
        BY <4>1, <1>0, <2>1, RotatedCertRow
    <3> QED
      BY <3>2, <3>3
  <2> QED
    BY <2>2, <2>3
<1>4. ASSUME NEW u \in Targets, NEW k \in Generations, Abort(u, k)
      PROVE  cert'[t][g].leaf = cert[t][g].leaf
             /\ (cert[t][g].state = "revoked" => cert'[t][g].state = "revoked")
  BY <1>0, <1>4 DEF Abort, Cert
<1>5. ASSUME NEW u \in Targets, NEW k \in Generations, RevokeGeneration(u, k)
      PROVE  cert'[t][g].leaf = cert[t][g].leaf
             /\ (cert[t][g].state = "revoked" => cert'[t][g].state = "revoked")
  <2>1. cert'[t][g] \in {cert[t][g], RevokedCert(cert[t][g])}
    BY <1>0, <1>5 DEF RevokeGeneration
  <2> QED
    BY <1>0, <2>1, RevokedCertRow
<1>6. ASSUME NEW u \in Targets, RevokeIdentity(u)
      PROVE  cert'[t][g].leaf = cert[t][g].leaf
             /\ (cert[t][g].state = "revoked" => cert'[t][g].state = "revoked")
  <2>1. cert'[t][g] \in {cert[t][g], RevokedCert(cert[t][g])}
    BY <1>0, <1>6 DEF RevokeIdentity
  <2> QED
    BY <1>0, <2>1, RevokedCertRow
<1>7. ASSUME NEW u \in Targets, RevokeCertificates(u)
      PROVE  cert'[t][g].leaf = cert[t][g].leaf
             /\ (cert[t][g].state = "revoked" => cert'[t][g].state = "revoked")
  <2>1. \/ cert'[t][g] = cert[t][g]
        \/ /\ cert[t][g].state \notin {"absent", "revoked"}
           /\ cert'[t][g] = [RevokedCert(cert[t][g]) EXCEPT !.key = NoKey]
    BY <1>0, <1>7 DEF RevokeCertificates
  <2>2. [RevokedCert(cert[t][g]) EXCEPT !.key = NoKey].leaf = cert[t][g].leaf
    BY <1>0, RevokedCertRow DEF Cert
  <2> QED
    BY <2>1, <2>2
<1> QED
  BY <1>1, <1>2, <1>3, <1>4, <1>5, <1>6, <1>7
  DEF IdentityNext, IssueStep, OperatorStep, idVars, BeginIssue, StageNothing, GetOrCreate, Tick

(* No step gives a generation another leaf or brings a revoked one back.   *)
THEOREM GenerationsFinal == IdentitySpec => GenerationNeverReused
<1>1. IdentityInv /\ [IdentityNext]_idVars
        => [\A t \in Targets : \A g \in Generations :
              /\ cert[t][g].state /= "absent" => cert'[t][g].leaf = cert[t][g].leaf
              /\ cert[t][g].state = "revoked" => cert'[t][g].state = "revoked"]_idVars
  BY KeepsGenerations
<1> QED
  BY <1>1, LineagesKept, PTL DEF IdentitySpec, GenerationNeverReused
=============================================================================
