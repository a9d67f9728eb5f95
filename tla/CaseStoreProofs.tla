--------------------------- MODULE CaseStoreProofs ---------------------------
(***************************************************************************)
(* Proofs about CaseStore for any tenants, cases, claims, policies and     *)
(* corpora and any number of closes and sweeps.  The kernel appears in     *)
(* them only as the function adjudicate_raw: nothing is assumed of what it *)
(* answers.  The inductive invariant StoreInv adds to the checked          *)
(* invariants that no policy dict ever changes and that every record holds *)
(* what the kernel answered when its case was closed.                      *)
(***************************************************************************)
EXTENDS CaseStore, Basics

\* A sweep under way holds records by their place.
Sweeps ==
    [running : {TRUE}, policy : PolicyRefs, corpus : Corpora, position : Nat, snapshot : Seq(Nat)]

\* What TypeOK leaves open: lists are sequences, and a sweep has all its fields.
ShapeOK ==
    /\ records \in Seq(Range(records))
    /\ caseOrder \in Seq(CaseIds)
    /\ sweep = NoSweep \/ sweep \in Sweeps

\* Each record holds the kernel's answer to its claims under its policy.
SealedAsAdjudicated ==
    \A i \in Records :
        LET r == records[i]
            answer == adjudicate_raw(r.claims, PolicyTable[r.policy])
        IN  /\ answer # Failed
            /\ r.verdict = answer.verdict
            /\ r.submitted_claim_ids = answer.submitted_claim_ids
            /\ r.manifest.verdict_hash = answer.verdict_hash
            /\ r.manifest.severity = answer.verdict.severity
            /\ r.manifest.disposition = answer.verdict.disposition

DriftsAreOfRecords ==
    \A c \in DOMAIN reopened : reopened[c].record \in Records /\ reopened[c].corpus \in Corpora

\* A case leads to a record of that case, and a sweep goes through the index.
CasesAreTheirs == \A c \in DOMAIN cases : records[cases[c]].case_id = c

SnapshotIsIndex ==
    sweep.running => sweep.snapshot = [i \in DOMAIN caseOrder |-> cases[caseOrder[i]]]

StoreInv ==
    /\ TypeOK
    /\ ShapeOK
    /\ heap = PolicyTable
    /\ SealedAsAdjudicated
    /\ OneChainPerTenant
    /\ IndexIsHonest
    /\ DriftsAreOfRecords
    /\ DriftNamesItsClaims
    /\ CasesAreTheirs
    /\ SnapshotIsIndex
    /\ SweptCasesAreSettled

-----------------------------------------------------------------------------
(* The kernel's answers.                                                   *)

\* An answer that is not a failure has the hash of its own verdict, and the ids
\* of the claims in the order they were submitted (adjudicate_cli).
LEMMA AnswerIsOfItsVerdict ==
    ASSUME NEW claims, NEW policy, adjudicate_raw(claims, policy) # Failed
    PROVE  LET answer == adjudicate_raw(claims, policy)
           IN  /\ answer.verdict_hash = compute_verdict_hash(answer.verdict)
               /\ answer.submitted_claim_ids = [i \in DOMAIN claims |-> claims[i].id]
<1> DEFINE verdict == adjudicate(claims, policy, KernelVersion)
           answer == [verdict             |-> verdict,
                      verdict_hash        |-> compute_verdict_hash(verdict),
                      submitted_claim_ids |-> [i \in DOMAIN claims |-> claim_id(claims[i])]]
<1>1. adjudicate_raw(claims, policy) = answer
  BY DEF adjudicate_raw, adjudicate_cli
<1>2. QED
  <2> HIDE DEF verdict
  <2>1. answer.verdict = verdict /\ answer.verdict_hash = compute_verdict_hash(verdict)
    OBVIOUS
  <2>2. answer.submitted_claim_ids = [i \in DOMAIN claims |-> claims[i].id]
    BY DEF claim_id
  <2>3. QED
    BY <1>1, <2>1, <2>2

-----------------------------------------------------------------------------
(* close_case.                                                             *)

\* The records of a tenant, and of a case, in a list of records.
OfTenant(rs, t) == {i \in DOMAIN rs : rs[i].tenant_id = t}
OfCase(rs, c)   == {i \in DOMAIN rs : rs[i].case_id = c}

\* What a successful close_case adds: one record at the end of the list.
LEMMA CloseAppends ==
    ASSUME StoreInv,
           NEW t \in Tenants, NEW c \in CaseIds, NEW claims \in ClaimSets, NEW p \in PolicyRefs,
           close_case(t, c, claims, p)
    PROVE  /\ Len(records) \in Nat
           /\ Records = 1..Len(records)
           /\ records' \in Seq(Range(records'))
           /\ Len(records') = Len(records) + 1
           /\ Records' = 1..Len(records) + 1
           /\ \A i \in Records : records'[i] = records[i]
           /\ LET r == records'[Len(records) + 1]
                  answer == adjudicate_raw(claims, PolicyTable[p])
              IN  /\ r.tenant_id = t /\ r.case_id = c /\ r.claims = claims /\ r.policy = p
                  /\ r.verdict = answer.verdict
                  /\ r.submitted_claim_ids = answer.submitted_claim_ids
                  /\ r.manifest.verdict_hash = answer.verdict_hash
                  /\ r.manifest.severity = answer.verdict.severity
                  /\ r.manifest.disposition = answer.verdict.disposition
                  /\ r.manifest.prev_manifest_hash = chain_tip[t]
                  /\ answer # Failed
<1> DEFINE answer == adjudicate_raw(claims, PolicyTable[p])
           r == build_case_record(t, c, claims, p, answer)
<1>1. records' = Append(records, r) /\ answer # Failed
  BY DEF close_case, StoreInv
<1>2. records \in Seq(Range(records))
  BY DEF StoreInv, ShapeOK
<1>3. /\ r.tenant_id = t /\ r.case_id = c /\ r.claims = claims /\ r.policy = p
      /\ r.verdict = answer.verdict
      /\ r.submitted_claim_ids = answer.submitted_claim_ids
      /\ r.manifest.verdict_hash = answer.verdict_hash
      /\ r.manifest.severity = answer.verdict.severity
      /\ r.manifest.disposition = answer.verdict.disposition
      /\ r.manifest.prev_manifest_hash = chain_tip[t]
  <2> HIDE DEF answer
  <2> QED
    BY DEF build_case_record, prev
<1> HIDE DEF r
<1>4. QED
  BY <1>1, <1>2, <1>3, Appended DEF Records

\* The latest of a set of records and of one that comes after all of them.
LEMMA LatestIsNew ==
    ASSUME NEW n \in Nat, NEW S \in SUBSET (1..n)
    PROVE  Latest(S \cup {n + 1}) = n + 1
<1> DEFINE T == (S \cup {n + 1}) \cup {0}
<1>1. T \in SUBSET Int /\ n + 1 \in T /\ \A y \in T : n + 1 >= y
  OBVIOUS
<1> HIDE DEF T
<1>2. Max(T) = n + 1
  BY <1>1, GreatestIsMax
<1>3. QED
  BY <1>2 DEF T, Latest, NoHash

\* close_case extends the chain of its tenant and touches no other.
LEMMA CloseKeepsChains ==
    ASSUME StoreInv,
           NEW t \in Tenants, NEW c \in CaseIds, NEW claims \in ClaimSets, NEW p \in PolicyRefs,
           close_case(t, c, claims, p)
    PROVE  OneChainPerTenant'
<1> DEFINE n == Len(records)
<1>1. /\ n \in Nat /\ Records = 1..n /\ Records' = 1..n + 1
      /\ \A i \in Records : records'[i] = records[i]
      /\ records'[n + 1].tenant_id = t
      /\ records'[n + 1].manifest.prev_manifest_hash = chain_tip[t]
  BY CloseAppends
<1>2. /\ chain_tip \in [Tenants -> 0..n]
      /\ chain_tip' = [chain_tip EXCEPT ![t] = n + 1]
  BY DEF close_case, StoreInv, TypeOK
<1>3. ASSUME NEW u \in Tenants
      PROVE  /\ chain_tip[u] = Latest(OfTenant(records, u))
             /\ \A i \in OfTenant(records, u) :
                   records[i].manifest.prev_manifest_hash = Latest({j \in OfTenant(records, u) : j < i})
  BY DEF StoreInv, OneChainPerTenant, OfTenant, Records
<1>4. ASSUME NEW u \in Tenants
      PROVE  /\ chain_tip'[u] = Latest(OfTenant(records', u))
             /\ \A i \in OfTenant(records', u) :
                   records'[i].manifest.prev_manifest_hash = Latest({j \in OfTenant(records', u) : j < i})
  <2> DEFINE mine == OfTenant(records, u)
             mine1 == OfTenant(records', u)
  <2>1. mine \in SUBSET (1..n)
    BY <1>1 DEF OfTenant, Records
  <2>2. ASSUME NEW i \in mine
        PROVE  records'[i].manifest.prev_manifest_hash = Latest({j \in mine1 : j < i})
    <3>1. {j \in mine1 : j < i} = {j \in mine : j < i}
      BY <1>1, <2>1, <2>2 DEF OfTenant, Records
    <3>2. records'[i] = records[i]
      BY <1>1, <2>1, <2>2
    <3>3. QED
      BY <1>3, <3>1, <3>2
  <2>3. CASE u = t
    <3>1. mine1 = mine \cup {n + 1}
      BY <1>1, <2>3 DEF OfTenant, Records
    <3>2. Latest(mine1) = n + 1
      BY <1>1, <2>1, <3>1, LatestIsNew
    <3>3. {j \in mine1 : j < n + 1} = mine
      BY <1>1, <2>1, <3>1
    <3>4. records'[n + 1].manifest.prev_manifest_hash = Latest({j \in mine1 : j < n + 1})
      BY <1>1, <1>3, <2>3, <3>3
    <3>5. chain_tip'[u] = n + 1
      BY <1>2, <2>3
    <3> HIDE DEF mine, mine1, n
    <3>6. QED
      BY <2>2, <3>1, <3>2, <3>4, <3>5 DEF mine, mine1, n
  <2>4. CASE u # t
    <3>1. mine1 = mine
      BY <1>1, <2>4 DEF OfTenant, Records
    <3>2. chain_tip'[u] = chain_tip[u]
      BY <1>2, <2>4
    <3>3. QED
      BY <1>3, <2>2, <3>1, <3>2
  <2>5. QED
    BY <2>3, <2>4
<1>5. QED
  BY <1>4 DEF OneChainPerTenant, OfTenant, Records

\* close_case keeps the index: the case is listed where it first was, or last,
\* and leads to the new record.
LEMMA CloseKeepsIndex ==
    ASSUME StoreInv,
           NEW t \in Tenants, NEW c \in CaseIds, NEW claims \in ClaimSets, NEW p \in PolicyRefs,
           close_case(t, c, claims, p)
    PROVE  /\ IndexIsHonest'
           /\ caseOrder' \in Seq(CaseIds)
           /\ DOMAIN cases' = DOMAIN cases \cup {c}
<1> DEFINE n == Len(records)
<1>1. /\ n \in Nat /\ Records = 1..n /\ Records' = 1..n + 1
      /\ \A i \in Records : records'[i] = records[i]
      /\ records'[n + 1].case_id = c
  BY CloseAppends
<1>2. /\ cases' = Put(cases, c, n + 1)
      /\ caseOrder' = caseOrderAfter(c)
      /\ caseOrder \in Seq(CaseIds)
  BY DEF close_case, StoreInv, ShapeOK
<1>3. /\ Range(caseOrder) = DOMAIN cases
      /\ DOMAIN cases = {records[i].case_id : i \in Records}
      /\ \A m, k \in DOMAIN caseOrder : m # k => caseOrder[m] # caseOrder[k]
  BY DEF StoreInv, IndexIsHonest
<1>3b. \A m, k \in DOMAIN caseOrder : m < k =>
          Min(OfCase(records, caseOrder[m])) < Min(OfCase(records, caseOrder[k]))
  BY DEF StoreInv, IndexIsHonest, OfCase, Records
<1>3c. \A d \in DOMAIN cases : cases[d] = Latest(OfCase(records, d))
  BY DEF StoreInv, IndexIsHonest, OfCase, Records
<1>4. DOMAIN cases' = DOMAIN cases \cup {c}
  BY <1>2 DEF Put
<1>5. /\ caseOrder' \in Seq(CaseIds)
      /\ c \in DOMAIN cases => caseOrder' = caseOrder
      /\ c \notin DOMAIN cases =>
            /\ DOMAIN caseOrder' = 1..Len(caseOrder) + 1
            /\ \A m \in DOMAIN caseOrder : caseOrder'[m] = caseOrder[m]
            /\ caseOrder'[Len(caseOrder) + 1] = c
      /\ DOMAIN caseOrder = 1..Len(caseOrder) /\ Len(caseOrder) \in Nat
  BY <1>2 DEF caseOrderAfter
<1>6. Range(caseOrder') = DOMAIN cases'
  <2>1. CASE c \in DOMAIN cases
    BY <1>3, <1>4, <1>5, <2>1
  <2>2. CASE c \notin DOMAIN cases
    BY <1>3, <1>4, <1>5, <2>2 DEF Range
  <2>3. QED
    BY <2>1, <2>2
<1>7. DOMAIN cases' = {records'[i].case_id : i \in Records'}
  BY <1>1, <1>3, <1>4
<1>8. \A d : OfCase(records', d) = OfCase(records, d) \cup (IF d = c THEN {n + 1} ELSE {})
  BY <1>1 DEF OfCase, Records
<1>9. \A d : OfCase(records, d) \in SUBSET (1..n)
  BY <1>1 DEF OfCase, Records
<1>10. \A m, k \in DOMAIN caseOrder' : m # k => caseOrder'[m] # caseOrder'[k]
  <2>1. \A m \in DOMAIN caseOrder : caseOrder[m] \in DOMAIN cases
    BY <1>3 DEF Range
  <2>2. CASE c \in DOMAIN cases
    BY <1>3, <1>5, <2>2
  <2>3. CASE c \notin DOMAIN cases
    BY <1>3, <1>5, <2>1, <2>3
  <2>4. QED
    BY <2>2, <2>3
<1>11. \A d \in DOMAIN cases' : cases'[d] = Latest(OfCase(records', d))
  <2> SUFFICES ASSUME NEW d \in DOMAIN cases'
               PROVE  cases'[d] = Latest(OfCase(records', d))
    OBVIOUS
  <2>1. CASE d = c
    <3>1. Latest(OfCase(records, d) \cup {n + 1}) = n + 1
      BY <1>1, <1>9, LatestIsNew
    <3>2. QED
      BY <1>2, <1>8, <2>1, <3>1 DEF Put
  <2>2. CASE d # c
    <3>1. cases'[d] = cases[d] /\ d \in DOMAIN cases
      BY <1>2, <2>2 DEF Put
    <3>2. QED
      BY <1>8, <1>3c, <2>2, <3>1
  <2>3. QED
    BY <2>1, <2>2
<1>12. \A d \in DOMAIN cases : OfCase(records, d) # {} /\ Min(OfCase(records', d)) = Min(OfCase(records, d))
  <2> SUFFICES ASSUME NEW d \in DOMAIN cases
               PROVE  OfCase(records, d) # {} /\ Min(OfCase(records', d)) = Min(OfCase(records, d))
    OBVIOUS
  <2> DEFINE S == OfCase(records, d)
             S1 == OfCase(records', d)
  <2>1. S # {}
    BY <1>3 DEF OfCase, Records
  <2>2. S \in SUBSET Nat /\ S1 \in SUBSET Nat /\ S \subseteq S1 /\ \A y \in S1 \ S : y = n + 1
    BY <1>1, <1>8, <1>9
  <2> HIDE DEF S, S1
  <2>3. Min(S) \in S /\ \A y \in S : Min(S) <= y
    BY <2>1, <2>2, MinIsLeast
  <2>4. \A y \in S : y <= n
    BY <1>9 DEF S
  <2>5. PICK m \in S : m = Min(S)
    BY <2>3
  <2>6. \A y \in S1 : m <= y
    BY <1>1, <2>2, <2>3, <2>4, <2>5
  <2>7. Min(S1) = m
    BY <2>2, <2>5, <2>6, LeastIsMin
  <2>8. QED
    BY <2>1, <2>5, <2>7 DEF S, S1
<1>13. ASSUME NEW m \in DOMAIN caseOrder', NEW k \in DOMAIN caseOrder', m < k
       PROVE  Min(OfCase(records', caseOrder'[m])) < Min(OfCase(records', caseOrder'[k]))
  <2>1. CASE k \in DOMAIN caseOrder
    <3>1. m \in DOMAIN caseOrder /\ caseOrder'[m] = caseOrder[m] /\ caseOrder'[k] = caseOrder[k]
      BY <1>5, <1>13, <2>1
    <3>2. caseOrder[m] \in DOMAIN cases /\ caseOrder[k] \in DOMAIN cases
      BY <1>3, <2>1, <3>1 DEF Range
    <3>3. Min(OfCase(records, caseOrder[m])) < Min(OfCase(records, caseOrder[k]))
      BY <1>13, <1>3b, <2>1, <3>1
    <3>4. QED
      BY <1>12, <3>1, <3>2, <3>3
  <2>2. CASE k \notin DOMAIN caseOrder
    <3>1. c \notin DOMAIN cases /\ caseOrder'[k] = c
      BY <1>5, <2>2
    <3>2. m \in DOMAIN caseOrder /\ caseOrder'[m] = caseOrder[m]
      BY <1>5, <1>13, <2>2
    <3>3. caseOrder[m] \in DOMAIN cases
      BY <1>3, <3>2 DEF Range
    <3>4. OfCase(records, c) = {}
      BY <1>3, <3>1 DEF OfCase, Records
    <3>5. OfCase(records', c) = {n + 1}
      BY <1>8, <3>4
    <3>6. Min({n + 1}) = n + 1
      <4>1. {n + 1} \in SUBSET Nat /\ n + 1 \in {n + 1} /\ \A y \in {n + 1} : n + 1 <= y
        BY <1>1
      <4>2. QED
        BY <4>1, LeastIsMin
    <3> DEFINE S == OfCase(records, caseOrder[m])
    <3>7. S \in SUBSET Nat /\ S # {} /\ \A y \in S : y <= n
      BY <1>1, <1>9, <1>12, <3>3
    <3> HIDE DEF S
    <3>8. PICK y \in S : y = Min(S)
      BY <3>7, MinIsLeast
    <3>9. y < n + 1
      BY <1>1, <3>7, <3>8
    <3>10. QED
      BY <1>12, <3>1, <3>2, <3>3, <3>5, <3>6, <3>8, <3>9 DEF S
  <2>3. QED
    BY <2>1, <2>2
<1>14. IndexIsHonest'
  BY <1>6, <1>7, <1>10, <1>11, <1>13 DEF IndexIsHonest, OfCase, Records
<1>15. QED
  BY <1>4, <1>5, <1>14

-----------------------------------------------------------------------------
(* run_sweep.                                                              *)

\* The claims a corpus matches are those that assert one of its indicators, and
\* the entry found for such a claim is one for that very indicator.
LEMMA HitsAreIndicators ==
    ASSUME NEW claims, NEW corpus \in Corpora
    PROVE  /\ MatchedClaims(claims, corpus) =
                 {i \in DOMAIN claims : IndicatorsOf(claims[i], corpus) # {}}
           /\ \A i \in MatchedClaims(claims, corpus) :
                 EntryFor(claims[i], corpus) \in IndicatorsOf(claims[i], corpus)
<1> DEFINE entries == corpus.entries
<1>1. entries \in Seq(Range(entries)) /\ \A e \in Range(entries) : e.value # NoObject
  BY CaseStoreAssumption
<1>2. \A claim : \A e \in Range(entries) :
         matches(e, claim) <=> <<e.predicate, e.value>> = <<claim.predicate, claim.object>>
  BY <1>1 DEF matches
<1>3. MatchedClaims(claims, corpus) = {i \in DOMAIN claims : IndicatorsOf(claims[i], corpus) # {}}
  BY <1>2 DEF MatchedClaims, IndicatorsOf
<1>4. ASSUME NEW i \in MatchedClaims(claims, corpus)
      PROVE  EntryFor(claims[i], corpus) \in IndicatorsOf(claims[i], corpus)
  <2> DEFINE K == {k \in DOMAIN entries : matches(entries[k], claims[i])}
  <2>1. K \in SUBSET Nat /\ K # {}
    BY <1>1, <1>4 DEF MatchedClaims, Range
  <2>2. Min(K) \in K
    <3> HIDE DEF K
    <3> QED
      BY <2>1, MinIsLeast
  <2>3. entries[Min(K)] \in Range(entries) /\ matches(entries[Min(K)], claims[i])
    BY <2>2 DEF Range
  <2>4. EntryFor(claims[i], corpus) = entries[Min(K)]
    BY DEF EntryFor
  <2>5. QED
    BY <1>2, <2>3, <2>4 DEF IndicatorsOf
<1>5. QED
  BY <1>3, <1>4

\* The case an iteration looks at is a record that is still there.
LEMMA CaseNowIsRecord ==
    ASSUME StoreInv, InLoop
    PROVE  /\ sweep \in Sweeps
           /\ sweep.snapshot[sweep.position] \in Records
           /\ CaseNow.case_id \in DOMAIN cases
           /\ CaseNow.case_id \in CaseIds
           /\ CaseNow.claims \in ClaimSets
<1>1. sweep \in Sweeps
  BY DEF StoreInv, ShapeOK, InLoop, NoSweep
<1>2. sweep.position \in 1..Len(sweep.snapshot) /\ sweep.snapshot \in Seq(Nat)
  BY <1>1 DEF StoreInv, TypeOK, InLoop, Sweeps
<1>3. sweep.snapshot[sweep.position] \in Range(sweep.snapshot)
  BY <1>2 DEF Range
<1>4. sweep.snapshot[sweep.position] \in Records
  BY <1>3 DEF StoreInv, TypeOK, InLoop
<1>5. CaseNow.case_id \in {records[i].case_id : i \in Records}
  BY <1>4 DEF CaseNow
<1>6. DOMAIN cases = {records[i].case_id : i \in Records}
  BY DEF StoreInv, IndexIsHonest
<1>7. QED
  BY <1>1, <1>4, <1>5, <1>6 DEF CaseNow, StoreInv, TypeOK

\* What ReopenCase marks: the drift names a record of its case and all and only
\* the claims that assert an indicator.
LEMMA DriftIsNamed ==
    ASSUME StoreInv, InLoop, HitsNow # {}, ~SameOutcome(AnswerNow.verdict, CaseNow.manifest)
    PROVE  /\ Drift.record = sweep.snapshot[sweep.position]
           /\ Drift.corpus \in Corpora
           /\ NamesItsClaims(Drift, CaseNow.case_id, CaseNow)
<1> DEFINE r == CaseNow
           d == Drift
           at == sweep.snapshot[sweep.position]
           corpus == sweep.corpus
<1>1. sweep \in Sweeps /\ at \in Records /\ r = records[at]
  BY CaseNowIsRecord DEF CaseNow
<1>2. corpus \in Corpora
  BY <1>1 DEF Sweeps
<1>3. /\ d.tenant_id = r.tenant_id
      /\ d.record = at
      /\ d.new_severity = AnswerNow.verdict.severity
      /\ d.new_disposition = AnswerNow.verdict.disposition
      /\ d.old_verdict_hash = r.manifest.verdict_hash
      /\ d.corpus = corpus
      /\ d.responsible_claim_ids = [i \in HitsNow |-> r.submitted_claim_ids[i]]
      /\ DOMAIN d.policy_deltas = HitsNow
      /\ \A i \in HitsNow :
            /\ d.policy_deltas[i].predicate = EntryFor(r.claims[i], corpus).predicate
            /\ d.policy_deltas[i].new_weight = EntryFor(r.claims[i], corpus).weight
  BY DEF Drift
<1> HIDE DEF d
<1> DEFINE answer == adjudicate_raw(r.claims, PolicyTable[r.policy])
<1>4. /\ answer # Failed
      /\ r.verdict = answer.verdict
      /\ r.submitted_claim_ids = answer.submitted_claim_ids
      /\ r.manifest.verdict_hash = answer.verdict_hash
      /\ r.manifest.severity = answer.verdict.severity
      /\ r.manifest.disposition = answer.verdict.disposition
  BY <1>1 DEF StoreInv, SealedAsAdjudicated
<1>5. /\ answer.verdict_hash = compute_verdict_hash(answer.verdict)
      /\ answer.submitted_claim_ids = [i \in DOMAIN r.claims |-> r.claims[i].id]
  BY <1>4, AnswerIsOfItsVerdict
<1> HIDE DEF answer, r
<1>6. r.verdict.severity # d.new_severity \/ r.verdict.disposition # d.new_disposition
  BY <1>3, <1>4 DEF SameOutcome, r
<1>7. /\ HitsNow = {i \in DOMAIN r.claims : IndicatorsOf(r.claims[i], corpus) # {}}
      /\ \A i \in HitsNow : EntryFor(r.claims[i], corpus) \in IndicatorsOf(r.claims[i], corpus)
  BY <1>2, HitsAreIndicators DEF HitsNow, r
<1>8. \A i \in HitsNow : d.responsible_claim_ids[i] = r.claims[i].id
  BY <1>3, <1>4, <1>5, <1>7
<1>9. \A i \in HitsNow : \E e \in IndicatorsOf(r.claims[i], corpus) :
         d.policy_deltas[i].predicate = e.predicate /\ d.policy_deltas[i].new_weight = e.weight
  BY <1>3, <1>7
<1>10. DOMAIN d.responsible_claim_ids = HitsNow
  BY <1>3
<1>11. NamesItsClaims(d, CaseNow.case_id, r)
  <2>1. r.case_id = CaseNow.case_id
    BY DEF r
  <2>2. r.tenant_id = d.tenant_id /\ d.corpus = corpus
        /\ d.old_verdict_hash = compute_verdict_hash(r.verdict)
    BY <1>3, <1>4, <1>5
  <2>3. DOMAIN d.responsible_claim_ids # {}
    BY <1>2, <1>10
  <2>4. QED
    BY <1>6, <1>7, <1>8, <1>9, <1>10, <2>1, <2>2, <2>3 DEF NamesItsClaims
<1>12. QED
  BY <1>2, <1>3, <1>11 DEF r, d

-----------------------------------------------------------------------------
(* What a sweep must reopen.                                               *)

\* Severity and disposition depend only on what Scoring keeps of a policy and on
\* its thresholds (kernel lib.rs).
LEMMA ScoringDecides ==
    ASSUME NEW claims, NEW P, NEW Q, Scoring(P) = Scoring(Q), P.thresholds = Q.thresholds
    PROVE  LET v == adjudicate(claims, P, KernelVersion)
               w == adjudicate(claims, Q, KernelVersion)
           IN  v.severity = w.severity /\ v.disposition = w.disposition
<1> DEFINE usable == Usable(claims, Scoring(P))
           score  == total_score(usable, Scoring(P))
<1>1. usable = Usable(claims, Scoring(Q)) /\ score = total_score(usable, Scoring(Q))
  OBVIOUS
<1>2. classify(P, score) = classify(Q, score)
  <2> HIDE DEF score
  <2> QED
    BY DEF classify
<1>3. CASE NothingUsable(claims, usable)
  BY <1>1, <1>3 DEF adjudicate
<1>4. CASE ~NothingUsable(claims, usable)
  <2>1. /\ adjudicate(claims, P, KernelVersion).severity = classify(P, score)
        /\ adjudicate(claims, P, KernelVersion).disposition = disposition_for(classify(P, score))
    BY <1>4 DEF adjudicate
  <2>2. /\ adjudicate(claims, Q, KernelVersion).severity = classify(Q, score)
        /\ adjudicate(claims, Q, KernelVersion).disposition = disposition_for(classify(Q, score))
    BY <1>1, <1>4 DEF adjudicate
  <2>3. QED
    BY <1>2, <2>1, <2>2
<1>5. QED
  BY <1>3, <1>4

\* The entries a sweep finds are the unshadowed entries that the claims assert.
LEMMA CitedAreFound ==
    ASSUME NEW claims \in ClaimSets, NEW corpus \in Corpora
    PROVE  Cited(claims, corpus) = {EntryFor(claims[i], corpus) : i \in MatchedClaims(claims, corpus)}
<1> DEFINE entries == corpus.entries
           Same(e, claim) == <<e.predicate, e.value>> = <<claim.predicate, claim.object>>
           K(claim) == {k \in DOMAIN entries : matches(entries[k], claim)}
<1>1. entries \in Seq(Range(entries)) /\ \A e \in Range(entries) : e.value # NoObject
  BY CaseStoreAssumption
<1>2. DOMAIN entries \subseteq Nat \ {0} /\ \A k \in DOMAIN entries : 1..k - 1 \subseteq DOMAIN entries
  BY <1>1
<1>3. \A claim : \A k \in DOMAIN entries : matches(entries[k], claim) <=> Same(entries[k], claim)
  BY <1>1 DEF matches, Range
<1>4. ASSUME NEW i \in MatchedClaims(claims, corpus)
      PROVE  EntryFor(claims[i], corpus) \in Cited(claims, corpus)
  <2>1. i \in DOMAIN claims /\ claims[i] \in Range(claims)
    BY DEF MatchedClaims, Range
  <2>2. K(claims[i]) \in SUBSET Nat /\ K(claims[i]) # {}
    BY <1>1, <1>2 DEF MatchedClaims, Range
  <2>3. PICK k \in K(claims[i]) : k = Min(K(claims[i])) /\ \A j \in K(claims[i]) : k <= j
    <3> DEFINE S == K(claims[i])
    <3> HIDE DEF S
    <3>1. S \in SUBSET Nat /\ S # {}
      BY <2>2 DEF S
    <3>2. \E k \in S : k = Min(S) /\ \A j \in S : k <= j
      BY <3>1, MinIsLeast
    <3>3. QED
      BY <3>2 DEF S
  <2>4. EntryFor(claims[i], corpus) = entries[k]
    BY <2>3 DEF EntryFor
  <2>5. \A j \in 1..k - 1 : ~Same(entries[j], claims[i])
    <3> SUFFICES ASSUME NEW j \in 1..k - 1, Same(entries[j], claims[i]) PROVE FALSE
      OBVIOUS
    <3>1. k \in DOMAIN entries /\ k \in Nat /\ j \in DOMAIN entries
      BY <1>2, <2>3
    <3>2. j \in K(claims[i])
      BY <1>3, <3>1
    <3>3. k <= j /\ j < k /\ j \in Nat
      <4>1. k <= j
        BY <2>3, <3>2
      <4>2. QED
        BY <3>1, <4>1
    <3>4. QED
      BY <3>1, <3>3
  <2>6. Same(entries[k], claims[i])
    BY <1>3, <2>3
  <2>7. \A j \in 1..k - 1 : <<entries[j].predicate, entries[j].value>>
                              # <<entries[k].predicate, entries[k].value>>
    BY <2>5, <2>6
  <2>8. entries[k] \in FirstEntries(corpus)
    BY <2>3, <2>7 DEF FirstEntries
  <2>9. entries[k] \in IndicatorsOf(claims[i], corpus)
    BY <2>3, <2>6 DEF IndicatorsOf, Range
  <2>10. QED
    BY <2>1, <2>4, <2>8, <2>9 DEF Cited
<1>5. ASSUME NEW e \in Cited(claims, corpus)
      PROVE  \E i \in MatchedClaims(claims, corpus) : e = EntryFor(claims[i], corpus)
  <2>1. PICK claim \in Range(claims) : e \in IndicatorsOf(claim, corpus)
    BY DEF Cited
  <2>2. PICK i \in DOMAIN claims : claim = claims[i]
    BY DEF Range
  <2>3. PICK k \in DOMAIN entries :
           /\ e = entries[k]
           /\ \A j \in 1..k - 1 : <<entries[j].predicate, entries[j].value>>
                                    # <<entries[k].predicate, entries[k].value>>
    BY DEF Cited, FirstEntries
  <2>4. Same(entries[k], claims[i])
    BY <2>1, <2>2, <2>3 DEF IndicatorsOf
  <2>5. k \in K(claims[i]) /\ i \in MatchedClaims(claims, corpus)
    BY <1>3, <2>3, <2>4 DEF MatchedClaims, Range
  <2>6. \A j \in K(claims[i]) : k <= j
    <3> SUFFICES ASSUME NEW j \in K(claims[i]), j < k PROVE FALSE
      BY <1>2
    <3>1. j \in 1..k - 1 /\ Same(entries[j], claims[i])
      BY <1>2, <1>3
    <3>2. QED
      BY <2>3, <2>4, <3>1
  <2>7. Min(K(claims[i])) = k
    <3> DEFINE S == K(claims[i])
    <3>1. S \in SUBSET Nat /\ k \in S /\ \A j \in S : k <= j
      BY <1>2, <2>5, <2>6
    <3> HIDE DEF S
    <3>2. Min(S) = k
      BY <3>1, LeastIsMin
    <3>3. QED
      BY <3>2 DEF S
  <2>8. e = EntryFor(claims[i], corpus)
    BY <2>3, <2>7 DEF EntryFor
  <2>9. QED
    BY <2>5, <2>8
<1>6. QED
  BY <1>4, <1>5

\* Where build_augmented_policy does not raise, it prices every predicate as the
\* entries that the claims assert do.
LEMMA AugmentedReprices ==
    ASSUME NEW ref \in PolicyRefs, NEW claims \in ClaimSets, NEW corpus \in Corpora,
           ~CannotReprice(PolicyTable[ref], claims, corpus)
    PROVE  LET A == build_augmented_policy(PolicyTable[ref], claims, corpus)
               Q == RepricedBy(PolicyTable[ref], Cited(claims, corpus))
           IN  Scoring(A) = Scoring(Q) /\ A.thresholds = Q.thresholds
<1> DEFINE P == PolicyTable[ref]
           hits == MatchedClaims(claims, corpus)
           E(i) == EntryFor(claims[i], corpus)
           cited == Cited(claims, corpus)
           H(p) == {i \in hits : E(i).predicate = p}
           aw(p) == IF p \in {E(i).predicate : i \in hits}
                    THEN [tactic     |-> P.weights[p].tactic,
                          weight     |-> E(Max(H(p))).weight,
                          techniques |-> IF E(Max(H(p))).techniques = {} THEN P.weights[p].techniques
                                         ELSE E(Max(H(p))).techniques]
                    ELSE P.weights[p]
           qw(p) == IF \E e \in cited : e.predicate = p
                    THEN [P.weights[p] EXCEPT !.weight = (CHOOSE e \in cited : e.predicate = p).weight]
                    ELSE P.weights[p]
           A == build_augmented_policy(P, claims, corpus)
           Q == RepricedBy(P, cited)
<1>1. /\ DOMAIN P = {"version", "weights", "chain", "thresholds"}
      /\ \A p \in DOMAIN P.weights : DOMAIN P.weights[p] = {"tactic", "weight", "techniques"}
  BY CaseStoreAssumption DEF PolicyRefs, Range
<1>2. A = [P EXCEPT !.weights = [p \in DOMAIN P.weights |-> aw(p)]]
  BY DEF build_augmented_policy
<1>3. Q = [P EXCEPT !.weights = [p \in DOMAIN P.weights |-> qw(p)]]
  BY DEF RepricedBy
<1>4. \A i, j \in hits : E(i).predicate = E(j).predicate => E(i).weight = E(j).weight
  BY DEF CannotReprice
<1>5. cited = {E(i) : i \in hits}
  BY CitedAreFound
<1>6. claims \in Seq(Range(claims)) /\ hits \subseteq 1..Len(claims) /\ Len(claims) \in Nat
  BY CaseStoreAssumption DEF MatchedClaims
<1> HIDE DEF P, hits, E, cited, A, Q
<1>7. ASSUME NEW p \in DOMAIN P.weights
      PROVE  aw(p).tactic = qw(p).tactic /\ aw(p).weight = qw(p).weight
  <2>1. CASE \E i \in hits : E(i).predicate = p
    <3>1. Max(H(p)) \in H(p)
      <4>1. H(p) \in SUBSET (0..Len(claims)) /\ H(p) # {}
        BY <1>6, <2>1
      <4> HIDE DEF H
      <4>2. QED
        BY <1>6, <4>1, MaxIsGreatest
    <3>2. \E e \in cited : e.predicate = p
      BY <1>5, <2>1
    <3>3. PICK e \in cited : e.predicate = p /\ e = CHOOSE x \in cited : x.predicate = p
      BY <3>2
    <3>4. PICK j \in hits : e = E(j)
      BY <1>5, <3>3
    <3>5. E(Max(H(p))).weight = e.weight
      BY <1>4, <3>1, <3>3, <3>4
    <3>6. aw(p).tactic = P.weights[p].tactic /\ aw(p).weight = E(Max(H(p))).weight
      BY <2>1
    <3>7. qw(p).tactic = P.weights[p].tactic /\ qw(p).weight = e.weight
      BY <1>1, <3>2, <3>3
    <3>8. QED
      BY <3>5, <3>6, <3>7
  <2>2. CASE ~\E i \in hits : E(i).predicate = p
    BY <1>5, <2>2
  <2>3. QED
    BY <2>1, <2>2
<1>8. /\ A.weights = [p \in DOMAIN P.weights |-> aw(p)]
      /\ A.chain = P.chain /\ A.thresholds = P.thresholds
  BY <1>1, <1>2
<1>9. /\ Q.weights = [p \in DOMAIN P.weights |-> qw(p)]
      /\ Q.chain = P.chain /\ Q.thresholds = P.thresholds
  BY <1>1, <1>3
<1> HIDE DEF aw, qw
<1>10. Scoring(A) = Scoring(Q)
  <2> DEFINE price(w) == [tactic |-> w.tactic, weight |-> w.weight]
  <2>1. Scoring(A) = [weights |-> [p \in DOMAIN P.weights |-> price(aw(p))], chain |-> P.chain]
    BY <1>8 DEF Scoring
  <2>2. Scoring(Q) = [weights |-> [p \in DOMAIN P.weights |-> price(qw(p))], chain |-> P.chain]
    BY <1>9 DEF Scoring
  <2>3. \A p \in DOMAIN P.weights : price(aw(p)) = price(qw(p))
    BY <1>7
  <2> HIDE DEF price
  <2>4. QED
    BY <2>1, <2>2, <2>3
<1>11. QED
  BY <1>8, <1>9, <1>10 DEF A, Q, P, cited

\* An iteration that reaches its end settles its case, unless it raised.
LEMMA OutcomeIsReference ==
    ASSUME StoreInv, InLoop,
           ~CannotReprice(heap[sweep.policy], CaseNow.claims, sweep.corpus),
           AnswerNow # Failed
    PROVE  LET now == adjudicate(CaseNow.claims,
                                 RepricedBy(heap[sweep.policy], Cited(CaseNow.claims, sweep.corpus)),
                                 KernelVersion)
           IN  /\ now.severity = AnswerNow.verdict.severity
               /\ now.disposition = AnswerNow.verdict.disposition
               /\ CaseNow.verdict.severity = CaseNow.manifest.severity
               /\ CaseNow.verdict.disposition = CaseNow.manifest.disposition
<1> DEFINE claims == CaseNow.claims
           ref == sweep.policy
           corpus == sweep.corpus
<1>1. /\ sweep \in Sweeps /\ claims \in ClaimSets
      /\ sweep.snapshot[sweep.position] \in Records
  BY CaseNowIsRecord
<1>2. ref \in PolicyRefs /\ corpus \in Corpora
  BY <1>1 DEF Sweeps
<1>3. heap = PolicyTable
  BY DEF StoreInv
<1>4. AnswerNow.verdict = adjudicate(claims, PolicyNow, KernelVersion)
  <2> DEFINE v == adjudicate(claims, PolicyNow, KernelVersion)
  <2>1. AnswerNow = [verdict             |-> v,
                     verdict_hash        |-> compute_verdict_hash(v),
                     submitted_claim_ids |-> [i \in DOMAIN claims |-> claim_id(claims[i])]]
    BY DEF AnswerNow, adjudicate_raw, adjudicate_cli
  <2> HIDE DEF v
  <2>2. QED
    BY <2>1 DEF v
<1>5. PolicyNow = build_augmented_policy(PolicyTable[ref], claims, corpus)
  BY <1>3 DEF PolicyNow
<1>6. /\ CaseNow.verdict.severity = CaseNow.manifest.severity
      /\ CaseNow.verdict.disposition = CaseNow.manifest.disposition
  BY <1>1 DEF StoreInv, SealedAsAdjudicated, CaseNow
<1>7. /\ Scoring(PolicyNow) = Scoring(RepricedBy(PolicyTable[ref], Cited(claims, corpus)))
      /\ PolicyNow.thresholds = RepricedBy(PolicyTable[ref], Cited(claims, corpus)).thresholds
  BY <1>1, <1>2, <1>3, <1>5, AugmentedReprices
<1>8. QED
  BY <1>3, <1>4, <1>6, <1>7, ScoringDecides

-----------------------------------------------------------------------------
(* The invariant is inductive.                                             *)

\* It holds of the empty store the service starts with.
LEMMA InitStoreInv == Init => StoreInv
<1> SUFFICES ASSUME Init PROVE StoreInv
  OBVIOUS
<1>1. records = <<>> /\ Records = {} /\ Len(records) = 0
  BY DEF Init, Records
<1>2. ShapeOK
  BY <1>1 DEF Init, ShapeOK
<1>3. TypeOK
  BY <1>1, CaseStoreAssumption DEF Init, TypeOK, PolicyRefs, NoSweep, NoHash, Range
<1>4. OneChainPerTenant
  <2>1. Latest({}) = 0
    <3>1. {} \cup {0} = {0} /\ {0} \in SUBSET Int /\ 0 \in {0} /\ \A y \in {0} : 0 >= y
      OBVIOUS
    <3>2. Max({0}) = 0
      BY <3>1, GreatestIsMax
    <3>3. QED
      BY <3>1, <3>2 DEF Latest, NoHash
  <2>2. \A t \in Tenants : {i \in Records : records[i].tenant_id = t} = {}
    BY <1>1
  <2>3. QED
    BY <2>1, <2>2 DEF Init, OneChainPerTenant, NoHash
<1>5. IndexIsHonest
  BY <1>1 DEF Init, IndexIsHonest, Range
<1>6. heap = PolicyTable /\ DOMAIN reopened = {}
  BY DEF Init
<1>7. CasesAreTheirs /\ SnapshotIsIndex /\ SweptCasesAreSettled
  BY DEF Init, NoSweep, CasesAreTheirs, SnapshotIsIndex, SweptCasesAreSettled
<1>8. QED
  BY <1>1, <1>2, <1>3, <1>4, <1>5, <1>6, <1>7
     DEF StoreInv, SealedAsAdjudicated, DriftsAreOfRecords, DriftNamesItsClaims

\* A case is closed.
LEMMA CloseKeepsInv ==
    ASSUME StoreInv,
           NEW t \in Tenants, NEW c \in CaseIds, NEW claims \in ClaimSets, NEW p \in PolicyRefs,
           close_case(t, c, claims, p)
    PROVE  StoreInv'
<1> DEFINE n == Len(records)
           answer == adjudicate_raw(claims, PolicyTable[p])
<1>1. /\ n \in Nat /\ Records = 1..n
      /\ records' \in Seq(Range(records'))
      /\ Len(records') = n + 1 /\ Records' = 1..n + 1
      /\ \A i \in Records : records'[i] = records[i]
  BY CloseAppends
<1>2. LET r == records'[n + 1]
      IN  /\ r.tenant_id = t /\ r.case_id = c /\ r.claims = claims /\ r.policy = p
          /\ r.verdict = answer.verdict
          /\ r.submitted_claim_ids = answer.submitted_claim_ids
          /\ r.manifest.verdict_hash = answer.verdict_hash
          /\ r.manifest.severity = answer.verdict.severity
          /\ r.manifest.disposition = answer.verdict.disposition
          /\ r.manifest.prev_manifest_hash = chain_tip[t]
          /\ answer # Failed
  BY CloseAppends
<1>3. /\ UNCHANGED <<reopened, heap, sweep, sweeps>>
      /\ ~sweep.running
      /\ closes' = closes + 1 /\ closes < MaxCloses
      /\ cases' = Put(cases, c, n + 1)
      /\ chain_tip' = [chain_tip EXCEPT ![t] = n + 1]
  BY DEF close_case
<1>4. IndexIsHonest' /\ caseOrder' \in Seq(CaseIds) /\ DOMAIN cases' = DOMAIN cases \cup {c}
  BY CloseKeepsIndex
<1>5. TypeOK'
  <2>1. \A i \in Records' :
           /\ records'[i].tenant_id \in Tenants
           /\ records'[i].case_id \in CaseIds
           /\ records'[i].claims \in ClaimSets
           /\ records'[i].policy \in PolicyRefs
           /\ records'[i].manifest.prev_manifest_hash \in 0..Len(records')
    <3>1. \A i \in Records :
           /\ records[i].tenant_id \in Tenants
           /\ records[i].case_id \in CaseIds
           /\ records[i].claims \in ClaimSets
           /\ records[i].policy \in PolicyRefs
           /\ records[i].manifest.prev_manifest_hash \in 0..n
      BY DEF StoreInv, TypeOK
    <3>2. chain_tip[t] \in 0..n
      BY DEF StoreInv, TypeOK
    <3>3. QED
      BY <1>1, <1>2, <3>1, <3>2
  <2>2. DOMAIN cases' \subseteq CaseIds /\ Range(cases') \subseteq Records'
    <3>1. DOMAIN cases \subseteq CaseIds /\ \A d \in DOMAIN cases : cases[d] \in Records
      BY DEF StoreInv, TypeOK, Range
    <3>2. \A d \in DOMAIN cases' : cases'[d] \in Records'
      BY <1>1, <1>3, <3>1 DEF Put
    <3>3. QED
      BY <1>4, <3>1, <3>2 DEF Range
  <2>3. chain_tip' \in [Tenants -> 0..Len(records')]
    <3>1. chain_tip \in [Tenants -> 0..n]
      BY DEF StoreInv, TypeOK
    <3>2. QED
      BY <1>1, <1>3, <3>1
  <2>4. DOMAIN reopened' \subseteq DOMAIN cases'
    BY <1>3, <1>4 DEF StoreInv, TypeOK
  <2>5. closes' \in 0..MaxCloses /\ sweeps' \in 0..MaxSweeps /\ DOMAIN heap' = PolicyRefs /\ ~sweep'.running
    BY <1>3, CaseStoreAssumption DEF StoreInv, TypeOK
  <2>6. QED
    BY <2>1, <2>2, <2>3, <2>4, <2>5 DEF TypeOK
<1>6. ShapeOK'
  BY <1>1, <1>3, <1>4 DEF StoreInv, ShapeOK
<1>7. SealedAsAdjudicated'
  <2> SUFFICES ASSUME NEW i \in Records'
               PROVE  LET r == records'[i]
                          a == adjudicate_raw(r.claims, PolicyTable[r.policy])
                      IN  /\ a # Failed
                          /\ r.verdict = a.verdict
                          /\ r.submitted_claim_ids = a.submitted_claim_ids
                          /\ r.manifest.verdict_hash = a.verdict_hash
                          /\ r.manifest.severity = a.verdict.severity
                          /\ r.manifest.disposition = a.verdict.disposition
    BY DEF SealedAsAdjudicated, adjudicate_raw, Records
  <2>1. CASE i \in Records
    BY <1>1, <2>1 DEF StoreInv, SealedAsAdjudicated
  <2>2. CASE i = n + 1
    BY <1>2, <2>2
  <2>3. QED
    BY <1>1, <2>1, <2>2
<1>8. OneChainPerTenant'
  BY CloseKeepsChains
<1>9. DriftsAreOfRecords'
  BY <1>1, <1>3 DEF StoreInv, DriftsAreOfRecords
<1>10. DriftNamesItsClaims'
  <2>1. \A e \in DOMAIN reopened : records'[reopened[e].record] = records[reopened[e].record]
    BY <1>1 DEF StoreInv, DriftsAreOfRecords
  <2>2. DriftNamesItsClaims
    BY DEF StoreInv
  <2>3. QED
    BY <1>3, <2>1, <2>2 DEF DriftNamesItsClaims
<1>11. heap' = PolicyTable
  BY <1>3 DEF StoreInv
<1>12. CasesAreTheirs'
  <2>1. \A d \in DOMAIN cases : cases[d] \in Records
    BY DEF StoreInv, TypeOK, Range
  <2>2. \A d \in DOMAIN cases' : records'[cases'[d]].case_id = d
    BY <1>1, <1>2, <1>3, <2>1 DEF StoreInv, CasesAreTheirs, Put
  <2>3. QED
    BY <2>2 DEF CasesAreTheirs
<1>13. SnapshotIsIndex' /\ SweptCasesAreSettled'
  BY <1>3 DEF SnapshotIsIndex, SweptCasesAreSettled
<1>14. QED
  BY <1>4, <1>5, <1>6, <1>7, <1>8, <1>9, <1>10, <1>11, <1>12, <1>13 DEF StoreInv

\* A step that leaves the store alone keeps what is said of the store.
LEMMA StoreUntouched ==
    ASSUME StoreInv, UNCHANGED <<storeVars, heap>>
    PROVE  /\ Records' = Records
           /\ heap' = PolicyTable
           /\ records' \in Seq(Range(records')) /\ caseOrder' \in Seq(CaseIds)
           /\ SealedAsAdjudicated' /\ OneChainPerTenant' /\ IndexIsHonest' /\ CasesAreTheirs'
<1>1. records' = records /\ cases' = cases /\ caseOrder' = caseOrder /\ chain_tip' = chain_tip /\ heap' = heap
  BY DEF storeVars
<1>2. Records' = Records
  BY <1>1 DEF Records
<1>3. SealedAsAdjudicated'
  BY <1>1, <1>2 DEF StoreInv, SealedAsAdjudicated, adjudicate_raw
<1>4. OneChainPerTenant'
  BY <1>1, <1>2 DEF StoreInv, OneChainPerTenant
<1>5. IndexIsHonest'
  BY <1>1, <1>2 DEF StoreInv, IndexIsHonest
<1>6. CasesAreTheirs'
  BY <1>1 DEF StoreInv, CasesAreTheirs
<1>7. QED
  BY <1>1, <1>2, <1>3, <1>4, <1>5, <1>6 DEF StoreInv, ShapeOK

\* So the rest of the invariant is all that such a step has to show.
LEMMA RestSuffices ==
    ASSUME StoreInv, UNCHANGED <<storeVars, heap>>,
           sweep' = NoSweep \/ sweep' \in Sweeps,
           sweep'.running =>
               /\ Range(sweep'.snapshot) \subseteq Records
               /\ sweep'.position \in 1..Len(sweep'.snapshot) + 1
               /\ sweep'.snapshot = [i \in DOMAIN caseOrder |-> cases[caseOrder[i]]],
           SweptCasesAreSettled',
           closes' \in 0..MaxCloses, sweeps' \in 0..MaxSweeps,
           \/ reopened' = reopened
           \/ DriftsAreOfRecords' /\ DriftNamesItsClaims' /\ DOMAIN reopened' \subseteq DOMAIN cases
    PROVE  StoreInv'
<1>1. /\ records' = records /\ cases' = cases /\ caseOrder' = caseOrder
      /\ chain_tip' = chain_tip /\ heap' = heap
  BY DEF storeVars
<1>2. /\ Records' = Records /\ heap' = PolicyTable
      /\ SealedAsAdjudicated' /\ OneChainPerTenant' /\ IndexIsHonest' /\ CasesAreTheirs'
      /\ records' \in Seq(Range(records')) /\ caseOrder' \in Seq(CaseIds)
  BY StoreUntouched
<1>3. DOMAIN reopened' \subseteq DOMAIN cases
  BY DEF StoreInv, TypeOK
<1>4. TypeOK'
  BY <1>1, <1>2, <1>3 DEF StoreInv, TypeOK
<1>5. ShapeOK'
  BY <1>2 DEF ShapeOK
<1>6. DriftsAreOfRecords' /\ DriftNamesItsClaims'
  <2>1. CASE reopened' = reopened
    <3>1. DriftsAreOfRecords'
      BY <1>2, <2>1 DEF StoreInv, DriftsAreOfRecords
    <3>2. DriftNamesItsClaims
      BY DEF StoreInv
    <3>3. QED
      BY <1>1, <2>1, <3>1, <3>2 DEF DriftNamesItsClaims
  <2>2. QED
    BY <2>1
<1>7. SnapshotIsIndex'
  BY <1>1 DEF SnapshotIsIndex
<1>8. QED
  BY <1>2, <1>4, <1>5, <1>6, <1>7 DEF StoreInv

\* An iteration moves to the next case of its snapshot.
LEMMA AdvanceKeepsSweep ==
    ASSUME StoreInv, InLoop, Advance
    PROVE  /\ sweep' \in Sweeps
           /\ Range(sweep'.snapshot) \subseteq Records
           /\ sweep'.position \in 1..Len(sweep'.snapshot) + 1
           /\ sweep'.position = sweep.position + 1 /\ sweep.position \in 1..Len(sweep.snapshot)
           /\ sweep'.snapshot = sweep.snapshot /\ sweep'.policy = sweep.policy
           /\ sweep'.corpus = sweep.corpus
<1>1. sweep \in Sweeps
  BY CaseNowIsRecord
<1>2. /\ Range(sweep.snapshot) \subseteq Records
      /\ sweep.position \in 1..Len(sweep.snapshot)
      /\ Len(sweep.snapshot) \in Nat
  BY <1>1 DEF StoreInv, TypeOK, InLoop, Sweeps
<1>3. sweep.position + 1 \in Nat /\ sweep.position + 1 \in 1..Len(sweep.snapshot) + 1
  BY <1>2
<1>4. /\ sweep' \in Sweeps
      /\ sweep'.snapshot = sweep.snapshot /\ sweep'.policy = sweep.policy
      /\ sweep'.corpus = sweep.corpus
      /\ sweep'.position = sweep.position + 1
  BY <1>1, <1>3 DEF Advance, Sweeps
<1>5. QED
  BY <1>2, <1>3, <1>4

\* Cases of a sweep that were settled stay so, and the case of this iteration
\* joins them, if no drift of another case of the snapshot is overwritten.
LEMMA AdvanceSettles ==
    ASSUME StoreInv, InLoop, Advance, UNCHANGED <<storeVars, heap>>,
           \/ reopened' = reopened
           \/ reopened' = Put(reopened, CaseNow.case_id, Drift),
           Cited(CaseNow.claims, sweep.corpus) # {} =>
              \/ /\ reopened' = Put(reopened, CaseNow.case_id, Drift)
                 /\ Drift.record = sweep.snapshot[sweep.position] /\ Drift.corpus = sweep.corpus
              \/ LET now == adjudicate(CaseNow.claims,
                                RepricedBy(heap[sweep.policy], Cited(CaseNow.claims, sweep.corpus)),
                                KernelVersion)
                 IN  /\ now.severity = CaseNow.verdict.severity
                     /\ now.disposition = CaseNow.verdict.disposition
    PROVE  SweptCasesAreSettled'
<1>0. PICK p : p = sweep.position
  OBVIOUS
<1>1. records' = records /\ heap' = heap
  BY DEF storeVars
<1>2. /\ sweep'.position = p + 1 /\ p \in 1..Len(sweep.snapshot)
      /\ sweep'.snapshot = sweep.snapshot /\ sweep'.policy = sweep.policy
      /\ sweep'.corpus = sweep.corpus
  BY <1>0, AdvanceKeepsSweep
<1>3. Len(sweep.snapshot) \in Nat /\ DOMAIN sweep.snapshot = 1..Len(sweep.snapshot)
  <2>1. sweep.snapshot \in Seq(Nat)
    BY CaseNowIsRecord DEF Sweeps
  <2>2. QED
    BY <2>1, LenProperties
<1>4. \A k \in DOMAIN sweep.snapshot : k # p =>
         records[sweep.snapshot[k]].case_id # CaseNow.case_id
  <2>1. sweep.snapshot = [i \in DOMAIN caseOrder |-> cases[caseOrder[i]]]
    BY DEF StoreInv, SnapshotIsIndex, InLoop
  <2>2. \A k \in DOMAIN caseOrder : caseOrder[k] \in DOMAIN cases
    BY DEF StoreInv, IndexIsHonest, Range
  <2>3. \A k \in DOMAIN caseOrder : records[cases[caseOrder[k]]].case_id = caseOrder[k]
    BY <2>2 DEF StoreInv, CasesAreTheirs
  <2>4. \A m, k \in DOMAIN caseOrder : m # k => caseOrder[m] # caseOrder[k]
    BY DEF StoreInv, IndexIsHonest
  <2>5. DOMAIN sweep.snapshot = DOMAIN caseOrder /\ p \in DOMAIN caseOrder
    BY <1>2, <1>3, <2>1
  <2>6. CaseNow.case_id = caseOrder[p]
    BY <1>0, <2>1, <2>3, <2>5 DEF CaseNow
  <2>7. QED
    BY <2>1, <2>3, <2>4, <2>5, <2>6
<1>5. ASSUME NEW k \in 1..p - 1
      PROVE  Settled(k)'
  <2>1. Settled(k)
    BY <1>0, <1>5 DEF StoreInv, SweptCasesAreSettled, InLoop
  <2>2. k \in DOMAIN sweep.snapshot /\ k # p
    BY <1>2, <1>3
  <2> DEFINE c == records[sweep.snapshot[k]].case_id
  <2>3. c \in DOMAIN reopened => c \in DOMAIN reopened' /\ reopened'[c] = reopened[c]
    BY <1>4, <2>2 DEF Put
  <2>4. QED
    BY <1>1, <1>2, <2>1, <2>3 DEF Settled
<1>6. Settled(p)'
  <2>1. CASE Cited(CaseNow.claims, sweep.corpus) = {}
    BY <1>0, <1>1, <1>2, <2>1 DEF Settled, CaseNow
  <2>2. CASE /\ reopened' = Put(reopened, CaseNow.case_id, Drift)
             /\ Drift.record = sweep.snapshot[p] /\ Drift.corpus = sweep.corpus
    <3>1. CaseNow.case_id \in DOMAIN reopened' /\ reopened'[CaseNow.case_id] = Drift
      BY <2>2 DEF Put
    <3>2. QED
      BY <1>0, <1>1, <1>2, <2>2, <3>1 DEF Settled, CaseNow
  <2>3. CASE LET now == adjudicate(CaseNow.claims,
                                RepricedBy(heap[sweep.policy], Cited(CaseNow.claims, sweep.corpus)),
                                KernelVersion)
             IN  /\ now.severity = CaseNow.verdict.severity
                 /\ now.disposition = CaseNow.verdict.disposition
    BY <1>0, <1>1, <1>2, <2>3 DEF Settled, CaseNow
  <2>4. QED
    BY <1>0, <2>1, <2>2, <2>3
<1>7. \A k \in 1..sweep'.position - 1 : k \in 1..p - 1 \/ k = p
  BY <1>2, <1>3
<1>8. QED
  BY <1>5, <1>6, <1>7 DEF SweptCasesAreSettled

\* A sweep starts on what closed_investigations lists.
LEMMA SweepStarts ==
    ASSUME StoreInv, NEW p \in PolicyRefs, NEW corpus \in Corpora, run_sweep(p, corpus)
    PROVE  StoreInv'
<1> DEFINE snapshot == [i \in DOMAIN caseOrder |-> cases[caseOrder[i]]]
<1>1. /\ UNCHANGED <<storeVars, heap>> /\ reopened' = reopened /\ closes' = closes
      /\ sweeps' = sweeps + 1 /\ sweeps < MaxSweeps
      /\ sweep' = [running |-> TRUE, policy |-> p, corpus |-> corpus, position |-> 1,
                   snapshot |-> snapshot]
  BY DEF run_sweep
<1>2. \A i \in DOMAIN caseOrder : cases[caseOrder[i]] \in Records
  <2>1. \A i \in DOMAIN caseOrder : caseOrder[i] \in DOMAIN cases
    BY DEF StoreInv, IndexIsHonest, Range
  <2>2. \A c \in DOMAIN cases : cases[c] \in Records
    BY DEF StoreInv, TypeOK, Range
  <2>3. QED
    BY <2>1, <2>2
<1>3. Records \subseteq Nat
  BY DEF StoreInv, ShapeOK, Records
<1>4. DOMAIN caseOrder = 1..Len(caseOrder) /\ Len(caseOrder) \in Nat
  BY DEF StoreInv, ShapeOK
<1>5. snapshot \in Seq(Nat) /\ Len(snapshot) \in Nat
  <2>1. snapshot \in [1..Len(caseOrder) -> Nat]
    BY <1>2, <1>3, <1>4
  <2> HIDE DEF snapshot
  <2>2. snapshot \in Seq(Nat)
    BY <1>4, <2>1, SeqDef
  <2>3. QED
    BY <2>2, LenProperties
<1>6. Range(snapshot) \subseteq Records
  BY <1>2 DEF Range
<1> HIDE DEF snapshot
<1>7. sweep' \in Sweeps /\ sweep'.snapshot = snapshot /\ sweep'.position = 1
  BY <1>1, <1>5 DEF Sweeps
<1>8. sweeps' \in 0..MaxSweeps /\ closes' \in 0..MaxCloses
  BY <1>1, CaseStoreAssumption DEF StoreInv, TypeOK
<1>9. SweptCasesAreSettled'
  BY <1>7 DEF SweptCasesAreSettled
<1>10. QED
  BY <1>1, <1>5, <1>6, <1>7, <1>8, <1>9, RestSuffices DEF snapshot

\* The case of an iteration is reopened.
LEMMA ReopenKeepsInv ==
    ASSUME StoreInv, ReopenCase
    PROVE  StoreInv'
<1> DEFINE at == sweep.snapshot[sweep.position]
           case == CaseNow.case_id
<1>1. /\ InLoop /\ HitsNow # {} /\ ~SameOutcome(AnswerNow.verdict, CaseNow.manifest) /\ Advance
      /\ UNCHANGED <<storeVars, heap>> /\ closes' = closes /\ sweeps' = sweeps
      /\ reopened' = Put(reopened, case, Drift)
  BY DEF ReopenCase, heapAfter, mark_reopened
<1>2. /\ at \in Records /\ CaseNow = records[at]
      /\ case \in DOMAIN cases
  BY <1>1, CaseNowIsRecord DEF CaseNow
<1>3. /\ DOMAIN reopened' = DOMAIN reopened \cup {case}
      /\ reopened'[case] = Drift
      /\ \A c \in DOMAIN reopened : c # case => reopened'[c] = reopened[c]
  BY <1>1 DEF Put
<1>4. Records' = Records /\ records' = records
  BY <1>1 DEF Records, storeVars
<1>5. Drift.record = at /\ Drift.corpus \in Corpora
  BY <1>1, DriftIsNamed
<1>6. DriftsAreOfRecords'
  BY <1>2, <1>3, <1>4, <1>5 DEF StoreInv, DriftsAreOfRecords
<1>7. DriftNamesItsClaims'
  <2> SUFFICES ASSUME NEW c \in DOMAIN reopened'
               PROVE  NamesItsClaims(reopened'[c], c, records[reopened'[c].record])
    BY <1>4 DEF DriftNamesItsClaims
  <2>1. CASE c = case
    BY <1>1, <1>2, <1>3, <1>5, <2>1, DriftIsNamed
  <2>2. CASE c # case
    BY <1>3, <2>2 DEF StoreInv, DriftNamesItsClaims
  <2>3. QED
    BY <2>1, <2>2
<1>8. DOMAIN reopened' \subseteq DOMAIN cases
  BY <1>2, <1>3 DEF StoreInv, TypeOK
<1>9. /\ sweep' \in Sweeps
      /\ Range(sweep'.snapshot) \subseteq Records
      /\ sweep'.position \in 1..Len(sweep'.snapshot) + 1
  BY <1>1, AdvanceKeepsSweep
<1>10. closes' \in 0..MaxCloses /\ sweeps' \in 0..MaxSweeps
  BY <1>1 DEF StoreInv, TypeOK
<1>11. Drift.corpus = sweep.corpus
  BY DEF Drift
<1>12. SweptCasesAreSettled'
  BY <1>1, <1>5, <1>11, AdvanceSettles
<1>13. sweep'.snapshot = [i \in DOMAIN caseOrder |-> cases[caseOrder[i]]]
  BY <1>1, AdvanceKeepsSweep DEF StoreInv, SnapshotIsIndex, InLoop
<1>14. QED
  BY <1>1, <1>6, <1>7, <1>8, <1>9, <1>10, <1>12, <1>13, RestSuffices

\* The case of an iteration is skipped or keeps its outcome.
LEMMA PassKeepsInv ==
    ASSUME StoreInv, SkipCase \/ KeepCase
    PROVE  StoreInv'
<1>1. /\ InLoop /\ Advance /\ UNCHANGED <<storeVars, heap>> /\ reopened' = reopened
      /\ closes' = closes /\ sweeps' = sweeps
  BY DEF SkipCase, KeepCase, heapAfter
<1>2. /\ sweep' \in Sweeps
      /\ Range(sweep'.snapshot) \subseteq Records
      /\ sweep'.position \in 1..Len(sweep'.snapshot) + 1
      /\ sweep'.snapshot = sweep.snapshot
  BY <1>1, AdvanceKeepsSweep
<1>3. sweep'.snapshot = [i \in DOMAIN caseOrder |-> cases[caseOrder[i]]]
  BY <1>1, <1>2 DEF StoreInv, SnapshotIsIndex, InLoop
<1>4. SweptCasesAreSettled'
  <2>1. CASE SkipCase
    <3>1. sweep.corpus \in Corpora /\ CaseNow.claims \in ClaimSets
      BY <1>1, CaseNowIsRecord DEF Sweeps
    <3>2. Cited(CaseNow.claims, sweep.corpus) = {}
      BY <2>1, <3>1, CitedAreFound DEF SkipCase, HitsNow
    <3>3. QED
      BY <1>1, <3>2, AdvanceSettles
  <2>2. CASE KeepCase
    <3> DEFINE now == adjudicate(CaseNow.claims,
                          RepricedBy(heap[sweep.policy], Cited(CaseNow.claims, sweep.corpus)),
                          KernelVersion)
    <3>1. now.severity = CaseNow.verdict.severity /\ now.disposition = CaseNow.verdict.disposition
      BY <1>1, <2>2, OutcomeIsReference DEF KeepCase, SameOutcome
    <3>2. QED
      BY <1>1, <3>1, AdvanceSettles
  <2>3. QED
    BY <2>1, <2>2
<1>5. closes' \in 0..MaxCloses /\ sweeps' \in 0..MaxSweeps
  BY <1>1 DEF StoreInv, TypeOK
<1>6. QED
  BY <1>1, <1>2, <1>3, <1>4, <1>5, RestSuffices

\* Every request, reopened case and step of a sweep keeps it.
LEMMA NextStoreInv == StoreInv /\ [Next]_vars => StoreInv'
<1> SUFFICES ASSUME StoreInv, [Next]_vars PROVE StoreInv'
  OBVIOUS
<1>1. ASSUME NEW t \in Tenants, NEW c \in CaseIds, NEW claims \in ClaimSets, NEW p \in PolicyRefs,
             close_case(t, c, claims, p)
      PROVE  StoreInv'
  BY <1>1, CloseKeepsInv
<1>2. closes \in 0..MaxCloses /\ sweeps \in 0..MaxSweeps
  BY DEF StoreInv, TypeOK
<1>3. /\ sweep = NoSweep \/ sweep \in Sweeps
      /\ sweep.running => /\ Range(sweep.snapshot) \subseteq Records
                          /\ sweep.position \in 1..Len(sweep.snapshot) + 1
                          /\ sweep.snapshot = [i \in DOMAIN caseOrder |-> cases[caseOrder[i]]]
  BY DEF StoreInv, ShapeOK, TypeOK, SnapshotIsIndex
<1>4. ~NoSweep.running
  BY DEF NoSweep
<1>5. CASE close_case_raises
  <2>1. /\ UNCHANGED <<storeVars, heap>> /\ reopened' = reopened /\ sweep' = sweep /\ sweeps' = sweeps
        /\ closes' \in 0..MaxCloses /\ ~sweep'.running
    BY <1>2, <1>5, CaseStoreAssumption DEF close_case_raises
  <2>2. SweptCasesAreSettled'
    BY <2>1 DEF SweptCasesAreSettled
  <2>3. QED
    BY <1>2, <1>3, <2>1, <2>2, RestSuffices
<1>6. ASSUME NEW p \in PolicyRefs, NEW corpus \in Corpora, run_sweep(p, corpus)
      PROVE  StoreInv'
  BY <1>6, SweepStarts
<1>7. CASE SkipCase \/ KeepCase
  BY <1>7, PassKeepsInv
<1>8. CASE ReopenCase
  BY <1>8, ReopenKeepsInv
<1>9. CASE SweepRaises \/ SweepReturns
  <2>1. /\ sweep' = NoSweep /\ UNCHANGED <<storeVars, heap>> /\ reopened' = reopened
        /\ closes' = closes /\ sweeps' = sweeps
    BY <1>9 DEF SweepRaises, SweepReturns
  <2>2. SweptCasesAreSettled'
    BY <1>4, <2>1 DEF SweptCasesAreSettled
  <2>3. QED
    BY <1>2, <1>4, <2>1, <2>2, RestSuffices
<1>10. CASE UNCHANGED vars
  <2>1. /\ UNCHANGED <<storeVars, heap>> /\ reopened' = reopened /\ sweep' = sweep
        /\ closes' = closes /\ sweeps' = sweeps
    BY <1>10 DEF vars
  <2>2. SweptCasesAreSettled'
    BY <1>10 DEF vars, storeVars, StoreInv, SweptCasesAreSettled, Settled
  <2>3. QED
    BY <1>2, <1>3, <2>1, <2>2, RestSuffices
<1>11. QED
  BY <1>1, <1>5, <1>6, <1>7, <1>8, <1>9, <1>10 DEF Next

-----------------------------------------------------------------------------
(* Theorems.                                                               *)

\* StoreInv holds in every state of every behaviour of the service.
THEOREM StoreInvariant == Spec => []StoreInv
<1>1. QED
  BY InitStoreInv, NextStoreInv, PTL DEF Spec

\* Every record, index and sweep is well formed: in particular a sweep always
\* looks at a record that is there (store.py, rvd.py).
THEOREM StoreTypeCorrect == Spec => []TypeOK
<1>1. StoreInv => TypeOK
  BY DEF StoreInv
<1>2. QED
  BY <1>1, StoreInvariant, PTL

\* The chains of the tenants, the records and the index of cases fit together
\* after any closes, failed closes, closes of a case already closed, and sweeps
\* (ManifestStore.close_case, closed_investigations).
THEOREM StoreHolds == Spec => []StoreHoldsTogether
<1>1. StoreInv => StoreHoldsTogether
  BY DEF StoreInv, StoreHoldsTogether
<1>2. QED
  BY <1>1, StoreInvariant, PTL

\* Every record replays to the verdict its manifest committed to, whatever the
\* kernel computes, since no sweep writes into the policy dict the record shares
\* with its callers (replay.py).
THEOREM PinReplay == Spec => []PinReplayMatches
<1>1. StoreInv => PinReplayMatches
  <2> SUFFICES ASSUME StoreInv, NEW i \in Records
               PROVE  replay_pin(records[i]).verdict_hash_matches
    BY DEF PinReplayMatches
  <2> DEFINE answer == adjudicate_raw(records[i].claims, heap[records[i].policy])
  <2>1. answer # Failed /\ answer.verdict_hash = records[i].manifest.verdict_hash
    BY DEF StoreInv, SealedAsAdjudicated
  <2>2. QED
    BY <2>1 DEF replay_pin
<1>2. QED
  BY <1>1, StoreInvariant, PTL

\* A reopened case names the record, the verdicts, all the claims and the prices
\* that reopened it, for any corpus and any kernel (rvd.py, VerdictDrift).
THEOREM DriftIsAttributed == Spec => []DriftNamesItsClaims
<1>1. StoreInv => DriftNamesItsClaims
  BY DEF StoreInv
<1>2. QED
  BY <1>1, StoreInvariant, PTL

\* A sweep passes over no case that its corpus bears on and whose outcome under
\* the repriced policy is another one: for any corpus, policy and kernel, and
\* although the sweep also replaces techniques, which the reference does not
\* (run_sweep, build_augmented_policy).
THEOREM SweepMissesNothing == Spec => []SweptCasesAreSettled
<1>1. StoreInv => SweptCasesAreSettled
  BY DEF StoreInv
<1>2. QED
  BY <1>1, StoreInvariant, PTL

=============================================================================
