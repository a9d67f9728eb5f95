------------------------ MODULE VerdictLedgerProofs ------------------------
(***************************************************************************)
(* The console's ledger and its verification panel, for any tenants, cases *)
(* and claims, any number of restarts and of runs at a time.               *)
(***************************************************************************)
EXTENDS VerdictLedger, KernelProofs

-----------------------------------------------------------------------------
(* Sorting a finite set.                                                   *)

\* R is a strict total order on S.
Orders(R, S) ==
    /\ \A a \in S : <<a, a>> \notin R
    /\ \A a, b, c \in S : <<a, b>> \in R /\ <<b, c>> \in R => <<a, c>> \in R
    /\ \A a, b \in S : a # b => <<a, b>> \in R \/ <<b, a>> \in R

Rank(e, S, R) == Cardinality({d \in S : <<d, e>> \in R})

\* What comes before has a smaller rank, and a rank is less than the size.
LEMMA RankFacts ==
    ASSUME NEW S, IsFiniteSet(S), NEW R, Orders(R, S), NEW n, n = Cardinality(S)
    PROVE  /\ n \in Nat
           /\ \A e \in S : Rank(e, S, R) \in 0..n - 1
           /\ \A d, e \in S : <<d, e>> \in R => Rank(d, S, R) < Rank(e, S, R)
<1> DEFINE B(e) == {d \in S : <<d, e>> \in R}
<1>1. n \in Nat
  BY FS_CardinalityType
<1>2. ASSUME NEW e \in S PROVE IsFiniteSet(B(e)) /\ Cardinality(B(e)) \in 0..n - 1
  <2>0. B(e) \in SUBSET S /\ e \notin B(e)
    BY DEF Orders
  <2>1. PICK b : b = B(e) /\ b \in SUBSET S /\ b # S
    BY <2>0
  <2>2. IsFiniteSet(b) /\ Cardinality(b) <= n /\ Cardinality(b) # n
    BY <2>1, FS_Subset
  <2>3. Cardinality(b) \in Nat
    BY <2>2, FS_CardinalityType
  <2>4. QED
    BY <1>1, <2>1, <2>2, <2>3
<1>3. ASSUME NEW d \in S, NEW e \in S, <<d, e>> \in R PROVE Cardinality(B(d)) < Cardinality(B(e))
  <2>1. PICK a, b : a = B(d) /\ b = B(e)
    OBVIOUS
  <2>2. a \in SUBSET b /\ a # b
    BY <1>3, <2>1 DEF Orders
  <2>3. IsFiniteSet(b) /\ Cardinality(a) \in Nat /\ Cardinality(b) \in Nat
    <3>1. /\ IsFiniteSet(B(e)) /\ Cardinality(B(d)) \in 0..n - 1
          /\ Cardinality(B(e)) \in 0..n - 1
      BY <1>2
    <3>2. Cardinality(a) \in 0..n - 1 /\ Cardinality(b) \in 0..n - 1 /\ IsFiniteSet(b)
      BY <2>1, <3>1
    <3>3. QED
      BY <1>1, <3>2
  <2>4. Cardinality(a) <= Cardinality(b) /\ Cardinality(a) # Cardinality(b)
    BY <2>2, <2>3, FS_Subset
  <2>5. QED
    BY <2>1, <2>3, <2>4
<1>4. QED
  BY <1>1, <1>2, <1>3 DEF Rank

\* A sorted set is a list of its members, each at one place.
LEMMA SortedLists ==
    ASSUME NEW S, IsFiniteSet(S), NEW R, Orders(R, S), NEW l, l = Sorted(S, R)
    PROVE  /\ Cardinality(S) \in Nat /\ l \in [1..Cardinality(S) -> S]
           /\ l \in Seq(S) /\ Len(l) = Cardinality(S) /\ DOMAIN l = 1..Cardinality(S)
           /\ \A e \in S : \E k \in DOMAIN l : l[k] = e
           /\ \A j, k \in DOMAIN l : l[j] = l[k] => j = k
<1>1. PICK n : n = Cardinality(S)
  OBVIOUS
<1>2. PICK rank : rank = [e \in S |-> Rank(e, S, R)]
  OBVIOUS
<1>3. n \in Nat /\ \A e \in S : rank[e] \in 0..n - 1
  BY <1>1, <1>2, RankFacts
<1>4. \A d, e \in S : rank[d] = rank[e] => d = e
  <2>1. \A d, e \in S : <<d, e>> \in R => rank[d] < rank[e]
    BY <1>1, <1>2, RankFacts
  <2>2. \A d \in S : rank[d] \in Int
    BY <1>3
  <2>3. \A d, e \in S : d = e \/ <<d, e>> \in R \/ <<e, d>> \in R
    BY DEF Orders
  <2>4. ASSUME NEW d \in S, NEW e \in S, rank[d] = rank[e], d # e PROVE FALSE
    <3>1. rank[d] < rank[e] \/ rank[e] < rank[d]
      BY <2>1, <2>3, <2>4
    <3>2. QED
      BY <2>2, <2>4, <3>1
  <2>5. QED
    BY <2>4
<1>5. PICK h : h \in Bijection(1..n, S)
  <2>1. PICK m \in Nat : ExistsBijection(1..m, S)
    BY FS_NatBijection
  <2>2. m = n
    BY <1>1, <2>1, FS_CountingElements
  <2>3. QED
    BY <2>1, <2>2 DEF ExistsBijection
<1>6. /\ h \in [1..n -> S]
      /\ \A i, j \in 1..n : h[i] = h[j] => i = j
      /\ \A e \in S : \E i \in 1..n : h[i] = e
  BY <1>5 DEF Bijection, Injection, Surjection, IsInjective
<1>7. PICK place : place = [i \in 1..n |-> rank[h[i]] + 1]
  OBVIOUS
<1>8. Permutes(place, n)
  <2>1. place \in [1..n -> 1..n]
    <3>1. \A i \in 1..n : rank[h[i]] + 1 \in 1..n
      <4> SUFFICES ASSUME NEW i \in 1..n PROVE rank[h[i]] + 1 \in 1..n
        OBVIOUS
      <4>1. rank[h[i]] \in 0..n - 1
        BY <1>3, <1>6
      <4>2. QED
        BY <1>3, <4>1
    <3>2. QED
      BY <1>7, <3>1
  <2>2. \A i, j \in 1..n : place[i] = place[j] => i = j
    <3> SUFFICES ASSUME NEW i \in 1..n, NEW j \in 1..n, place[i] = place[j] PROVE i = j
      OBVIOUS
    <3>1. h[i] \in S /\ h[j] \in S
      BY <1>6
    <3>2. rank[h[i]] \in Int /\ rank[h[j]] \in Int /\ rank[h[i]] + 1 = rank[h[j]] + 1
      BY <1>3, <1>7, <3>1
    <3>3. h[i] = h[j]
      BY <1>4, <3>1, <3>2
    <3>4. QED
      BY <1>6, <3>3
  <2>3. QED
    BY <1>3, <2>1, <2>2, InjectionPermutes
<1>9. ASSUME NEW k \in 1..n PROVE l[k] \in S /\ rank[l[k]] = k - 1
  <2>1. PICK i \in 1..n : place[i] = k
    BY <1>8 DEF Permutes
  <2>2. h[i] \in S /\ rank[h[i]] \in Int /\ rank[h[i]] + 1 = k
    BY <1>3, <1>6, <1>7, <2>1
  <2>3. \E e \in S : rank[e] = k - 1
    BY <2>2
  <2>4. l[k] = CHOOSE e \in S : rank[e] = k - 1
    BY <1>1, <1>2 DEF Sorted, Rank
  <2>5. QED
    BY <2>3, <2>4
<1>10. l \in [1..n -> S] /\ DOMAIN l = 1..n
  <2>1. l = [k \in 1..n |-> CHOOSE e \in S : Cardinality({d \in S : <<d, e>> \in R}) = k - 1]
    BY <1>1 DEF Sorted
  <2>2. QED
    BY <1>9, <2>1
<1>11. \A e \in S : \E k \in 1..n : l[k] = e
  <2> SUFFICES ASSUME NEW e \in S PROVE \E k \in 1..n : l[k] = e
    OBVIOUS
  <2>1. PICK k \in 1..n : k - 1 = rank[e]
    <3>1. rank[e] + 1 \in 1..n /\ (rank[e] + 1) - 1 = rank[e]
      BY <1>3
    <3>2. QED
      BY <3>1
  <2>2. l[k] = e
    BY <1>4, <1>9, <2>1
  <2>3. QED
    BY <2>2
<1>12. \A j, k \in 1..n : l[j] = l[k] => j = k
  BY <1>9
<1>13. l \in Seq(S) /\ Len(l) = n
  BY <1>3, <1>10, SeqDef, LenProperties
<1>14. QED
  BY <1>1, <1>3, <1>10, <1>11, <1>12, <1>13

-----------------------------------------------------------------------------
(* Evidence: its lists, trees and proofs.                                  *)

\* The evidence of a case.
Evidence(c) == UNION {RawClaims[c][i].evidence : i \in DOMAIN RawClaims[c]}

LEMMA RawClaimFacts ==
    ASSUME NEW c \in Cases
    PROVE  /\ Len(RawClaims[c]) \in Nat \ {0} /\ DOMAIN RawClaims[c] = 1..Len(RawClaims[c])
           /\ \A i \in DOMAIN RawClaims[c] :
                 /\ RawClaims[c][i].predicate \in DOMAIN Vocabulary
                 /\ IsFiniteSet(RawClaims[c][i].evidence)
                 /\ RawClaims[c][i].evidence \in SUBSET Nat /\ RawClaims[c][i].evidence # {}
<1>1. /\ RawClaims[c] \in Seq(Range(RawClaims[c])) /\ RawClaims[c] # << >>
      /\ \A e \in Range(RawClaims[c]) :
            /\ e.predicate \in DOMAIN Vocabulary
            /\ IsFiniteSet(e.evidence) /\ e.evidence \in SUBSET Nat /\ e.evidence # {}
  BY ClaimsAssumption
<1>2. PICK s : s = RawClaims[c]
  OBVIOUS
<1>3. Len(s) \in Nat /\ DOMAIN s = 1..Len(s) /\ Len(s) # 0
  BY <1>1, <1>2, LenProperties, EmptySeq
<1>4. \A i \in DOMAIN s : s[i] \in Range(s)
  BY DEF Range
<1>5. QED
  BY <1>1, <1>2, <1>3, <1>4

\* The sorted list of the evidence of a case, which no restart and no tampering
\* changes.
LEMMA EvidenceIdsOfCase ==
    ASSUME NEW c \in Cases, NEW s, DOMAIN s = DOMAIN RawClaims[c],
           \A i \in DOMAIN s : s[i].evidence = RawClaims[c][i].evidence,
           NEW ids, ids = evidenceIds(s)
    PROVE  /\ ids \in Seq(Evidence(c)) /\ Range(ids) = Evidence(c) /\ Evidence(c) \in SUBSET Nat
           /\ \A j, k \in DOMAIN ids : ids[j] = ids[k] => j = k
<1>1. PICK E : E = Evidence(c)
  OBVIOUS
<1>2. UNION {s[i].evidence : i \in DOMAIN s} = E
  BY <1>1 DEF Evidence
<1>3. E \in SUBSET Nat
  BY <1>1, RawClaimFacts DEF Evidence
<1>4. IsFiniteSet(E)
  <2>1. PICK n \in Nat : n = Len(RawClaims[c]) /\ DOMAIN RawClaims[c] = 1..n
    BY RawClaimFacts
  <2>2. PICK F : F = {RawClaims[c][i].evidence : i \in 1..n}
    OBVIOUS
  <2>3. IsFiniteSet(F)
    <3>1. IsFiniteSet(1..n)
      BY <2>1, FS_Interval
    <3>2. PICK f : f = [i \in 1..n |-> RawClaims[c][i].evidence]
      OBVIOUS
    <3>3. f \in Surjection(1..n, F)
      BY <2>2, <3>2 DEF Surjection
    <3>4. QED
      BY <3>1, <3>3, FS_Surjection
  <2>4. \A e \in F : IsFiniteSet(e)
    BY <2>1, <2>2, RawClaimFacts
  <2>5. IsFiniteSet(UNION F)
    BY <2>3, <2>4, FS_UNION
  <2>6. QED
    BY <1>1, <2>1, <2>2, <2>5 DEF Evidence
<1>5. PICK R : R = {pair \in E \X E : pair[1] < pair[2]}
  OBVIOUS
<1>6. Orders(R, E)
  <2>1. \A a, b \in E : <<a, b>> \in R <=> a < b
    BY <1>5
  <2>2. \A a \in E : a \in Int
    BY <1>3
  <2>3. QED
    BY <2>1, <2>2 DEF Orders
<1>7. ids = Sorted(E, R)
  BY <1>2, <1>5 DEF evidenceIds
<1>8. /\ ids \in Seq(E) /\ DOMAIN ids = 1..Cardinality(E) /\ ids \in [1..Cardinality(E) -> E]
      /\ \A e \in E : \E k \in DOMAIN ids : ids[k] = e
      /\ \A j, k \in DOMAIN ids : ids[j] = ids[k] => j = k
  BY <1>4, <1>6, <1>7, SortedLists
<1>9. Range(ids) = E
  BY <1>8 DEF Range
<1>10. QED
  BY <1>1, <1>3, <1>8, <1>9

\* The proof of a position leads to the root from the element there, and from
\* nothing else.
LEMMA WebProofIsExact ==
    ASSUME NEW S, NEW ids \in Seq(S), NEW i \in 1..Len(ids),
           NEW tree, tree = buildMerkleTree(ids), NEW proof, proof = proveInclusion(tree, i - 1)
    PROVE  /\ proof.root = tree.root
           /\ \A x : verifyInclusion(x, proof) <=> x = ids[i]
<1>1. PICK n \in Nat : n = Len(ids)
  BY LenProperties
<1>2. PICK H : H = Doublings(n)
  OBVIOUS
<1>3. PICK d : d = doubled[H]
  OBVIOUS
<1>4. H \in Nat /\ d \in Nat /\ d >= n
  BY <1>2, <1>3, DoublingsEnough, DoubledSteps
<1>5. PICK bottom, levels, j : bottom = paddedLevel(ids) /\ levels = Levels(bottom, H) /\ j = i - 1
  OBVIOUS
<1>6. tree.height = H /\ tree.levels = levels /\ tree.root = levels[H][0]
  BY <1>1, <1>2, <1>5 DEF buildMerkleTree
<1>7. j \in Nat /\ j < n /\ j < d /\ j \in 0..d - 1 /\ j + 1 = i
  BY <1>1, <1>4, <1>5
<1>8. bottom[j] = leafHash(ids[i])
  BY <1>1, <1>2, <1>3, <1>5, <1>7 DEF paddedLevel, nextPowerOfTwo
<1>9. PICK steps : steps = proof.steps
  OBVIOUS
<1>10. steps = [l \in 1..H |-> Sibling(levels, j, l - 1)] /\ proof.root = levels[H][0]
  BY <1>5, <1>6, <1>9 DEF proveInclusion
<1>11. Len(steps) = H
  <2>1. steps \in [1..H -> Range(steps)]
    BY <1>10 DEF Range
  <2>2. steps \in Seq(Range(steps))
    BY <1>4, <2>1, SeqDef
  <2>3. QED
    BY <1>4, <2>1, <2>2, LenProperties
<1>12. ASSUME NEW x PROVE verifyInclusion(x, proof) <=> x = ids[i]
  <2>1. Climbed(x, steps) = levels[H][0] <=> leafHash(x) = bottom[j]
    <3>1. \A l \in 1..H : steps[l] = Sibling(levels, j, l - 1)
      BY <1>10
    <3>2. j < doubled[H]
      BY <1>3, <1>7
    <3>3. QED
      BY <1>4, <1>5, <1>7, <1>11, <3>1, <3>2, ProofIsExact
  <2>2. leafHash(x) = leafHash(ids[i]) <=> x = ids[i]
    BY DEF leafHash
  <2>3. QED
    BY <1>8, <1>9, <1>10, <2>1, <2>2 DEF verifyInclusion
<1>13. QED
  BY <1>6, <1>10, <1>12

\* What a case's claims are, whatever the process.
LEMMA ClaimsOfFacts ==
    ASSUME NEW c \in Cases, NEW p \in 0..MaxRestarts, NEW tamper \in BOOLEAN,
           NEW s, s = ClaimsOf(c, p, tamper)
    PROVE  /\ DOMAIN s = DOMAIN RawClaims[c]
           /\ s \in Seq(Range(s)) /\ Len(s) = Len(RawClaims[c])
           /\ \A i \in DOMAIN s :
                 /\ s[i].id = ClaimId[c][i][p][tamper /\ i = 1]
                 /\ s[i].id \in Int
                 /\ s[i].predicate = RawClaims[c][i].predicate
                 /\ s[i].evidence = RawClaims[c][i].evidence
<1>1. PICK n \in Nat : n = Len(RawClaims[c]) /\ DOMAIN RawClaims[c] = 1..n
  BY RawClaimFacts
<1>2. DOMAIN s = 1..n
  BY <1>1 DEF ClaimsOf
<1>3. ASSUME NEW i \in DOMAIN s
      PROVE  /\ s[i].id = ClaimId[c][i][p][tamper /\ i = 1]
             /\ s[i].predicate = RawClaims[c][i].predicate
             /\ s[i].evidence = RawClaims[c][i].evidence
  BY <1>1, <1>2 DEF ClaimsOf
<1>4. ASSUME NEW i \in DOMAIN s PROVE s[i].id \in Int
  <2>1. PICK t \in BOOLEAN : t = (tamper /\ i = 1)
    OBVIOUS
  <2>2. ClaimId[c][i][p][t] \in Int
    BY <1>1, <1>2, ClaimIdAssumption
  <2>3. QED
    BY <1>3, <2>1, <2>2
<1>5. s \in Seq(Range(s)) /\ Len(s) = n
  <2>1. s \in [1..n -> Range(s)]
    <3>1. \A i \in 1..n : s[i] \in Range(s)
      BY <1>2 DEF Range
    <3>2. s = [i \in 1..n |-> s[i]]
      BY <1>1 DEF ClaimsOf
    <3>3. QED
      BY <3>1, <3>2
  <2>2. s \in Seq(Range(s))
    BY <1>1, <2>1, SeqDef
  <2>3. QED
    BY <1>1, <2>1, <2>2, LenProperties
<1>6. QED
  BY <1>1, <1>2, <1>3, <1>4, <1>5

\* Every piece of evidence of a case is proved to be under its manifest's root,
\* and no proof passes for anything else.
LEMMA EvidenceProofs ==
    ASSUME NEW c \in Cases, NEW p \in 0..MaxRestarts, NEW id \in Evidence(c)
    PROVE  \E proof \in proveEvidenceInclusion(c, p, id) :
              /\ proof.root = buildMerkleTree(evidenceIds(generateClaims(c, p))).root
              /\ \A x : verifyInclusion(x, proof) <=> x = id
<1>1. PICK s, ids, tree : s = generateClaims(c, p) /\ ids = evidenceIds(s) /\ tree = buildMerkleTree(ids)
  OBVIOUS
<1>2. DOMAIN s = DOMAIN RawClaims[c] /\ \A i \in DOMAIN s : s[i].evidence = RawClaims[c][i].evidence
  <2>1. PICK tamper \in BOOLEAN : tamper = FALSE
    OBVIOUS
  <2>2. s = ClaimsOf(c, p, tamper)
    BY <1>1, <2>1 DEF generateClaims
  <2>3. QED
    BY <2>2, ClaimsOfFacts
<1>3. ids \in Seq(Evidence(c)) /\ Range(ids) = Evidence(c)
  BY <1>1, <1>2, EvidenceIdsOfCase
<1>4. PICK i \in DOMAIN ids : ids[i] = id
  BY <1>3 DEF Range
<1>5. i \in 1..Len(ids)
  BY <1>3, <1>4, LenProperties
<1>6. PICK proof : proof = proveInclusion(tree, i - 1)
  OBVIOUS
<1>7. proof.root = tree.root /\ \A x : verifyInclusion(x, proof) <=> x = ids[i]
  BY <1>1, <1>3, <1>5, <1>6, WebProofIsExact
<1>8. proof \in proveEvidenceInclusion(c, p, id)
  BY <1>1, <1>4, <1>6 DEF proveEvidenceInclusion
<1>9. QED
  BY <1>1, <1>4, <1>7, <1>8

-----------------------------------------------------------------------------
(* The ledger.                                                             *)

\* The manifests of a tenant are linked one after the other.
LEMMA PrevHashSteps ==
    ASSUME NEW tenant, NEW p, Len(TenantCases[tenant]) \in Nat,
           NEW h, h = prevHashes(tenant, p)
    PROVE  /\ h[0] = ZERO_HASH
           /\ \A i \in 1..Len(TenantCases[tenant]) : h[i] = manifest_hash(sealedAt(tenant, p, i, h[i - 1]))
<1> DEFINE link(i, x) == manifest_hash(sealedAt(tenant, p, i, x))
           Upto(n, f) == f = [i \in 0..n |-> IF i = 0 THEN ZERO_HASH ELSE link(i, f[i - 1])]
           S == {n \in Nat : \E f : Upto(n, f)}
<1> HIDE DEF link
<1>1. 0 \in S
  <2>1. Upto(0, [i \in 0..0 |-> ZERO_HASH])
    OBVIOUS
  <2>2. QED
    BY <2>1
<1>2. \A n \in Nat : n \in S => n + 1 \in S
  <2> HIDE DEF Upto
  <2> SUFFICES ASSUME NEW n \in Nat, NEW f, Upto(n, f) PROVE \E g : Upto(n + 1, g)
    OBVIOUS
  <2> USE DEF Upto
  <2> DEFINE g == [i \in 0..n + 1 |-> IF i = n + 1 THEN link(n + 1, f[n]) ELSE f[i]]
  <2>1. ASSUME NEW i \in 0..n + 1
        PROVE  g[i] = IF i = 0 THEN ZERO_HASH ELSE link(i, g[i - 1])
    <3>1. CASE i = 0
      BY <3>1
    <3>2. CASE i = n + 1
      <4>1. i - 1 = n /\ n \in 0..n + 1 /\ n # n + 1 /\ i # 0
        BY <3>2
      <4>2. QED
        BY <3>2, <4>1
    <3>3. CASE i \in 1..n
      <4>1. /\ i \in 0..n /\ i # 0 /\ i # n + 1
            /\ i - 1 \in 0..n + 1 /\ i - 1 # n + 1
        BY <3>3
      <4>2. f[i] = link(i, f[i - 1])
        BY <4>1
      <4>3. QED
        BY <4>1, <4>2
    <3>4. QED
      BY <3>1, <3>2, <3>3
  <2>2. Upto(n + 1, g)
    BY <2>1
  <2>3. QED
    <3> HIDE DEF g, Upto
    <3> QED
      BY <2>2
<1>3. Nat \subseteq S
  <2> HIDE DEF S
  <2> QED
    BY <1>1, <1>2, Induction
<1>4. PICK m \in Nat : m = Len(TenantCases[tenant])
  OBVIOUS
<1>5. Upto(m, CHOOSE f : Upto(m, f))
  <2> HIDE DEF Upto
  <2> QED
    BY <1>3
<1>6. h = CHOOSE f : Upto(m, f)
  BY <1>4 DEF prevHashes, link
<1>7. Upto(m, h)
  BY <1>5, <1>6
<1>8. h[0] = ZERO_HASH /\ \A i \in 1..m : h[i] = link(i, h[i - 1])
  <2>1. \A i \in 1..m : i \in 0..m /\ i # 0
    OBVIOUS
  <2>2. QED
    BY <1>7, <2>1
<1>9. QED
  BY <1>4, <1>8 DEF link

LEMMA TenantFacts ==
    ASSUME NEW k \in DOMAIN Tenants
    PROVE  /\ k \in Nat
           /\ Len(TenantCases[Tenants[k]]) \in Nat
           /\ DOMAIN TenantCases[Tenants[k]] = 1..Len(TenantCases[Tenants[k]])
           /\ \A i \in DOMAIN TenantCases[Tenants[k]] :
                 <<k, i>> \in Places /\ TenantCases[Tenants[k]][i] \in Cases
<1>1. Tenants \in Seq(Range(Tenants)) /\ Tenants[k] \in Range(Tenants)
  BY LedgerAssumption DEF Range
<1>2. k \in Nat
  BY <1>1, LenProperties
<1>3. PICK s : s = TenantCases[Tenants[k]]
  OBVIOUS
<1>4. s \in Seq(Range(s))
  BY <1>1, <1>3, LedgerAssumption
<1>5. Len(s) \in Nat /\ DOMAIN s = 1..Len(s)
  BY <1>4, LenProperties
<1>6. ASSUME NEW i \in DOMAIN s PROVE <<k, i>> \in Places /\ s[i] \in Cases
  <2>1. <<k, i>> \in Places
    BY <1>3 DEF Places
  <2>2. CaseAt(<<k, i>>) = s[i]
    BY <1>3 DEF CaseAt
  <2>3. QED
    BY <2>1, <2>2 DEF Cases
<1>7. QED
  BY <1>2, <1>3, <1>5, <1>6

LEMMA PlaceFacts ==
    ASSUME NEW a \in Places
    PROVE  /\ a[1] \in DOMAIN Tenants /\ a[2] \in DOMAIN TenantCases[Tenants[a[1]]]
           /\ a[1] \in Nat /\ a[2] \in Nat /\ a = <<a[1], a[2]>>
           /\ CaseAt(a) \in Cases
<1>1. PICK k \in DOMAIN Tenants : a \in {k} \X DOMAIN TenantCases[Tenants[k]]
  BY DEF Places
<1>2. a[1] = k /\ a[2] \in DOMAIN TenantCases[Tenants[k]] /\ a = <<a[1], a[2]>>
  BY <1>1
<1>3. a[1] \in Nat /\ a[2] \in Nat
  BY <1>1, <1>2, TenantFacts
<1>4. QED
  BY <1>1, <1>2, <1>3 DEF Cases

\* The manifests of all tenants are sorted: each once.
LEMMA NewestFirstLists ==
    /\ Len(NewestFirst) \in Nat /\ DOMAIN NewestFirst = 1..Len(NewestFirst)
    /\ \A k \in DOMAIN NewestFirst : NewestFirst[k] \in Places
    /\ \A a \in Places : \E k \in DOMAIN NewestFirst : NewestFirst[k] = a
<1>1. IsFiniteSet(Places)
  <2>1. IsFiniteSet(DOMAIN Tenants)
    <3>1. Tenants \in Seq(Range(Tenants))
      BY LedgerAssumption
    <3>2. Len(Tenants) \in Nat /\ DOMAIN Tenants = 1..Len(Tenants)
      BY <3>1, LenProperties
    <3>3. QED
      BY <3>2, FS_Interval
  <2>2. PICK f : f = [k \in DOMAIN Tenants |-> {k} \X DOMAIN TenantCases[Tenants[k]]]
    OBVIOUS
  <2>3. PICK F : F = {{k} \X DOMAIN TenantCases[Tenants[k]] : k \in DOMAIN Tenants}
    OBVIOUS
  <2>4. IsFiniteSet(F)
    <3>1. f \in Surjection(DOMAIN Tenants, F)
      BY <2>2, <2>3 DEF Surjection
    <3>2. QED
      BY <2>1, <3>1, FS_Surjection
  <2>5. \A e \in F : IsFiniteSet(e)
    <3> SUFFICES ASSUME NEW k \in DOMAIN Tenants PROVE IsFiniteSet({k} \X DOMAIN TenantCases[Tenants[k]])
      BY <2>3
    <3>1. IsFiniteSet({k})
      BY FS_Singleton
    <3>2. PICK n \in Nat : DOMAIN TenantCases[Tenants[k]] = 1..n
      BY TenantFacts
    <3>3. IsFiniteSet(DOMAIN TenantCases[Tenants[k]])
      BY <3>2, FS_Interval
    <3>4. QED
      BY <3>1, <3>3, FS_Product
  <2>6. QED
    BY <2>3, <2>4, <2>5, FS_UNION DEF Places
<1>2. PICK R : R = {pair \in Places \X Places : Newer(pair[1], pair[2])}
  OBVIOUS
<1>3. \A a, b \in Places : <<a, b>> \in R <=> Newer(a, b)
  BY <1>2
<1>4. Orders(R, Places)
  <2>1. \A a \in Places : a[1] \in Int /\ a[2] \in Int /\ a = <<a[1], a[2]>> /\ CompletedAt[CaseAt(a)] \in Int
    BY PlaceFacts, LedgerAssumption
  <2>2. \A a \in Places : ~Newer(a, a)
    BY <2>1 DEF Newer
  <2>3. \A a, b, c \in Places : Newer(a, b) /\ Newer(b, c) => Newer(a, c)
    BY <2>1 DEF Newer
  <2>4. \A a, b \in Places : a # b => Newer(a, b) \/ Newer(b, a)
    <3> SUFFICES ASSUME NEW a \in Places, NEW b \in Places, a # b PROVE Newer(a, b) \/ Newer(b, a)
      OBVIOUS
    <3>1. a[1] # b[1] \/ a[2] # b[2]
      BY <2>1
    <3>2. QED
      BY <2>1, <3>1 DEF Newer
  <2>5. QED
    BY <1>3, <2>2, <2>3, <2>4 DEF Orders
<1>5. NewestFirst = Sorted(Places, R)
  BY <1>2 DEF NewestFirst
<1>6. PICK l : l = NewestFirst
  OBVIOUS
<1>7. /\ Cardinality(Places) \in Nat /\ l \in [1..Cardinality(Places) -> Places]
      /\ Len(l) = Cardinality(Places) /\ DOMAIN l = 1..Cardinality(Places)
      /\ \A a \in Places : \E k \in DOMAIN l : l[k] = a
  BY <1>1, <1>4, <1>5, <1>6, SortedLists
<1>8. QED
  BY <1>6, <1>7

\* What a manifest says.
LEMMA SealedAtFacts ==
    ASSUME NEW tenant, NEW p, NEW i, NEW x, NEW m, m = sealedAt(tenant, p, i, x),
           NEW c, c = TenantCases[tenant][i]
    PROVE  /\ m.manifest.investigation = c
           /\ m.manifest.epoch_root = buildMerkleTree(evidenceIds(generateClaims(c, p))).root
           /\ m.manifest.verdict_hash = Ask(generateClaims(c, p), buildSyntheticPolicy).verdict_hash
           /\ m.chainBroken = MakesBroken(i - 1, Len(TenantCases[tenant]))
           /\ m.manifest.prev_manifest_hash = IF m.chainBroken THEN syntheticHash("broken", c) ELSE x
BY DEF sealedAt, buildManifest, Sealed

\* The manifest of an investigation is the one its tenant's chain has for it.
LEMMA LedgerFacts ==
    ASSUME NEW p \in 0..MaxRestarts, NEW L, L = LedgerOf[p]
    PROVE  /\ Len(L) \in Nat /\ L \in Seq(Range(L)) /\ DOMAIN L = DOMAIN NewestFirst
           /\ \A k \in DOMAIN L : /\ L[k].manifest.investigation \in Cases
                                  /\ SealedOf(L[k].manifest.investigation, p) = L[k]
           /\ \A a \in Places : SealedOf(CaseAt(a), p) = tenantChain(Tenants[a[1]], p)[a[2]]
<1> DEFINE At(a) == tenantChain(Tenants[a[1]], p)[a[2]]
<1>1. PICK n \in Nat : n = Len(NewestFirst) /\ DOMAIN NewestFirst = 1..n
  BY NewestFirstLists
<1>2. L = [k \in 1..n |-> At(NewestFirst[k])]
  BY <1>1 DEF LedgerOf, buildLedger
<1>3. ASSUME NEW a \in Places PROVE At(a).manifest.investigation = CaseAt(a)
  <2>1. a[2] \in DOMAIN TenantCases[Tenants[a[1]]]
    BY PlaceFacts
  <2>2. At(a) = sealedAt(Tenants[a[1]], p, a[2], prevHashes(Tenants[a[1]], p)[a[2] - 1])
    BY <2>1 DEF tenantChain
  <2>3. QED
    BY <2>2, SealedAtFacts DEF CaseAt
<1> HIDE DEF At
<1>4. \A k \in 1..n : NewestFirst[k] \in Places /\ L[k] = At(NewestFirst[k])
  BY <1>1, <1>2, NewestFirstLists
<1>5. DOMAIN L = 1..n /\ Len(L) \in Nat /\ L \in Seq(Range(L))
  <2>1. L \in [1..n -> Range(L)]
    <3>1. \A k \in 1..n : L[k] \in Range(L)
      BY <1>2 DEF Range
    <3>2. QED
      BY <1>2, <3>1
  <2>2. L \in Seq(Range(L))
    BY <2>1, SeqDef
  <2>3. QED
    BY <2>1, <2>2, LenProperties
<1>6. ASSUME NEW a \in Places PROVE SealedOf(CaseAt(a), p) = At(a)
  <2>1. PICK k \in 1..n : NewestFirst[k] = a
    BY <1>1, NewestFirstLists
  <2>2. At(a) \in Range(L)
    BY <1>4, <1>5, <2>1 DEF Range
  <2>3. ASSUME NEW m \in Range(L), m.manifest.investigation = CaseAt(a) PROVE m = At(a)
    <3>1. PICK j \in 1..n : m = L[j]
      BY <1>5 DEF Range
    <3>2. CaseAt(NewestFirst[j]) = CaseAt(a) /\ NewestFirst[j] \in Places
      BY <1>3, <1>4, <2>3, <3>1
    <3>3. NewestFirst[j] = a
      BY <3>2, LedgerAssumption
    <3>4. QED
      BY <1>4, <3>1, <3>3
  <2>4. PICK m : m = SealedOf(CaseAt(a), p)
    OBVIOUS
  <2>5. m \in Range(L) /\ m.manifest.investigation = CaseAt(a)
    BY <1>3, <2>2, <2>4 DEF SealedOf
  <2>6. QED
    BY <2>3, <2>4, <2>5
<1>7. ASSUME NEW k \in DOMAIN L
      PROVE  L[k].manifest.investigation \in Cases /\ SealedOf(L[k].manifest.investigation, p) = L[k]
  <2>1. PICK a \in Places : a = NewestFirst[k] /\ L[k] = At(a)
    BY <1>4, <1>5
  <2>2. L[k].manifest.investigation = CaseAt(a) /\ SealedOf(CaseAt(a), p) = At(a)
    BY <1>3, <1>6, <2>1
  <2>3. CaseAt(a) \in Cases
    BY PlaceFacts
  <2>4. QED
    BY <2>1, <2>2, <2>3
<1>8. DOMAIN L = DOMAIN NewestFirst
  BY <1>1, <1>5
<1>9. QED
  BY <1>5, <1>6, <1>7, <1>8 DEF At

\* What the ledger lists is the manifest of a case.
LEMMA ListedManifests ==
    ASSUME NEW p \in 0..MaxRestarts, NEW L, L = LedgerOf[p], NEW k \in DOMAIN L,
           NEW c, c = L[k].manifest.investigation
    PROVE  c \in Cases /\ SealedOf(c, p) = L[k]
BY LedgerFacts

\* The manifest of a case: its root, its verdict.
LEMMA SealedOfFacts ==
    ASSUME NEW c \in Cases, NEW p \in 0..MaxRestarts, NEW m, m = SealedOf(c, p).manifest
    PROVE  /\ m.investigation = c
           /\ m.epoch_root = buildMerkleTree(evidenceIds(generateClaims(c, p))).root
           /\ \A tamper \in BOOLEAN : ~tamper => m.verdict_hash = VerdictHash[c][p][tamper]
<1>1. PICK a \in Places : c = CaseAt(a)
  BY DEF Cases
<1>2. SealedOf(c, p) = tenantChain(Tenants[a[1]], p)[a[2]]
  BY <1>1, LedgerFacts
<1>3. a[2] \in DOMAIN TenantCases[Tenants[a[1]]]
  BY PlaceFacts
<1>4. SealedOf(c, p) = sealedAt(Tenants[a[1]], p, a[2], prevHashes(Tenants[a[1]], p)[a[2] - 1])
  BY <1>2, <1>3 DEF tenantChain
<1>5. c = TenantCases[Tenants[a[1]]][a[2]]
  BY <1>1 DEF CaseAt
<1>6. /\ m.investigation = c
      /\ m.epoch_root = buildMerkleTree(evidenceIds(generateClaims(c, p))).root
      /\ m.verdict_hash = Ask(generateClaims(c, p), buildSyntheticPolicy).verdict_hash
  BY <1>4, <1>5, SealedAtFacts
<1>7. VerdictHash[c][p][FALSE] = Ask(generateClaims(c, p), buildSyntheticPolicy).verdict_hash
  BY DEF VerdictHash, generateClaims
<1>8. ASSUME NEW tamper \in BOOLEAN, ~tamper
      PROVE  VerdictHash[c][p][tamper] = VerdictHash[c][p][FALSE]
  <2>1. tamper = FALSE
    BY <1>8
  <2>2. QED
    BY <2>1
<1>9. QED
  BY <1>6, <1>7, <1>8

\* A tenant's manifests are marked broken exactly where their link leads nowhere.
LEMMA ChainsAreSound ==
    ASSUME NEW t \in Range(Tenants), NEW p \in 0..MaxRestarts
    PROVE  ChainSound([i \in DOMAIN TenantCases[t] |-> SealedOf(TenantCases[t][i], p)])
<1>1. PICK k \in DOMAIN Tenants : t = Tenants[k]
  BY DEF Range
<1>2. PICK n \in Nat : n = Len(TenantCases[t]) /\ DOMAIN TenantCases[t] = 1..n
  BY <1>1, TenantFacts
<1>3. PICK h : h = prevHashes(t, p)
  OBVIOUS
<1>4. h[0] = ZERO_HASH /\ \A i \in 1..n : h[i] = manifest_hash(sealedAt(t, p, i, h[i - 1]))
  BY <1>2, <1>3, PrevHashSteps
<1>5. PICK s : s = [i \in 1..n |-> SealedOf(TenantCases[t][i], p)]
  OBVIOUS
<1>6. ASSUME NEW i \in 1..n PROVE s[i] = sealedAt(t, p, i, h[i - 1])
  <2>1. <<k, i>> \in Places /\ CaseAt(<<k, i>>) = TenantCases[t][i]
    BY <1>1, <1>2, TenantFacts DEF CaseAt
  <2>2. PICK a \in Places : a[1] = k /\ a[2] = i /\ CaseAt(a) = TenantCases[t][i]
    BY <2>1
  <2>3. SealedOf(TenantCases[t][i], p) = tenantChain(t, p)[i]
    BY <1>1, <2>2, LedgerFacts
  <2>4. QED
    BY <1>2, <1>3, <1>5, <2>3 DEF tenantChain
<1>7. ASSUME NEW i \in 1..n
      PROVE  s[i].chainBroken = (s[i].manifest.prev_manifest_hash
                                    # IF i = 1 THEN ZERO_HASH ELSE manifest_hash(s[i - 1]))
  <2>1. PICK prev : prev = IF i = 1 THEN ZERO_HASH ELSE manifest_hash(s[i - 1])
    OBVIOUS
  <2>2. h[i - 1] = prev
    <3>1. CASE i = 1
      BY <1>4, <2>1, <3>1
    <3>2. CASE i # 1
      <4>1. i - 1 \in 1..n
        BY <3>2
      <4>2. QED
        BY <1>4, <1>6, <2>1, <3>2, <4>1
    <3>3. QED
      BY <3>1, <3>2
  <2>3. syntheticHash("broken", TenantCases[t][i]) # prev
    BY <2>1 DEF syntheticHash, manifest_hash, ZERO_HASH
  <2>4. /\ s[i].chainBroken = MakesBroken(i - 1, Len(TenantCases[t]))
        /\ s[i].manifest.prev_manifest_hash
              = IF s[i].chainBroken THEN syntheticHash("broken", TenantCases[t][i]) ELSE prev
    BY <1>6, <2>2, SealedAtFacts
  <2>5. s[i].chainBroken \in BOOLEAN
    BY <2>4 DEF MakesBroken
  <2>6. QED
    BY <2>1, <2>3, <2>4, <2>5
<1>8. QED
  BY <1>2, <1>5, <1>7 DEF ChainSound

\* Every ledger holds together.
LEMMA LedgersAreSound == SoundLedgers = 0..MaxRestarts
<1> SUFFICES ASSUME NEW p \in 0..MaxRestarts, NEW t \in Range(Tenants), NEW c \in Range(TenantCases[t])
             PROVE  ProofsSound(c, p, SealedOf(c, p).manifest.epoch_root)
  BY ChainsAreSound DEF SoundLedgers
<1>1. c \in Cases
  <2>1. PICK k \in DOMAIN Tenants : t = Tenants[k]
    BY DEF Range
  <2>2. PICK i \in DOMAIN TenantCases[t] : c = TenantCases[t][i]
    BY DEF Range
  <2>3. QED
    BY <2>1, <2>2, TenantFacts
<1>2. Range(evidenceIds(RawClaims[c])) = Evidence(c)
  BY <1>1, EvidenceIdsOfCase
<1>3. ASSUME NEW id \in Evidence(c)
      PROVE  \E proof \in proveEvidenceInclusion(c, p, id) :
                /\ proof.root = SealedOf(c, p).manifest.epoch_root
                /\ \A other : verifyInclusion(other, proof) = (other = id)
  <2>1. PICK proof \in proveEvidenceInclusion(c, p, id) :
              /\ proof.root = buildMerkleTree(evidenceIds(generateClaims(c, p))).root
              /\ \A x : verifyInclusion(x, proof) <=> x = id
    BY <1>1, EvidenceProofs
  <2>2. proof.root = SealedOf(c, p).manifest.epoch_root
    BY <1>1, <2>1, SealedOfFacts
  <2>3. \A x : verifyInclusion(x, proof) = (x = id)
    BY <2>1 DEF verifyInclusion
  <2>4. QED
    BY <2>1, <2>2, <2>3
<1>4. QED
  BY <1>2, <1>3 DEF ProofsSound

-----------------------------------------------------------------------------
(* What the kernel answers for the claims of a case.                       *)

LEMMA PolicyFacts ==
    ASSUME NEW weight, NEW P, P = PolicyPaying(weight)
    PROVE  /\ ValidPolicy(P)
           /\ DOMAIN P.weights = DOMAIN Vocabulary /\ DOMAIN Scoring(P).weights = DOMAIN Vocabulary
           /\ \A q \in DOMAIN Vocabulary : P.weights[q].weight = weight[q]
<1>1. PICK th : th = P.thresholds
  OBVIOUS
<1>2. th = <<<<0, Info>>, <<1500, Low>>, <<3500, Medium>>, <<6000, High>>, <<8500, Critical>>>>
  BY <1>1 DEF PolicyPaying
<1>3. Len(th) = 5
  BY <1>2
<1>4. th # <<>>
  BY <1>3
<1>5. ASSUME NEW i \in 1..4 PROVE th[i][1] < th[i + 1][1]
  <2>1. i = 1 \/ i = 2 \/ i = 3 \/ i = 4
    OBVIOUS
  <2>2. th[1][1] = 0 /\ th[2][1] = 1500 /\ th[3][1] = 3500 /\ th[4][1] = 6000 /\ th[5][1] = 8500
    BY <1>2
  <2>3. CASE i = 1
    BY <2>2, <2>3
  <2>4. CASE i = 2
    BY <2>2, <2>4
  <2>5. CASE i = 3
    BY <2>2, <2>5
  <2>6. CASE i = 4
    BY <2>2, <2>6
  <2>7. QED
    BY <2>1, <2>3, <2>4, <2>5, <2>6
<1>6. ValidPolicy(P)
  BY <1>1, <1>3, <1>4, <1>5 DEF ValidPolicy
<1>7. P.weights = [q \in DOMAIN Vocabulary |-> [tactic     |-> Vocabulary[q].tactic,
                                                weight     |-> weight[q],
                                                techniques |-> Vocabulary[q].techniques]]
  BY DEF PolicyPaying
<1>8. DOMAIN Scoring(P).weights = DOMAIN P.weights
  BY DEF Scoring
<1>9. QED
  BY <1>6, <1>7, <1>8

\* All claims of a case contribute to its verdict, and nothing else does.
LEMMA AskFacts ==
    ASSUME NEW c \in Cases, NEW p \in 0..MaxRestarts, NEW tamper \in BOOLEAN,
           NEW s, s = ClaimsOf(c, p, tamper), NEW weight, NEW P, P = PolicyPaying(weight),
           NEW u, u = Usable(s, Scoring(P)), NEW v, v = Ask(s, P).verdict
    PROVE  /\ \A i \in DOMAIN u : \E j \in DOMAIN s : s[j] = u[i]
           /\ \A j \in DOMAIN s : \E i \in DOMAIN u : u[i] = s[j]
           /\ Ask(s, P).verdict_hash = compute_verdict_hash(v)
           /\ v.contributing_claims = [i \in DOMAIN u |->
                  [claim_id          |-> u[i].id,
                   predicate         |-> u[i].predicate,
                   attributed_weight |-> contribution(u[i], P)]]
           /\ \A i \in DOMAIN s : Ask(s, P).submitted_claim_ids[i] = s[i].id
<1>1. /\ DOMAIN s = DOMAIN RawClaims[c] /\ s \in Seq(Range(s)) /\ Len(s) = Len(RawClaims[c])
      /\ \A i \in DOMAIN s :
            /\ s[i].id \in Int /\ s[i].predicate = RawClaims[c][i].predicate
            /\ s[i].evidence = RawClaims[c][i].evidence
  BY ClaimsOfFacts
<1>2. \A i \in DOMAIN s : s[i].predicate \in DOMAIN Vocabulary /\ s[i].evidence # {}
  BY <1>1, RawClaimFacts
<1>3. PICK D : D = Range(s)
  OBVIOUS
<1>4. \A e \in D : \E i \in DOMAIN s : e = s[i]
  BY <1>3 DEF Range
<1>5. \A e \in D : claim_id(e) \in Int
  BY <1>1, <1>4 DEF claim_id
<1>6. PICK Q : Q = Scoring(P)
  OBVIOUS
<1>7. \A i \in DOMAIN s : Counts(s[i], Q)
  BY <1>2, <1>6, PolicyFacts DEF Counts
<1>8. /\ u \in Seq(Counted(D, Q))
      /\ \A i \in DOMAIN u : \E j \in DOMAIN s : s[j] = u[i] /\ Counts(s[j], Q)
      /\ \A j \in DOMAIN s : Counts(s[j], Q) => \E i \in DOMAIN u : u[i] = s[j]
  <2>1. s \in Seq(D) /\ u = Usable(s, Q)
    BY <1>1, <1>3, <1>6
  <2>2. QED
    BY <1>5, <2>1, UsableHoldsCounted, SMTT(60)
<1>9. u # <<>>
  <2>1. 1 \in DOMAIN s
    BY <1>1, RawClaimFacts
  <2>2. DOMAIN u # {}
    BY <1>7, <1>8, <2>1
  <2>3. QED
    BY <2>2
<1>10. PICK w : w = adjudicate(s, P, KERNEL_VERSION)
  OBVIOUS
<1>11. Ask(s, P) = [verdict             |-> w,
                    verdict_hash        |-> compute_verdict_hash(w),
                    submitted_claim_ids |-> [i \in DOMAIN s |-> claim_id(s[i])]]
  <2>1. \A e \in Range(s) : e.evidence # {}
    BY <1>2, <1>3, <1>4
  <2>2. QED
    BY <1>10, <2>1, PolicyFacts DEF Ask, adjudicate_cli
<1>12. w.contributing_claims = [i \in DOMAIN u |->
                  [claim_id          |-> claim_id(u[i]),
                   predicate         |-> u[i].predicate,
                   attributed_weight |-> contribution(u[i], P)]]
  BY <1>9, <1>10 DEF adjudicate, NothingUsable
<1>13. QED
  BY <1>7, <1>8, <1>11, <1>12 DEF claim_id

\* A verdict's hash tells the claims of a process from those of another and from
\* tampered ones.
LEMMA HashTellsApart ==
    ASSUME NEW c \in Cases, NEW p \in 0..MaxRestarts, NEW q \in 0..MaxRestarts, NEW tamper \in BOOLEAN
    PROVE  VerdictHash[c][q][tamper] = VerdictHash[c][p][FALSE] <=> q = p /\ ~tamper
<1>1. PICK none \in BOOLEAN : none = FALSE
  OBVIOUS
<1>2. PICK s1, s2, P, weight : /\ s1 = ClaimsOf(c, q, tamper) /\ s2 = ClaimsOf(c, p, none)
                               /\ weight = [d \in DOMAIN Vocabulary |-> syntheticWeight(d)]
                               /\ P = PolicyPaying(weight) /\ P = buildSyntheticPolicy
  BY DEF buildSyntheticPolicy
<1>3. PICK u1, u2, v1, v2 : /\ u1 = Usable(s1, Scoring(P)) /\ u2 = Usable(s2, Scoring(P))
                            /\ v1 = Ask(s1, P).verdict /\ v2 = Ask(s2, P).verdict
  OBVIOUS
<1>4. /\ \A j \in DOMAIN s1 : \E i \in DOMAIN u1 : u1[i] = s1[j]
      /\ Ask(s1, P).verdict_hash = compute_verdict_hash(v1)
      /\ v1.contributing_claims = [i \in DOMAIN u1 |->
             [claim_id |-> u1[i].id, predicate |-> u1[i].predicate,
              attributed_weight |-> contribution(u1[i], P)]]
  <2>1. s1 = ClaimsOf(c, q, tamper) /\ P = PolicyPaying(weight)
    BY <1>2
  <2>2. u1 = Usable(s1, Scoring(P)) /\ v1 = Ask(s1, P).verdict
    BY <1>3
  <2>3. QED
    BY ONLY AskFacts, <2>1, <2>2, c \in Cases, q \in 0..MaxRestarts, tamper \in BOOLEAN
<1>5. /\ \A i \in DOMAIN u2 : \E j \in DOMAIN s2 : s2[j] = u2[i]
      /\ Ask(s2, P).verdict_hash = compute_verdict_hash(v2)
      /\ v2.contributing_claims = [i \in DOMAIN u2 |->
             [claim_id |-> u2[i].id, predicate |-> u2[i].predicate,
              attributed_weight |-> contribution(u2[i], P)]]
  <2>1. s2 = ClaimsOf(c, p, none) /\ P = PolicyPaying(weight)
    BY <1>2
  <2>2. u2 = Usable(s2, Scoring(P)) /\ v2 = Ask(s2, P).verdict
    BY <1>3
  <2>3. QED
    BY ONLY AskFacts, <2>1, <2>2, c \in Cases, p \in 0..MaxRestarts, none \in BOOLEAN
<1>6. /\ VerdictHash[c][q][tamper] = Ask(s1, P).verdict_hash
      /\ VerdictHash[c][p][FALSE] = Ask(s2, P).verdict_hash
  BY <1>1, <1>2 DEF VerdictHash
<1>7. ASSUME compute_verdict_hash(v1) = compute_verdict_hash(v2) PROVE q = p /\ ~tamper
  <2>1. v1.contributing_claims = v2.contributing_claims
    BY <1>7 DEF compute_verdict_hash
  <2>2. PICK n : n = 1 /\ n \in DOMAIN s1 /\ n \in DOMAIN RawClaims[c]
    BY <1>2, RawClaimFacts, ClaimsOfFacts
  <2>3. PICK i \in DOMAIN u1 : u1[i] = s1[n]
    BY <1>4, <2>2
  <2>4. i \in DOMAIN u2 /\ u2[i].id = s1[n].id
    <3>1. DOMAIN u1 = DOMAIN u2
      BY <1>4, <1>5, <2>1
    <3>2. v1.contributing_claims[i].claim_id = u1[i].id /\ v2.contributing_claims[i].claim_id = u2[i].id
      BY <1>4, <1>5, <3>1
    <3>3. QED
      BY <2>1, <2>3, <3>1, <3>2
  <2>5. PICK j \in DOMAIN s2 : s2[j] = u2[i]
    BY <1>5, <2>4
  <2>6. PICK o \in BOOLEAN : o = (none /\ j = 1)
    OBVIOUS
  <2>7. s1[n].id = ClaimId[c][n][q][tamper]
    BY <1>2, <2>2 DEF ClaimsOf
  <2>8. s2[j].id = ClaimId[c][j][p][o] /\ j \in DOMAIN RawClaims[c]
    BY <1>2, <2>6 DEF ClaimsOf
  <2>9. q = p /\ tamper = o
    BY <2>2, <2>4, <2>5, <2>7, <2>8, ClaimIdAssumption
  <2>10. QED
    BY <1>1, <2>6, <2>9
<1>8. ASSUME q = p, ~tamper PROVE VerdictHash[c][q][tamper] = VerdictHash[c][p][FALSE]
  <2>1. tamper = FALSE
    BY <1>8
  <2>2. QED
    BY <1>8, <2>1
<1>9. QED
  BY <1>4, <1>5, <1>6, <1>7, <1>8

-----------------------------------------------------------------------------
(* Drift.                                                                  *)

\* Which claims contribute does not depend on what they pay.
LEMMA UsableIgnoresPrices ==
    ASSUME NEW D, \A e \in D : claim_id(e) \in Int, NEW s \in Seq(D),
           NEW P, NEW Q, DOMAIN P.weights = DOMAIN Q.weights
    PROVE  Usable(s, P) = Usable(s, Q)
<1>1. PICK n \in Nat : n = Len(s) /\ DOMAIN s = 1..n
  BY LenProperties
<1>2. PICK o : o = Ordered(s)
  OBVIOUS
<1>3. o \in [1..n -> D]
  <2>1. PICK r : Permutes(r, n) /\ o = [k \in 1..n |-> s[r[k]]]
    BY <1>1, <1>2, OrderedArranges
  <2>2. \A k \in 1..n : s[k] \in D
    BY <1>1, ElementOfSeq
  <2>3. \A k \in 1..n : r[k] \in 1..n
    BY <2>1 DEF Permutes
  <2>4. QED
    BY <2>1, <2>2, <2>3
<1>4. PICK f : PushedFrom(D, f, o, n, P) /\ Usable(s, P) = f[n]
  <2>1. Ordered(s) \in [1..n -> D]
    BY <1>2, <1>3
  <2>2. QED
    BY <1>2, <2>1, UsableUnfolds, ZenonT(60)
<1>5. PICK g : PushedFrom(D, g, o, n, Q) /\ Usable(s, Q) = g[n]
  <2>1. Ordered(s) \in [1..n -> D]
    BY <1>2, <1>3
  <2>2. QED
    BY <1>2, <2>1, UsableUnfolds, ZenonT(60)
<1>6. \A x : Counts(x, P) <=> Counts(x, Q)
  BY DEF Counts
<1>7. /\ f[0] = <<>> /\ g[0] = <<>>
      /\ \A k \in 1..n : f[k] = IF Counts(o[k], P) THEN Append(f[k - 1], o[k]) ELSE f[k - 1]
      /\ \A k \in 1..n : g[k] = IF Counts(o[k], Q) THEN Append(g[k - 1], o[k]) ELSE g[k - 1]
  BY <1>4, <1>5 DEF PushedFrom
<1> DEFINE T == {k \in Nat : k <= n => f[k] = g[k]}
<1>8. 0 \in T
  BY <1>7
<1>9. \A k \in Nat : k \in T => k + 1 \in T
  <2> SUFFICES ASSUME NEW k \in Nat, k \in T, k + 1 <= n PROVE f[k + 1] = g[k + 1]
    OBVIOUS
  <2>1. k + 1 \in 1..n /\ (k + 1) - 1 = k /\ f[k] = g[k]
    OBVIOUS
  <2>2. QED
    <3>1. PICK j \in 1..n : j = k + 1 /\ j - 1 = k
      BY <2>1
    <3>2. PICK t : t = f[k] /\ t = g[k]
      BY <2>1
    <3>3. f[j] = IF Counts(o[j], P) THEN Append(t, o[j]) ELSE t
      BY <1>7, <3>1, <3>2
    <3>4. g[j] = IF Counts(o[j], Q) THEN Append(t, o[j]) ELSE t
      BY <1>7, <3>1, <3>2
    <3>5. f[j] = g[j]
      BY <1>6, <3>3, <3>4
    <3>6. QED
      BY <3>1, <3>5
<1>10. Nat \subseteq T
  <2> HIDE DEF T
  <2> QED
    BY <1>8, <1>9, Induction
<1>11. QED
  BY <1>4, <1>5, <1>10

\* What a claim is attributed changes with the price of its own predicate only.
LEMMA RepricingShows ==
    ASSUME NEW predicate \in DOMAIN Vocabulary, NEW e, e.predicate \in DOMAIN Vocabulary,
           NEW P, P = buildSyntheticPolicy, NEW Q, Q = Repriced(predicate)
    PROVE  contribution(e, P) # contribution(e, Q) <=> e.predicate = predicate
<1>1. PICK q \in DOMAIN Vocabulary : q = e.predicate
  OBVIOUS
<1>2. PICK w : w = syntheticWeight(q)
  OBVIOUS
<1>3. w \in 1200..2400
  <2>1. PICK n \in Nat : n = Vocabulary[q].length
    BY ClaimsAssumption
  <2>2. n % 5 \in 0..4
    OBVIOUS
  <2>3. QED
    BY <1>2, <2>1, <2>2 DEF syntheticWeight
<1>4. P.weights[q].weight = w
  <2>1. PICK weight : weight = [d \in DOMAIN Vocabulary |-> syntheticWeight(d)]
    OBVIOUS
  <2>2. P = PolicyPaying(weight) /\ weight[q] = w
    BY <1>2, <2>1 DEF buildSyntheticPolicy
  <2>3. QED
    BY <2>2, PolicyFacts
<1>5. Q.weights[q].weight = w + IF q = predicate THEN 5000 ELSE 0
  <2>1. PICK weight : weight = [d \in DOMAIN Vocabulary |->
                                   syntheticWeight(d) + IF d = predicate THEN 5000 ELSE 0]
    OBVIOUS
  <2>2. Q = PolicyPaying(weight) /\ weight[q] = w + IF q = predicate THEN 5000 ELSE 0
    BY <1>2, <2>1 DEF Repriced
  <2>3. QED
    BY <2>2, PolicyFacts
<1>6. PICK x, y : x = P.weights[q].weight /\ y = Q.weights[q].weight
  OBVIOUS
<1>7. x \in Int /\ y \in Int /\ 0 <= x /\ x <= 10000 /\ 0 <= y /\ y <= 10000
  <2>1. w \in Int /\ 1200 <= w /\ w <= 2400 /\ x = w
    BY <1>3, <1>4, <1>6
  <2>2. y = w + 5000 \/ y = w + 0
    BY <1>5, <1>6
  <2>3. QED
    BY ONLY <2>1, <2>2
<1>8. x # y <=> q = predicate
  <2>1. w \in Int /\ x = w
    BY <1>3, <1>4, <1>6
  <2>2. CASE q = predicate
    <3>1. y = w + 5000
      BY <1>5, <1>6, <2>2
    <3>2. x # y
      BY ONLY <2>1, <3>1
    <3>3. QED
      BY <2>2, <3>2
  <2>3. CASE q # predicate
    <3>1. y = w + 0
      BY <1>5, <1>6, <2>3
    <3>2. x = y
      BY ONLY <2>1, <3>1
    <3>3. QED
      BY <2>3, <3>2
  <2>4. QED
    BY <2>2, <2>3
<1>9. MaxInt \in Nat /\ MaxInt >= 10000
  BY KernelAssumption, LedgerAssumption
<1>10. PICK sign : sign = Sign(e) /\ (sign = 1 \/ sign = -1)
  BY DEF Sign
<1>11. contribution(e, P) = SatMul(x, sign) /\ contribution(e, Q) = SatMul(y, sign)
  BY <1>1, <1>6, <1>10 DEF contribution
<1>12. PICK f, g : f = contribution(e, P) /\ g = contribution(e, Q)
  OBVIOUS
<1>13. (f = x /\ g = y) \/ (f = -x /\ g = -y)
  <2>1. SatMul(x, 1) = x /\ SatMul(x, -1) = -x
    BY <1>7, <1>9 DEF SatMul, Clamp, MinInt
  <2>2. SatMul(y, 1) = y /\ SatMul(y, -1) = -y
    BY <1>7, <1>9 DEF SatMul, Clamp, MinInt
  <2>3. CASE sign = 1
    BY <1>11, <1>12, <2>1, <2>2, <2>3
  <2>4. CASE sign = -1
    BY <1>11, <1>12, <2>1, <2>2, <2>4
  <2>5. QED
    BY <1>10, <2>3, <2>4
<1>14. f # g <=> x # y
  <2>1. x \in Int /\ y \in Int
    BY <1>7
  <2>2. QED
    BY ONLY <1>13, <2>1
<1>15. QED
  BY <1>1, <1>8, <1>12, <1>14

\* Every row of every sweep is explained by what it shows.
LEMMA SweepsAreExplained == ExplainedSweeps = 0..MaxRestarts
<1> SUFFICES ASSUME NEW p \in 0..MaxRestarts, NEW d \in DriftOf[p] PROVE Explained(d, p)
  BY DEF ExplainedSweeps
<1>1. PICK L : L = LedgerOf[p]
  OBVIOUS
<1>2. PICK i : /\ i \in 0..Len(L) - 1
               /\ d \in computeDriftForCase(L[i + 1].manifest,
                           generateClaims(L[i + 1].manifest.investigation, p),
                           (i % Len(RawClaims[L[i + 1].manifest.investigation])) + 1)
  BY <1>1 DEF DriftOf, buildDrift, DriftRows
<1>3. PICK m, c, idx, s : /\ m = L[i + 1].manifest /\ c = m.investigation
                          /\ s = generateClaims(c, p) /\ idx = (i % Len(RawClaims[c])) + 1
  OBVIOUS
<1>4. c \in Cases /\ m = SealedOf(c, p).manifest
  <2>1. Len(L) \in Nat /\ L \in Seq(Range(L))
    BY <1>1, LedgerFacts
  <2>2. i + 1 \in DOMAIN L
    BY <1>2, <2>1, LenProperties
  <2>3. QED
    BY <1>1, <1>3, <2>2, ListedManifests
<1>5. PICK none \in BOOLEAN : none = FALSE
  OBVIOUS
<1>6. s = ClaimsOf(c, p, none)
  BY <1>3, <1>5 DEF generateClaims
<1>7. idx \in DOMAIN s
  <2>1. PICK n \in Nat : n = Len(RawClaims[c]) /\ n > 0 /\ DOMAIN RawClaims[c] = 1..n
    BY <1>4, RawClaimFacts
  <2>2. i \in Nat
    BY <1>2
  <2>3. i % n \in 0..n - 1
    <3>1. i \in Int /\ n \in Int /\ n > 0
      BY <2>1, <2>2
    <3>2. QED
      BY ONLY <3>1
  <2>4. idx = (i % n) + 1 /\ (i % n) + 1 \in 1..n
    BY <1>3, <2>1, <2>3
  <2>5. QED
    BY <1>6, <2>1, <2>4 DEF ClaimsOf
<1>8. \A j \in DOMAIN s : s[j].predicate \in DOMAIN Vocabulary
  BY <1>4, <1>6, RawClaimFacts DEF ClaimsOf
<1>9. PICK P, Q, w1, w2, pr :
         /\ pr = s[idx].predicate
         /\ w1 = [e \in DOMAIN Vocabulary |-> syntheticWeight(e)]
         /\ w2 = [e \in DOMAIN Vocabulary |-> syntheticWeight(e) + IF e = pr THEN 5000 ELSE 0]
         /\ P = PolicyPaying(w1) /\ Q = PolicyPaying(w2)
         /\ P = buildSyntheticPolicy /\ Q = Repriced(pr)
  <2>1. PICK pr : pr = s[idx].predicate
    OBVIOUS
  <2>2. PICK w1, w2 : /\ w1 = [e \in DOMAIN Vocabulary |-> syntheticWeight(e)]
                      /\ w2 = [e \in DOMAIN Vocabulary |->
                                  syntheticWeight(e) + IF e = pr THEN 5000 ELSE 0]
    OBVIOUS
  <2>3. buildSyntheticPolicy = PolicyPaying(w1) /\ Repriced(pr) = PolicyPaying(w2)
    BY <2>2 DEF buildSyntheticPolicy, Repriced
  <2>4. QED
    BY <2>1, <2>2, <2>3
<1>10. PICK u, old, new : u = Usable(s, Scoring(P)) /\ old = Ask(s, P).verdict /\ new = Ask(s, Q).verdict
  OBVIOUS
<1>11. u = Usable(s, Scoring(Q))
  <2>1. DOMAIN Scoring(P).weights = DOMAIN Vocabulary /\ DOMAIN Scoring(Q).weights = DOMAIN Vocabulary
    <3>1. P = PolicyPaying(w1) /\ Q = PolicyPaying(w2)
      BY <1>9
    <3>2. QED
      BY ONLY <3>1, PolicyFacts
  <2>2. s \in Seq(Range(s)) /\ \A j \in DOMAIN s : s[j].id \in Int
    BY <1>4, <1>6, ClaimsOfFacts
  <2>3. \A e \in Range(s) : claim_id(e) \in Int
    BY <2>2 DEF Range, claim_id
  <2>4. QED
    BY <1>10, <2>1, <2>2, <2>3, UsableIgnoresPrices
<1>12. /\ \A k \in DOMAIN u : \E j \in DOMAIN s : s[j] = u[k]
       /\ \A j \in DOMAIN s : \E k \in DOMAIN u : u[k] = s[j]
       /\ old.contributing_claims = [k \in DOMAIN u |->
             [claim_id |-> u[k].id, predicate |-> u[k].predicate,
              attributed_weight |-> contribution(u[k], P)]]
  <2>1. P = PolicyPaying(w1) /\ u = Usable(s, Scoring(P)) /\ old = Ask(s, P).verdict
    BY <1>9, <1>10
  <2>2. QED
    BY ONLY AskFacts, <1>4, <1>6, <2>1, p \in 0..MaxRestarts, none \in BOOLEAN
<1>13. /\ new.contributing_claims = [k \in DOMAIN u |->
             [claim_id |-> u[k].id, predicate |-> u[k].predicate,
              attributed_weight |-> contribution(u[k], Q)]]
       /\ \A j \in DOMAIN s : Ask(s, Q).submitted_claim_ids[j] = s[j].id
  <2>1. Q = PolicyPaying(w2) /\ u = Usable(s, Scoring(Q)) /\ new = Ask(s, Q).verdict
    BY <1>9, <1>10, <1>11
  <2>2. QED
    BY ONLY AskFacts, <1>4, <1>6, <2>1, p \in 0..MaxRestarts, none \in BOOLEAN
<1>14. d = [case |-> m.investigation, predicate |-> pr,
            responsible |-> Ask(s, Q).submitted_claim_ids[idx],
            before |-> old, after |-> new, old_verdict_hash |-> m.verdict_hash]
  <2>1. d \in DriftRow(m, pr, idx, Ask(s, P), Ask(s, Q))
    BY <1>2, <1>3, <1>9 DEF computeDriftForCase
  <2>2. QED
    BY <1>10, <2>1 DEF DriftRow, Responsible
<1>15. PICK before, after : before = d.before.contributing_claims /\ after = d.after.contributing_claims
  OBVIOUS
<1>16. before = old.contributing_claims /\ after = new.contributing_claims /\ DOMAIN after = DOMAIN u
  BY <1>13, <1>14, <1>15
<1>17. \E k \in DOMAIN after : after[k].claim_id = d.responsible /\ after[k].predicate = d.predicate
  <2>1. PICK k \in DOMAIN u : u[k] = s[idx]
    BY <1>7, <1>12
  <2>2. d.responsible = s[idx].id /\ d.predicate = s[idx].predicate
    BY <1>7, <1>9, <1>13, <1>14
  <2>3. QED
    BY <1>13, <1>16, <2>1, <2>2
<1>18. Len(before) = Len(after)
  <2>1. before \in Seq(Range(before)) /\ after \in Seq(Range(after)) /\ DOMAIN before = DOMAIN after
    <3>1. PICK D : D = Range(s) /\ \A e \in D : claim_id(e) \in Int
      <4>1. \A j \in DOMAIN s : s[j].id \in Int
        BY <1>4, <1>6, ClaimsOfFacts
      <4>2. \A e \in Range(s) : claim_id(e) \in Int
        BY <4>1 DEF Range, claim_id
      <4>3. QED
        BY <4>2
    <3>2. s \in Seq(D)
      BY <1>4, <1>6, <3>1, ClaimsOfFacts
    <3>3. u \in Seq(Counted(D, Scoring(P)))
      BY <1>10, <3>1, <3>2, UsableHoldsCounted
    <3>4. PICK n \in Nat : DOMAIN u = 1..n
      BY <3>3, LenProperties
    <3>5. before \in [1..n -> Range(before)] /\ after \in [1..n -> Range(after)]
      BY <1>12, <1>13, <1>16, <3>4 DEF Range
    <3>6. QED
      BY <3>5, SeqDef
  <2>2. QED
    BY <2>1, LenProperties
<1>19. ASSUME NEW k \in DOMAIN after
       PROVE  /\ before[k].claim_id = after[k].claim_id
              /\ (before[k].attributed_weight # after[k].attributed_weight)
                     = (after[k].predicate = d.predicate)
  <2>1. k \in DOMAIN u
    BY <1>16
  <2>2. u[k].predicate \in DOMAIN Vocabulary /\ pr \in DOMAIN Vocabulary
    BY <1>7, <1>8, <1>9, <1>12, <2>1
  <2>3. contribution(u[k], P) # contribution(u[k], Q) <=> u[k].predicate = pr
    BY <1>9, <2>2, RepricingShows
  <2>4. /\ before[k].claim_id = u[k].id /\ before[k].attributed_weight = contribution(u[k], P)
        /\ after[k].claim_id = u[k].id /\ after[k].attributed_weight = contribution(u[k], Q)
        /\ after[k].predicate = u[k].predicate
    BY <1>12, <1>13, <1>16, <2>1
  <2>5. d.predicate = pr
    BY <1>14
  <2>6. QED
    BY <2>3, <2>4, <2>5
<1>20. d.old_verdict_hash = SealedOf(d.case, p).manifest.verdict_hash
  BY <1>3, <1>4, <1>14
<1>21. QED
  BY <1>15, <1>17, <1>18, <1>19, <1>20 DEF Explained

-----------------------------------------------------------------------------
(* The pages and the panel: the inductive invariant.                       *)

\* A promise, a step, and where a verification may be.
Promises == {"none", "built", "failed"}
Statuses == {"pending", "active", "done", "failed"}
Stages == {"fetch", "evidence", "kernel", "result"}

Processes == 0..MaxRestarts

Runs == [id : Nat, mounted : BOOLEAN, case : Cases, process : Processes, tamper : BOOLEAN,
         at : Stages, claimsOf : Processes \cup {None}, left : SUBSET Nat, refused : {FALSE}]

TypeInv ==
    /\ server \in [process : Processes, wasm : BOOLEAN, ledger : Promises, drift : Promises]
    /\ page \in [manifests : Processes \cup {None}, selected : Cases \cup {None}]
    /\ kernel = [state |-> kernel.state, result |-> kernel.result]
    /\ panel = [steps |-> panel.steps, result |-> panel.result, running |-> panel.running,
                about |-> panel.about]
    /\ panel.steps \in [Steps -> Statuses] /\ panel.running \in BOOLEAN
    /\ runs \in SUBSET Runs
    /\ drift \in Processes \cup {None}
    /\ started \in Nat

\* A case is shown only out of a list of manifests.
PageInv ==
    /\ page.selected # None => page.manifests \in Processes
    /\ panel.result # "idle" => page.selected # None /\ panel.about.process \in Processes

\* The manifests on screen are of a process that has been.
ManifestsOfThePast == page.manifests \in Processes => page.manifests <= server.process

\* Past its first request, a run has the claims of a process, and evidence of its
\* case to check.
RunOK(r) == r.at # "fetch" => r.claimsOf \in Processes /\ r.left \in SUBSET Evidence(r.case)

\* The panel shows the progress of a run that is mounted.
Shown(r) ==
    r.mounted =>
        /\ panel.running /\ panel.result = "idle"
        /\ page.selected # None /\ r.case = page.selected /\ r.process <= page.manifests
        /\ panel.steps["evidence"] # "failed" /\ panel.steps["compare"] # "failed"
        /\ r.at = "evidence" => panel.steps["fetch"] = "done"
        /\ r.at \in {"kernel", "result"} =>
              panel.steps["fetch"] = "done" /\ panel.steps["evidence"] = "done"

\* What is in RESULT is what the run that is about to read it asked for.
Answered(r) == r.at = "result" => kernel.result = VerdictHash[r.case][r.claimsOf][r.tamper]

\* One run at a time has the panel, and one has the kernel.
Alone ==
    \A r, s \in runs :
        (r.mounted /\ s.mounted) \/ (r.at = "result" /\ s.at = "result") => r = s

LedgerInv ==
    /\ TypeInv /\ PageInv /\ Alone
    /\ \A r \in runs : RunOK(r) /\ Shown(r) /\ Answered(r)
    /\ SealIsEarned /\ AlarmsAreReal

\* The rest of the invariant, on the runs.
RunsInv ==
    /\ runs \in SUBSET Runs /\ Alone
    /\ \A r \in runs : RunOK(r) /\ Shown(r) /\ Answered(r)

LEMMA InitGivesLedgerInv == Init => LedgerInv
<1> SUFFICES ASSUME Init PROVE LedgerInv
  OBVIOUS
<1>1. 0 \in Processes
  BY LedgerAssumption DEF Processes
<1>2. IdlePanel.result = "idle" /\ IdlePanel.steps \in [Steps -> Statuses]
  BY DEF IdlePanel, INITIAL_STEPS, Statuses
<1>3. TypeInv
  BY <1>1, <1>2 DEF Init, TypeInv, IdlePanel, Promises
<1>4. QED
  BY <1>2, <1>3 DEF Init, LedgerInv, PageInv, Alone, SealIsEarned, AlarmsAreReal

\* A run goes on: the others are not mounted if it is, and none reads RESULT.
LEMMA ReplaceKeeps ==
    ASSUME LedgerInv, BetweenTasks, NEW r \in runs, NEW s \in Runs, Replace(r, s),
           s.mounted = r.mounted, UNCHANGED page, RunOK(s), Shown(s)', Answered(s)',
           r.mounted \/ UNCHANGED panel
    PROVE  RunsInv'
<1>1. runs' = (runs \ {r}) \cup {s}
  BY DEF Replace
<1>2. runs' \in SUBSET Runs
  BY <1>1 DEF LedgerInv, TypeInv
<1>3. Alone'
  BY <1>1 DEF LedgerInv, Alone, BetweenTasks
<1>4. ASSUME NEW x \in runs', x # s PROVE RunOK(x) /\ Shown(x)' /\ Answered(x)'
  <2>1. x \in runs /\ x # r /\ x.at # "result"
    BY <1>1, <1>4 DEF BetweenTasks
  <2>2. RunOK(x) /\ Answered(x)'
    BY <2>1 DEF LedgerInv, Answered
  <2>3. Shown(x)'
    <3>1. CASE r.mounted
      BY <2>1, <3>1 DEF LedgerInv, Alone, Shown
    <3>2. CASE UNCHANGED panel
      BY <2>1, <3>2 DEF LedgerInv, Shown
    <3>3. QED
      BY <3>1, <3>2
  <2>4. QED
    BY <2>2, <2>3
<1>5. \A x \in runs' : RunOK(x) /\ Shown(x)' /\ Answered(x)'
  BY <1>4
<1>6. QED
  BY <1>2, <1>3, <1>5 DEF RunsInv, RunOK

\* A run ends.
LEMMA RemoveKeeps ==
    ASSUME LedgerInv, NEW r \in runs, runs' = runs \ {r}, UNCHANGED <<page, kernel>>,
           r.mounted \/ UNCHANGED panel
    PROVE  RunsInv'
<1>1. runs' \in SUBSET Runs
  BY DEF LedgerInv, TypeInv
<1>2. Alone'
  BY DEF LedgerInv, Alone
<1>3. ASSUME NEW x \in runs' PROVE RunOK(x) /\ Shown(x)' /\ Answered(x)'
  <2>1. x \in runs /\ x # r
    OBVIOUS
  <2>2. RunOK(x) /\ Answered(x)'
    BY <2>1 DEF LedgerInv, Answered
  <2>3. Shown(x)'
    <3>1. CASE r.mounted
      BY <2>1, <3>1 DEF LedgerInv, Alone, Shown
    <3>2. CASE UNCHANGED panel
      BY <2>1, <3>2 DEF LedgerInv, Shown
    <3>3. QED
      BY <3>1, <3>2
  <2>4. QED
    BY <2>2, <2>3
<1>4. QED
  BY <1>1, <1>2, <1>3 DEF RunsInv, RunOK

\* A request leaves the server in its process, with a ledger promised.
LEMMA AskLedgerKeeps ==
    ASSUME LedgerInv, AskLedger
    PROVE  /\ server' \in [process : Processes, wasm : BOOLEAN, ledger : Promises, drift : Promises]
           /\ server.process \in Processes
BY DEF LedgerInv, TypeInv, AskLedger, Promised, Promises

\* Nothing in the browser changes.
LEMMA ServerSteps ==
    ASSUME LedgerInv, UNCHANGED <<page, kernel, panel, runs, started>>,
           server' \in [process : Processes, wasm : BOOLEAN, ledger : Promises, drift : Promises],
           drift' \in Processes \cup {None}
    PROVE  LedgerInv'
<1>1. TypeInv'
  BY DEF LedgerInv, TypeInv
<1>2. PageInv' /\ SealIsEarned' /\ AlarmsAreReal'
  BY DEF LedgerInv, PageInv, SealIsEarned, AlarmsAreReal
<1>3. Alone' /\ \A r \in runs' : RunOK(r) /\ Shown(r)' /\ Answered(r)'
  BY DEF LedgerInv, Alone, Shown, Answered
<1>4. QED
  BY <1>1, <1>2, <1>3 DEF LedgerInv, RunOK

LEMMA fetchManifestsKeeps ==
    ASSUME LedgerInv, ManifestsOfThePast, fetchManifests
    PROVE  LedgerInv'
<1>1. PICK p : p = server.process /\ p \in Processes
  BY AskLedgerKeeps DEF fetchManifests
<1>2. PICK first : first = LedgerOf[p][1].manifest.investigation
  OBVIOUS
<1>3. LedgerOf[p] # << >> => first \in Cases
  <2>1. PICK L : L = LedgerOf[p]
    OBVIOUS
  <2>2. Len(L) \in Nat /\ L \in Seq(Range(L))
    BY <1>1, <2>1, LedgerFacts DEF Processes
  <2>3. L # << >> => 1 \in DOMAIN L
    BY <2>2, LenProperties, EmptySeq
  <2>4. ASSUME NEW k \in DOMAIN L PROVE L[k].manifest.investigation \in Cases
    BY <1>1, <2>1, ListedManifests DEF Processes
  <2>5. QED
    BY <1>2, <2>1, <2>3, <2>4
<1>4. \/ page' = page
      \/ /\ page'.manifests = p /\ page.selected # None /\ page'.selected = page.selected
         /\ page' = [manifests |-> page'.manifests, selected |-> page'.selected]
      \/ /\ page'.manifests = p /\ page.selected = None /\ page'.selected \in Cases \cup {None}
         /\ page' = [manifests |-> page'.manifests, selected |-> page'.selected]
  <2>1. page = [manifests |-> page.manifests, selected |-> page.selected]
    BY DEF LedgerInv, TypeInv
  <2>2. page' = page \/ page' = [manifests |-> p, selected |-> IF page.selected # None \/ LedgerOf[p] = << >>
                                                                 THEN page.selected ELSE first]
    BY <1>1, <1>2, <2>1 DEF fetchManifests
  <2>3. QED
    BY <1>3, <2>2
<1>5. TypeInv'
  BY <1>1, <1>4, AskLedgerKeeps DEF LedgerInv, TypeInv, fetchManifests
<1>6. UNCHANGED <<kernel, panel, runs, drift, started>>
  BY DEF fetchManifests
<1>7. page.selected = None => panel.result = "idle" /\ \A r \in runs : ~r.mounted
  BY DEF LedgerInv, PageInv, Shown, TypeInv, Runs
<1>8. page.selected # None => page'.selected = page.selected
  BY <1>4
<1>9. page.selected # None => /\ page.manifests \in Int /\ page'.manifests \in Int
                              /\ page.manifests <= page'.manifests
  BY <1>1, <1>4 DEF LedgerInv, PageInv, ManifestsOfThePast, Processes
<1>10. PageInv' /\ AlarmsAreReal'
  BY <1>1, <1>4, <1>6, <1>7, <1>8 DEF LedgerInv, PageInv, AlarmsAreReal
<1>11. SealIsEarned'
  <2>1. panel.result = "match" => panel.about.process \in Int
    BY DEF LedgerInv, PageInv, Processes
  <2>2. QED
    BY <1>6, <1>7, <1>8, <1>9, <2>1 DEF LedgerInv, SealIsEarned
<1>12. \A r \in runs : r.process \in Int
  <2>1. \A r \in Runs : r.process \in Processes
    BY DEF Runs
  <2>2. QED
    BY <2>1 DEF LedgerInv, TypeInv, Processes
<1>13. Alone' /\ \A r \in runs' : RunOK(r) /\ Shown(r)' /\ Answered(r)'
  BY <1>6, <1>7, <1>8, <1>9, <1>12 DEF LedgerInv, Alone, Shown, Answered
<1>14. QED
  BY <1>5, <1>10, <1>11, <1>13 DEF LedgerInv, RunOK

\* The server's own steps, and what is fetched of drift.
LEMMA ServerKeeps ==
    ASSUME LedgerInv, fetchDrift \/ Restart \/ WasmAppears
    PROVE  LedgerInv'
<1> DEFINE Server == [process : Processes, wasm : BOOLEAN, ledger : Promises, drift : Promises]
<1>1. server \in Server /\ drift \in Processes \cup {None}
  BY DEF LedgerInv, TypeInv
<1>2. CASE fetchDrift
  <2>1. server' \in Server /\ server.process \in Processes
    BY <1>1, <1>2 DEF fetchDrift, Promised, Promises
  <2>2. drift' \in Processes \cup {None}
    BY <1>1, <1>2, <2>1 DEF fetchDrift
  <2>3. QED
    BY <1>2, <2>1, <2>2, ServerSteps DEF fetchDrift
<1>3. CASE Restart
  <2>1. server.process + 1 \in Processes
    BY <1>1, <1>3, LedgerAssumption DEF Restart, Processes
  <2>2. server' \in Server
    BY <1>3, <2>1 DEF Restart, Promises
  <2>3. QED
    BY <1>1, <1>3, <2>2, ServerSteps DEF Restart
<1>4. CASE WasmAppears
  <2>1. server' \in Server
    BY <1>1, <1>4 DEF WasmAppears
  <2>2. QED
    BY <1>1, <1>4, <2>1, ServerSteps DEF WasmAppears
<1>5. QED
  BY <1>2, <1>3, <1>4

LEMMA KernelLoadsKeeps ==
    ASSUME LedgerInv, KernelLoads
    PROVE  LedgerInv'
<1>1. kernel'.result = kernel.result /\ kernel' = [state |-> kernel'.state, result |-> kernel'.result]
  BY DEF LedgerInv, TypeInv, KernelLoads
<1>2. UNCHANGED <<server, page, panel, runs, drift, started>>
  BY DEF KernelLoads
<1>3. TypeInv' /\ PageInv' /\ SealIsEarned' /\ AlarmsAreReal'
  BY <1>1, <1>2 DEF LedgerInv, TypeInv, PageInv, SealIsEarned, AlarmsAreReal
<1>4. Alone' /\ \A r \in runs' : RunOK(r) /\ Shown(r)' /\ Answered(r)'
  BY <1>1, <1>2 DEF LedgerInv, Alone, Shown, Answered
<1>5. QED
  BY <1>3, <1>4 DEF LedgerInv, RunOK

\* Another manifest: the panel starts anew, and no run has it.
LEMMA SelectionKeeps ==
    ASSUME LedgerInv, NEW c \in Opened, onSelect(c)
    PROVE  LedgerInv'
<1>1. c \in Cases
  BY LedgerAssumption
<1>2. page' = [manifests |-> page.manifests, selected |-> c] /\ page.manifests \in Processes
  BY DEF LedgerInv, TypeInv, onSelect, Listed
<1>3. /\ panel' = IdlePanel /\ UNCHANGED <<server, kernel, drift, started>>
      /\ IdlePanel.result = "idle" /\ IdlePanel.steps \in [Steps -> Statuses]
      /\ runs' = {[r EXCEPT !.mounted = FALSE] : r \in runs}
  BY DEF onSelect, IdlePanel, INITIAL_STEPS, Statuses
<1>4. ASSUME NEW s \in runs'
      PROVE  \E r \in runs :
                /\ s = [r EXCEPT !.mounted = FALSE]
                /\ s \in Runs /\ ~s.mounted /\ s.at = r.at /\ s.claimsOf = r.claimsOf
                /\ s.left = r.left /\ s.case = r.case /\ s.tamper = r.tamper
  <2>1. PICK r \in runs : s = [r EXCEPT !.mounted = FALSE]
    BY <1>3
  <2>2. r \in Runs
    BY DEF LedgerInv, TypeInv
  <2>3. QED
    BY <2>1, <2>2 DEF Runs
<1>5. TypeInv'
  <2>1. runs' \in SUBSET Runs
    BY <1>4
  <2>2. QED
    BY <1>1, <1>2, <1>3, <2>1 DEF LedgerInv, TypeInv, IdlePanel
<1>6. PageInv' /\ SealIsEarned' /\ AlarmsAreReal'
  BY <1>2, <1>3 DEF PageInv, SealIsEarned, AlarmsAreReal
<1>7. ASSUME NEW s \in runs' PROVE RunOK(s) /\ Shown(s)' /\ Answered(s)'
  <2>1. PICK r \in runs : /\ ~s.mounted /\ s.at = r.at /\ s.claimsOf = r.claimsOf
                          /\ s.left = r.left /\ s.case = r.case /\ s.tamper = r.tamper
    BY <1>4
  <2>2. RunOK(r) /\ Answered(r) /\ kernel' = kernel
    BY <1>3 DEF LedgerInv
  <2>3. QED
    BY <2>1, <2>2 DEF RunOK, Shown, Answered
<1>8. Alone'
  <2> SUFFICES ASSUME NEW s \in runs', NEW t \in runs', s.at = "result", t.at = "result" PROVE s = t
    BY <1>4 DEF Alone
  <2>1. PICK q \in runs : s = [q EXCEPT !.mounted = FALSE] /\ s.at = q.at
    BY <1>4
  <2>2. PICK r \in runs : t = [r EXCEPT !.mounted = FALSE] /\ t.at = r.at
    BY <1>4
  <2>3. q = r
    BY <2>1, <2>2 DEF LedgerInv, Alone
  <2>4. QED
    BY <2>1, <2>2, <2>3
<1>9. QED
  BY <1>5, <1>6, <1>7, <1>8 DEF LedgerInv, RunOK

\* The button: a new run, on a panel that has none.
LEMMA runVerificationKeeps ==
    ASSUME LedgerInv, BetweenTasks, NEW tamper \in BOOLEAN, runVerification(tamper)
    PROVE  LedgerInv'
<1>1. PICK s : s = [id |-> started + 1, mounted |-> TRUE, case |-> page.selected,
                    process |-> page.manifests, tamper |-> tamper, at |-> "fetch",
                    claimsOf |-> None, left |-> {}, refused |-> FALSE]
  OBVIOUS
<1>2. /\ runs' = runs \cup {s} /\ page.selected # None /\ ~panel.running
      /\ UNCHANGED <<server, page, kernel, drift>> /\ started' = started + 1
  BY <1>1 DEF runVerification, CanRun
<1>3. s \in Runs
  <2>1. started + 1 \in Nat /\ page.selected \in Cases /\ page.manifests \in Processes
    BY <1>2 DEF LedgerInv, TypeInv, PageInv
  <2>2. {} \in SUBSET Nat
    OBVIOUS
  <2>3. QED
    BY <1>1, <2>1, <2>2 DEF Runs, Stages
<1>4. PICK steps : /\ panel' = [steps |-> steps, result |-> "idle", running |-> TRUE, about |-> None]
                   /\ steps \in [Steps -> Statuses]
                   /\ steps["evidence"] # "failed" /\ steps["compare"] # "failed"
  <2>1. [INITIAL_STEPS EXCEPT !["fetch"] = "active"] \in [Steps -> Statuses]
    BY DEF INITIAL_STEPS, Statuses
  <2>2. /\ [INITIAL_STEPS EXCEPT !["fetch"] = "active"]["evidence"] = "pending"
        /\ [INITIAL_STEPS EXCEPT !["fetch"] = "active"]["compare"] = "pending"
    BY DEF INITIAL_STEPS, Steps
  <2>3. QED
    BY <2>1, <2>2 DEF runVerification
<1>5. TypeInv'
  <2>1. runs' \in SUBSET Runs /\ started' \in Nat
    BY <1>2, <1>3 DEF LedgerInv, TypeInv
  <2>2. QED
    BY <1>2, <1>4, <2>1 DEF LedgerInv, TypeInv
<1>6. PageInv' /\ SealIsEarned' /\ AlarmsAreReal'
  BY <1>2, <1>4 DEF LedgerInv, PageInv, SealIsEarned, AlarmsAreReal
<1>7. \A r \in runs : ~r.mounted
  BY <1>2 DEF LedgerInv, Shown
<1>8. Alone'
  BY <1>1, <1>2, <1>7 DEF LedgerInv, Alone, BetweenTasks
<1>9. RunOK(s) /\ Shown(s)' /\ Answered(s)'
  <2>1. page.manifests \in Int
    BY <1>2 DEF LedgerInv, PageInv, Processes
  <2>2. QED
    BY <1>1, <1>2, <1>4, <2>1 DEF RunOK, Shown, Answered
<1>10. ASSUME NEW r \in runs PROVE RunOK(r) /\ Shown(r)' /\ Answered(r)'
  BY <1>2, <1>7 DEF LedgerInv, Shown, Answered
<1>11. QED
  BY <1>2, <1>5, <1>6, <1>8, <1>9, <1>10 DEF LedgerInv, RunOK

\* A step done, for the panel.
LEMMA ProceedFacts ==
    ASSUME LedgerInv, NEW r \in runs, NEW done \in Steps, NEW next \in Steps, done # next,
           Proceed(r, done, next)
    PROVE  /\ r.mounted \/ UNCHANGED panel
           /\ panel' = [steps |-> panel'.steps, result |-> panel'.result, running |-> panel'.running,
                        about |-> panel'.about]
           /\ panel'.steps \in [Steps -> Statuses]
           /\ panel'.running = panel.running /\ panel'.result = panel.result /\ panel'.about = panel.about
           /\ r.mounted => /\ panel'.steps[done] = "done" /\ panel'.steps[next] = "active"
                           /\ \A s \in Steps \ {done, next} : panel'.steps[s] = panel.steps[s]
<1>1. r.mounted \in BOOLEAN
  BY DEF LedgerInv, TypeInv, Runs
<1>2. /\ panel = [steps |-> panel.steps, result |-> panel.result, running |-> panel.running,
                  about |-> panel.about]
      /\ panel.steps \in [Steps -> Statuses]
  BY DEF LedgerInv, TypeInv
<1>3. CASE r.mounted
  <2>1. PICK steps : steps = [panel.steps EXCEPT ![done] = "done", ![next] = "active"]
    OBVIOUS
  <2>2. steps \in [Steps -> Statuses] /\ steps[done] = "done" /\ steps[next] = "active"
        /\ \A s \in Steps \ {done, next} : steps[s] = panel.steps[s]
    BY <1>2, <2>1 DEF Statuses
  <2>3. panel' = [panel EXCEPT !.steps = steps]
    BY <1>3, <2>1 DEF Proceed
  <2>4. panel' = [steps |-> steps, result |-> panel.result, running |-> panel.running,
                  about |-> panel.about]
    BY <1>2, <2>3
  <2>5. QED
    BY <1>3, <2>2, <2>4
<1>4. CASE ~r.mounted
  BY <1>2, <1>4 DEF Proceed
<1>5. QED
  BY <1>1, <1>3, <1>4

\* Where the panel keeps its result, so do the properties.
LEMMA SameResult ==
    ASSUME LedgerInv, UNCHANGED page, panel'.result = panel.result, panel'.about = panel.about,
           panel'.result = "idle" \/ UNCHANGED panel
    PROVE  PageInv' /\ SealIsEarned' /\ AlarmsAreReal'
<1>1. CASE panel'.result = "idle"
  BY <1>1 DEF LedgerInv, PageInv, SealIsEarned, AlarmsAreReal
<1>2. CASE UNCHANGED panel
  BY <1>2 DEF LedgerInv, PageInv, SealIsEarned, AlarmsAreReal
<1>3. QED
  BY <1>1, <1>2

\* A run goes on, and the panel shows how far it is.
LEMMA GoingOn ==
    ASSUME LedgerInv, BetweenTasks, NEW r \in runs, NEW s \in Runs, Replace(r, s),
           s.mounted = r.mounted, s.case = r.case, s.process = r.process, RunOK(s), Answered(s)',
           UNCHANGED <<page, drift, started>>,
           server' \in [process : Processes, wasm : BOOLEAN, ledger : Promises, drift : Promises],
           kernel' = [state |-> kernel'.state, result |-> kernel'.result],
           NEW done \in Steps, NEW next \in Steps, done # next, done # "compare", next # "fetch",
           (Proceed(r, done, next) /\ (s.at = "evidence" => done = "fetch")
               /\ (s.at \in {"kernel", "result"} => r.at = "evidence" /\ done = "evidence"))
           \/ (UNCHANGED panel /\ (s.at = r.at \/ (r.at = "kernel" /\ s.at = "result")))
    PROVE  LedgerInv'
<1>1. Shown(r)
  BY DEF LedgerInv
<1>2. CASE Proceed(r, done, next) /\ (s.at = "evidence" => done = "fetch")
           /\ (s.at \in {"kernel", "result"} => r.at = "evidence" /\ done = "evidence")
  <2>1. /\ r.mounted \/ UNCHANGED panel
        /\ panel' = [steps |-> panel'.steps, result |-> panel'.result, running |-> panel'.running,
                     about |-> panel'.about]
        /\ panel'.steps \in [Steps -> Statuses]
        /\ panel'.running = panel.running /\ panel'.result = panel.result /\ panel'.about = panel.about
        /\ r.mounted => /\ panel'.steps[done] = "done" /\ panel'.steps[next] = "active"
                        /\ \A x \in Steps \ {done, next} : panel'.steps[x] = panel.steps[x]
    BY <1>2, ProceedFacts
  <2>2. Shown(s)'
    <3>1. SUFFICES ASSUME r.mounted
                   PROVE  /\ panel'.steps["evidence"] # "failed" /\ panel'.steps["compare"] # "failed"
                          /\ s.at = "evidence" => panel'.steps["fetch"] = "done"
                          /\ s.at \in {"kernel", "result"} =>
                                panel'.steps["fetch"] = "done" /\ panel'.steps["evidence"] = "done"
      BY <1>1, <2>1 DEF Shown
    <3>2. \A x \in Steps : panel'.steps[x] \in {panel.steps[x], "done", "active"}
      BY <2>1, <3>1
    <3>3. panel'.steps["evidence"] # "failed" /\ panel'.steps["compare"] # "failed"
      BY <1>1, <3>1, <3>2 DEF Shown, Steps
    <3>4. s.at = "evidence" => panel'.steps["fetch"] = "done"
      BY <1>2, <2>1, <3>1
    <3>5. s.at \in {"kernel", "result"} => panel'.steps["evidence"] = "done"
      BY <1>2, <2>1, <3>1
    <3>6. s.at \in {"kernel", "result"} => panel'.steps["fetch"] = "done"
      BY <1>1, <1>2, <2>1, <3>1 DEF Shown, Steps
    <3>7. QED
      BY <3>3, <3>4, <3>5, <3>6
  <2>3. RunsInv'
    BY <2>1, <2>2, ReplaceKeeps
  <2>4. panel'.result = "idle" \/ UNCHANGED panel
    BY <1>1, <2>1 DEF Shown
  <2>5. PageInv' /\ SealIsEarned' /\ AlarmsAreReal'
    BY <2>1, <2>4, SameResult
  <2>6. TypeInv'
    BY <2>1, <2>3 DEF LedgerInv, TypeInv, RunsInv
  <2>7. QED
    BY <2>3, <2>5, <2>6 DEF LedgerInv, RunsInv
<1>3. CASE UNCHANGED panel /\ (s.at = r.at \/ (r.at = "kernel" /\ s.at = "result"))
  <2>1. Shown(s)'
    BY <1>1, <1>3 DEF Shown
  <2>2. RunsInv'
    BY <1>3, <2>1, ReplaceKeeps
  <2>3. PageInv' /\ SealIsEarned' /\ AlarmsAreReal'
    BY <1>3 DEF LedgerInv, PageInv, SealIsEarned, AlarmsAreReal
  <2>4. TypeInv'
    BY <1>3, <2>2 DEF LedgerInv, TypeInv, RunsInv
  <2>5. QED
    BY <2>2, <2>3, <2>4 DEF LedgerInv, RunsInv
<1>4. QED
  BY <1>2, <1>3

\* The claims are there, and with them the evidence to check: that of the case.
LEMMA fetchClaimsKeeps ==
    ASSUME LedgerInv, BetweenTasks, NEW r \in runs, fetchClaims(r)
    PROVE  LedgerInv'
<1>1. r \in Runs /\ r.case \in Cases
  BY DEF LedgerInv, TypeInv, Runs
<1>2. PICK p : p = server.process /\ p \in Processes
  BY AskLedgerKeeps DEF fetchClaims
<1>3. PICK c : c = r.case /\ c \in Cases
  BY <1>1
<1>4. PICK E : E = Range(evidenceIds(generateClaims(c, p)))
  OBVIOUS
<1>5. E = Evidence(c) /\ E \in SUBSET Nat
  <2>1. PICK tamper \in BOOLEAN : tamper = FALSE
    OBVIOUS
  <2>2. PICK claim : claim = ClaimsOf(c, p, tamper)
    OBVIOUS
  <2>3. DOMAIN claim = DOMAIN RawClaims[c] /\ \A i \in DOMAIN claim : claim[i].evidence = RawClaims[c][i].evidence
    BY <1>2, <1>3, <2>2, ClaimsOfFacts DEF Processes
  <2>4. PICK ids : ids = evidenceIds(claim)
    OBVIOUS
  <2>5. Range(ids) = Evidence(c) /\ Evidence(c) \in SUBSET Nat
    BY <1>3, <2>3, <2>4, EvidenceIdsOfCase
  <2>6. QED
    BY <1>4, <2>1, <2>2, <2>4, <2>5 DEF generateClaims
<1>6. PICK s : s = [r EXCEPT !.at = "evidence", !.claimsOf = p, !.left = E]
  OBVIOUS
<1>7. /\ s \in Runs /\ s.mounted = r.mounted /\ s.case = r.case /\ s.process = r.process
      /\ s.at = "evidence" /\ s.claimsOf = p /\ s.left = E
  BY <1>1, <1>2, <1>5, <1>6 DEF Runs, Stages
<1>8. RunOK(s) /\ Answered(s)'
  BY <1>2, <1>3, <1>5, <1>7 DEF RunOK, Answered
<1>9. Replace(r, s) /\ Proceed(r, "fetch", "evidence") /\ UNCHANGED <<page, kernel, drift, started>>
  BY <1>2, <1>3, <1>4, <1>6 DEF fetchClaims
<1>10. kernel' = [state |-> kernel'.state, result |-> kernel'.result]
  BY <1>9 DEF LedgerInv, TypeInv
<1>11. server' \in [process : Processes, wasm : BOOLEAN, ledger : Promises, drift : Promises]
  BY AskLedgerKeeps DEF fetchClaims
<1>12. PICK done \in Steps, next \in Steps : done = "fetch" /\ next = "evidence"
  BY DEF Steps
<1>13. done # next /\ done # "compare" /\ next # "fetch" /\ Proceed(r, done, next)
       /\ (s.at = "evidence" => done = "fetch") /\ s.at \notin {"kernel", "result"}
  BY <1>7, <1>9, <1>12
<1>14. QED
  BY <1>7, <1>8, <1>9, <1>10, <1>11, <1>13, GoingOn

\* The kernel is asked for once all evidence is verified.
LEMMA getInstanceKeeps ==
    ASSUME LedgerInv, BetweenTasks, NEW r \in runs, getInstance(r)
    PROVE  LedgerInv'
<1>1. r \in Runs /\ RunOK(r) /\ r.at = "evidence"
  BY DEF LedgerInv, TypeInv, getInstance
<1>2. PICK s : s = [r EXCEPT !.at = "kernel"]
  OBVIOUS
<1>3. /\ s \in Runs /\ s.mounted = r.mounted /\ s.case = r.case /\ s.process = r.process /\ s.at = "kernel"
      /\ s.claimsOf = r.claimsOf /\ s.left = r.left
  BY <1>1, <1>2 DEF Runs, Stages
<1>4. RunOK(s) /\ Answered(s)'
  BY <1>1, <1>3 DEF RunOK, Answered
<1>5. Replace(r, s) /\ Proceed(r, "evidence", "kernel") /\ UNCHANGED <<server, page, drift, started>>
  BY <1>2 DEF getInstance
<1>6. kernel' = [state |-> kernel'.state, result |-> kernel'.result]
  BY DEF getInstance, LedgerInv, TypeInv
<1>7. server' \in [process : Processes, wasm : BOOLEAN, ledger : Promises, drift : Promises]
  BY <1>5 DEF LedgerInv, TypeInv
<1>8. PICK done \in Steps, next \in Steps : done = "evidence" /\ next = "kernel"
  BY DEF Steps
<1>9. /\ done # next /\ done # "compare" /\ next # "fetch" /\ Proceed(r, done, next)
      /\ s.at # "evidence" /\ (s.at \in {"kernel", "result"} => r.at = "evidence" /\ done = "evidence")
  BY <1>1, <1>3, <1>5, <1>8
<1>10. QED
  BY <1>3, <1>4, <1>5, <1>6, <1>7, <1>9, GoingOn

\* What the kernel leaves in RESULT is read by the run that asked.
LEMMA adjudicateKeeps ==
    ASSUME LedgerInv, BetweenTasks, NEW r \in runs, wasm_adjudicate(r)
    PROVE  LedgerInv'
<1>1. r \in Runs /\ RunOK(r) /\ r.at = "kernel"
  BY DEF LedgerInv, TypeInv, wasm_adjudicate
<1>2. PICK s : s = [r EXCEPT !.at = "result"]
  OBVIOUS
<1>3. /\ s \in Runs /\ s.mounted = r.mounted /\ s.case = r.case /\ s.process = r.process /\ s.at = "result"
      /\ s.claimsOf = r.claimsOf /\ s.left = r.left /\ s.tamper = r.tamper
  BY <1>1, <1>2 DEF Runs, Stages
<1>4. PICK hash : hash = VerdictHash[r.case][r.claimsOf][r.tamper]
  OBVIOUS
<1>5. kernel' = [state |-> kernel.state, result |-> hash]
  <2>1. kernel' = [kernel EXCEPT !.result = hash]
    BY <1>4 DEF wasm_adjudicate
  <2>2. kernel = [state |-> kernel.state, result |-> kernel.result]
    BY DEF LedgerInv, TypeInv
  <2>3. QED
    BY <2>1, <2>2
<1>6. RunOK(s) /\ Answered(s)'
  BY <1>1, <1>3, <1>4, <1>5 DEF RunOK, Answered
<1>7. Replace(r, s) /\ UNCHANGED <<server, page, panel, drift, started>>
  BY <1>2 DEF wasm_adjudicate
<1>8. kernel' = [state |-> kernel'.state, result |-> kernel'.result]
  BY <1>5
<1>9. server' \in [process : Processes, wasm : BOOLEAN, ledger : Promises, drift : Promises]
  BY <1>7 DEF LedgerInv, TypeInv
<1>10. PICK done \in Steps, next \in Steps : done = "evidence" /\ next = "kernel"
  BY DEF Steps
<1>11. done # next /\ done # "compare" /\ next # "fetch"
  BY <1>10
<1>12. QED
  BY <1>1, <1>3, <1>6, <1>7, <1>8, <1>9, <1>11, GoingOn

\* A run ends: what the panel says of it is all there is to show.
LEMMA FinishFacts ==
    ASSUME LedgerInv, NEW r \in runs, NEW refused \in BOOLEAN, NEW steps \in [Steps -> Statuses],
           NEW result, runs' = runs \ {r}, Finish([r EXCEPT !.refused = refused], steps, result),
           server' \in [process : Processes, wasm : BOOLEAN, ledger : Promises, drift : Promises],
           UNCHANGED <<page, kernel, drift, started>>,
           result = "match" => /\ ~r.tamper /\ r.claimsOf = r.process
                               /\ \A x \in Steps : steps[x] = "done",
           r.mounted /\ result = "mismatch" =>
               /\ r.tamper \/ r.claimsOf # r.process \/ refused
               /\ (steps["evidence"] = "failed") = refused
               /\ steps["compare"] = "failed" => steps["kernel"] = "done"
    PROVE  LedgerInv'
<1>1. r \in Runs /\ r.mounted \in BOOLEAN /\ Shown(r)
  BY DEF LedgerInv, TypeInv, Runs
<1>2. PICK s : s = [r EXCEPT !.refused = refused]
  OBVIOUS
<1>3. /\ s.mounted = r.mounted /\ s.case = r.case /\ s.process = r.process /\ s.tamper = r.tamper
      /\ s.claimsOf = r.claimsOf /\ s.refused = refused
  BY <1>1, <1>2 DEF Runs
<1>4. Finish(s, steps, result)
  BY <1>2
<1>5. CASE ~r.mounted
  <2>1. UNCHANGED panel
    BY <1>3, <1>4, <1>5 DEF Finish
  <2>2. RunsInv'
    BY <2>1, RemoveKeeps
  <2>3. PageInv' /\ SealIsEarned' /\ AlarmsAreReal'
    BY <2>1 DEF LedgerInv, PageInv, SealIsEarned, AlarmsAreReal
  <2>4. TypeInv'
    BY <2>1, <2>2 DEF LedgerInv, TypeInv, RunsInv
  <2>5. QED
    BY <2>2, <2>3, <2>4 DEF LedgerInv, RunsInv
<1>6. CASE r.mounted
  <2>1. PICK about : /\ about.case = r.case /\ about.process = r.process /\ about.tamper = r.tamper
                     /\ about.claimsOf = r.claimsOf /\ about.refused = refused
                     /\ panel' = [steps |-> steps, result |-> result, running |-> FALSE, about |-> about]
    <3>1. PICK about : about = [case |-> s.case, process |-> s.process, tamper |-> s.tamper,
                                claimsOf |-> s.claimsOf, refused |-> s.refused]
      OBVIOUS
    <3>2. panel' = [steps |-> steps, result |-> result, running |-> FALSE, about |-> about]
      BY <1>3, <1>4, <1>6, <3>1 DEF Finish
    <3>3. QED
      BY <1>3, <3>1, <3>2
  <2>2. /\ panel'.steps = steps /\ panel'.result = result /\ panel'.running = FALSE
        /\ panel'.about = about
        /\ panel' = [steps |-> panel'.steps, result |-> panel'.result, running |-> panel'.running,
                     about |-> panel'.about]
    BY <2>1
  <2>3. RunsInv'
    BY <1>6, RemoveKeeps
  <2>4. TypeInv'
    BY <2>2, <2>3 DEF LedgerInv, TypeInv, RunsInv
  <2>5. /\ page.selected # None /\ r.case = page.selected
        /\ r.process \in Processes /\ r.process <= page.manifests
    BY <1>1, <1>6 DEF Shown, Runs
  <2>6. PageInv'
    BY <2>1, <2>2, <2>5 DEF LedgerInv, PageInv
  <2>7. SealIsEarned'
    BY <2>1, <2>2, <2>5 DEF SealIsEarned
  <2>8. AlarmsAreReal'
    BY <1>6, <2>1, <2>2 DEF AlarmsAreReal
  <2>9. QED
    BY <2>3, <2>4, <2>6, <2>7, <2>8 DEF LedgerInv, RunsInv
<1>7. QED
  BY <1>1, <1>5, <1>6

\* Evidence of the case always verifies where the server answers: a failure is a refusal.
LEMMA fetchProofKeeps ==
    ASSUME LedgerInv, BetweenTasks, NEW r \in runs, fetchProof(r)
    PROVE  LedgerInv'
<1>1. r \in Runs /\ RunOK(r) /\ Shown(r) /\ r.at = "evidence" /\ r.left # {} /\ r.case \in Cases
  BY DEF LedgerInv, TypeInv, fetchProof, Runs
<1>2. PICK id : id = Min(r.left) /\ id \in r.left
  BY <1>1, MinIsLeast DEF Runs
<1>3. server' \in [process : Processes, wasm : BOOLEAN, ledger : Promises, drift : Promises]
      /\ server.process \in Processes
  BY AskLedgerKeeps DEF fetchProof
<1>4. UNCHANGED <<page, kernel, drift, started>>
  BY DEF fetchProof
<1>5. CASE Verified(r, id)
  <2>1. PICK left : left = r.left \ {id}
    OBVIOUS
  <2>2. PICK s : s = [r EXCEPT !.left = left]
    OBVIOUS
  <2>3. /\ s \in Runs /\ s.mounted = r.mounted /\ s.case = r.case /\ s.process = r.process /\ s.at = "evidence"
        /\ s.claimsOf = r.claimsOf /\ s.left = left
    BY <1>1, <2>1, <2>2 DEF Runs
  <2>4. RunOK(s) /\ Answered(s)'
    BY <1>1, <2>1, <2>3 DEF RunOK, Answered
  <2>5. s = [r EXCEPT !.left = @ \ {Min(@)}]
    BY <1>2, <2>1, <2>2
  <2>6. Replace(r, s) /\ UNCHANGED panel
    BY <1>2, <1>5, <2>5 DEF fetchProof
  <2>7. kernel' = [state |-> kernel'.state, result |-> kernel'.result]
    BY <1>4 DEF LedgerInv, TypeInv
  <2>8. PICK done \in Steps, next \in Steps : done = "evidence" /\ next = "kernel"
    BY DEF Steps
  <2>9. done # next /\ done # "compare" /\ next # "fetch"
    BY <2>8
  <2>10. QED
    BY <1>1, <1>3, <1>4, <2>3, <2>4, <2>6, <2>7, <2>9, GoingOn
<1>6. CASE ~Verified(r, id)
  <2>1. ~LedgerAnswers
    <3>1. PICK c, p : c = r.case /\ p = server.process
      OBVIOUS
    <3>2. id \in Evidence(c)
      BY <1>1, <1>2, <3>1 DEF RunOK
    <3>3. PICK proof \in proveEvidenceInclusion(c, p, id) : verifyInclusion(id, proof)
      BY <1>1, <1>3, <3>1, <3>2, EvidenceProofs DEF Processes
    <3>4. QED
      BY <1>6, <3>1, <3>3 DEF Verified
  <2>2. PICK refused \in BOOLEAN : refused = TRUE
    OBVIOUS
  <2>3. PICK steps : steps = [panel.steps EXCEPT !["evidence"] = "failed"]
    OBVIOUS
  <2>4. panel.steps \in [Steps -> Statuses]
    BY DEF LedgerInv, TypeInv
  <2>5. /\ steps \in [Steps -> Statuses] /\ steps["evidence"] = "failed"
        /\ steps["compare"] = panel.steps["compare"]
    BY <2>3, <2>4 DEF Steps, Statuses
  <2>6. runs' = runs \ {r} /\ Finish([r EXCEPT !.refused = ~LedgerAnswers], steps, "mismatch")
    BY <1>2, <1>6, <2>3 DEF fetchProof
  <2>7. (~LedgerAnswers) = refused
    BY <2>1, <2>2
  <2>8. Finish([r EXCEPT !.refused = refused], steps, "mismatch")
    BY <2>6, <2>7
  <2>9. r.mounted => steps["compare"] # "failed"
    BY <1>1, <2>5 DEF Shown
  <2>10. (steps["evidence"] = "failed") = refused
    BY <2>2, <2>5
  <2>11. PICK result : result = "mismatch"
    OBVIOUS
  <2>12. result # "match" /\ Finish([r EXCEPT !.refused = refused], steps, result)
    BY <2>8, <2>11
  <2>13. QED
    BY <1>3, <1>4, <2>2, <2>5, <2>6, <2>9, <2>10, <2>12, FinishFacts
<1>7. QED
  BY <1>5, <1>6

\* The seal or the alarm: the hash in RESULT is that of the claims this run fetched.
LEMMA ReadResultKeeps ==
    ASSUME LedgerInv, NEW r \in runs, ReadResult(r)
    PROVE  LedgerInv'
<1>1. /\ r \in Runs /\ RunOK(r) /\ Shown(r) /\ Answered(r) /\ r.at = "result"
      /\ r.case \in Cases /\ r.process \in Processes /\ r.tamper \in BOOLEAN /\ r.refused = FALSE
  BY DEF LedgerInv, TypeInv, ReadResult, Runs
<1>2. PICK c, p, q, tamper : c = r.case /\ p = r.process /\ q = r.claimsOf /\ tamper = r.tamper
  OBVIOUS
<1>3. c \in Cases /\ p \in 0..MaxRestarts /\ q \in 0..MaxRestarts /\ tamper \in BOOLEAN
  BY <1>1, <1>2 DEF RunOK, Processes
<1>4. PICK m : m = SealedOf(c, p).manifest
  OBVIOUS
<1>5. m.verdict_hash = VerdictHash[c][p][FALSE]
  <2>1. PICK none \in BOOLEAN : none = FALSE
    OBVIOUS
  <2>2. m.verdict_hash = VerdictHash[c][p][none]
    BY <1>3, <1>4, <2>1, SealedOfFacts
  <2>3. QED
    BY <2>1, <2>2
<1>6. kernel.result = VerdictHash[c][q][tamper]
  BY <1>1, <1>2 DEF Answered
<1>7. PICK matches : matches = (kernel.result = m.verdict_hash)
  OBVIOUS
<1>8. matches \in BOOLEAN /\ (matches <=> q = p /\ ~tamper)
  <2>1. VerdictHash[c][q][tamper] = VerdictHash[c][p][FALSE] <=> q = p /\ ~tamper
    BY ONLY <1>3, HashTellsApart, ZenonT(60)
  <2>2. QED
    BY <1>5, <1>6, <1>7, <2>1
<1>9. PICK steps : steps = [panel.steps EXCEPT !["kernel"] = "done",
                               !["compare"] = IF matches THEN "done" ELSE "failed"]
  OBVIOUS
<1>10. panel.steps \in [Steps -> Statuses]
  BY DEF LedgerInv, TypeInv
<1>11. /\ steps \in [Steps -> Statuses] /\ steps["kernel"] = "done"
       /\ steps["compare"] = (IF matches THEN "done" ELSE "failed")
       /\ steps["fetch"] = panel.steps["fetch"] /\ steps["evidence"] = panel.steps["evidence"]
  BY <1>9, <1>10 DEF Steps, Statuses
<1>12. PICK result : result = IF matches THEN "match" ELSE "mismatch"
  OBVIOUS
<1>13. Finish(r, steps, result) /\ runs' = runs \ {r} /\ UNCHANGED <<server, page, kernel, drift, started>>
  BY <1>2, <1>4, <1>7, <1>9, <1>12 DEF ReadResult
<1>14. PICK refused \in BOOLEAN : refused = FALSE
  OBVIOUS
<1>15. [r EXCEPT !.refused = refused] = r
  BY <1>1, <1>14 DEF Runs
<1>16. Finish([r EXCEPT !.refused = refused], steps, result)
  BY <1>13, <1>15
<1>17. server' \in [process : Processes, wasm : BOOLEAN, ledger : Promises, drift : Promises]
  BY <1>13 DEF LedgerInv, TypeInv
<1>18. CASE ~r.mounted
  <2>1. UNCHANGED panel
    BY <1>13, <1>18 DEF Finish
  <2>2. RunsInv'
    BY <1>13, <2>1, RemoveKeeps
  <2>3. PageInv' /\ SealIsEarned' /\ AlarmsAreReal'
    BY <1>13, <2>1 DEF LedgerInv, PageInv, SealIsEarned, AlarmsAreReal
  <2>4. TypeInv'
    BY <1>13, <2>1, <2>2 DEF LedgerInv, TypeInv, RunsInv
  <2>5. QED
    BY <2>2, <2>3, <2>4 DEF LedgerInv, RunsInv
<1>19. CASE r.mounted
  <2>1. panel.steps["fetch"] = "done" /\ panel.steps["evidence"] = "done"
    BY <1>1, <1>19 DEF Shown
  <2>2. result = "match" => ~r.tamper /\ r.claimsOf = r.process /\ \A x \in Steps : steps[x] = "done"
    BY <1>2, <1>8, <1>11, <1>12, <2>1 DEF Steps
  <2>3. result = "mismatch" => r.tamper \/ r.claimsOf # r.process \/ refused
    BY <1>2, <1>3, <1>8, <1>12
  <2>4. (steps["evidence"] = "failed") = refused /\ (steps["compare"] = "failed" => steps["kernel"] = "done")
    BY <1>11, <1>14, <2>1
  <2>5. QED
    BY <1>11, <1>13, <1>16, <1>17, <2>2, <2>3, <2>4, FinishFacts
<1>20. QED
  BY <1>18, <1>19

\* An error is neither a seal nor an alarm.
LEMMA FailKeeps ==
    ASSUME LedgerInv, NEW r \in runs, Fail(r)
    PROVE  LedgerInv'
<1>1. r \in Runs /\ r.refused = FALSE
  BY DEF LedgerInv, TypeInv, Runs
<1>2. PICK refused \in BOOLEAN : refused = FALSE
  OBVIOUS
<1>3. [r EXCEPT !.refused = refused] = r
  BY <1>1, <1>2 DEF Runs
<1>4. PICK result, steps : result = "error" /\ steps = panel.steps
  OBVIOUS
<1>5. Finish(r, steps, result) /\ runs' = runs \ {r} /\ UNCHANGED <<server, page, kernel, drift, started>>
  BY <1>4 DEF Fail
<1>6. Finish([r EXCEPT !.refused = refused], steps, result) /\ result # "match" /\ result # "mismatch"
  BY <1>3, <1>4, <1>5
<1>7. /\ server' \in [process : Processes, wasm : BOOLEAN, ledger : Promises, drift : Promises]
      /\ steps \in [Steps -> Statuses]
  BY <1>4, <1>5 DEF LedgerInv, TypeInv
<1>8. QED
  BY <1>5, <1>6, <1>7, FinishFacts

\* The page fetches from the process that runs, and no process comes back.
LEMMA ManifestsStayPast ==
    ASSUME TypeInv, ManifestsOfThePast, [Next]_vars
    PROVE  ManifestsOfThePast'
<1>1. /\ server = [process |-> server.process, wasm |-> server.wasm, ledger |-> server.ledger,
                   drift |-> server.drift]
      /\ page = [manifests |-> page.manifests, selected |-> page.selected]
      /\ server.process \in Int
  BY DEF TypeInv, Processes
<1>2. server'.process \in Int /\ server.process <= server'.process
  <2>1. CASE UNCHANGED server \/ AskLedger \/ fetchDrift \/ WasmAppears
    <3>1. CASE AskLedger
      BY <1>1, <3>1 DEF AskLedger
    <3>2. CASE fetchDrift
      BY <1>1, <3>2 DEF fetchDrift
    <3>3. CASE WasmAppears
      BY <1>1, <3>3 DEF WasmAppears
    <3>4. QED
      BY <1>1, <2>1, <3>1, <3>2, <3>3
  <2>2. CASE Restart
    <3>1. server'.process = server.process + 1
      BY <2>2 DEF Restart
    <3>2. QED
      BY <1>1, <3>1
  <2>3. QED
    BY <2>1, <2>2 DEF Next, vars, fetchManifests, KernelLoads, onSelect, runVerification, fetchClaims,
          fetchProof, getInstance, wasm_adjudicate, Fail, ReadResult
<1>3. page'.manifests = page.manifests \/ page'.manifests = server.process
  <2>1. CASE UNCHANGED page \/ fetchManifests \/ \E c \in Opened : onSelect(c)
    BY <1>1, <2>1 DEF fetchManifests, onSelect
  <2>2. QED
    BY <2>1 DEF Next, vars, fetchDrift, WasmAppears, Restart, KernelLoads, runVerification, fetchClaims,
          fetchProof, getInstance, wasm_adjudicate, Fail, ReadResult
<1>4. QED
  BY <1>1, <1>2, <1>3 DEF ManifestsOfThePast, Processes

LEMMA StepsKeepLedgerInv == LedgerInv /\ ManifestsOfThePast /\ [Next]_vars => LedgerInv'
<1> SUFFICES ASSUME LedgerInv, ManifestsOfThePast, [Next]_vars PROVE LedgerInv'
  OBVIOUS
<1>1. CASE BetweenTasks /\ (fetchManifests \/ fetchDrift \/ KernelLoads \/ Restart \/ WasmAppears)
  BY <1>1, fetchManifestsKeeps, ServerKeeps, KernelLoadsKeeps
<1>2. ASSUME NEW c \in Opened, onSelect(c) PROVE LedgerInv'
  BY <1>2, SelectionKeeps
<1>3. ASSUME NEW tamper \in BOOLEAN, BetweenTasks, runVerification(tamper) PROVE LedgerInv'
  BY <1>3, runVerificationKeeps
<1>4. ASSUME NEW r \in runs, BetweenTasks,
             fetchClaims(r) \/ fetchProof(r) \/ getInstance(r) \/ wasm_adjudicate(r) \/ Fail(r)
      PROVE  LedgerInv'
  BY <1>4, fetchClaimsKeeps, fetchProofKeeps, getInstanceKeeps, adjudicateKeeps, FailKeeps
<1>5. ASSUME NEW r \in runs, ReadResult(r) PROVE LedgerInv'
  BY <1>5, ReadResultKeeps
<1>6. CASE UNCHANGED vars
  <2>1. UNCHANGED <<server, page, kernel, panel, runs, drift, started>>
    BY <1>6 DEF vars
  <2>2. /\ server \in [process : Processes, wasm : BOOLEAN, ledger : Promises, drift : Promises]
        /\ drift \in Processes \cup {None}
    BY DEF LedgerInv, TypeInv
  <2>3. QED
    BY <2>1, <2>2, ServerSteps
<1>7. QED
  BY <1>1, <1>2, <1>3, <1>4, <1>5, <1>6 DEF Next

-----------------------------------------------------------------------------
(* The theorems.                                                           *)

\* In every reachable state of the Verdict Ledger at most one verification has
\* the panel and at most one a result to read; what is in the kernel's result
\* buffer is what that one asked for, and the panel shows the progress of the
\* run it belongs to (verification-panel.tsx, kernel-wasm.ts).
THEOREM LedgerInvariant == Spec => []LedgerInv
<1>1. Init => LedgerInv
  BY InitGivesLedgerInv
<1>2. Init => ManifestsOfThePast
  BY LedgerAssumption DEF Init, ManifestsOfThePast, Processes
<1>3. LedgerInv /\ ManifestsOfThePast /\ [Next]_vars => LedgerInv' /\ ManifestsOfThePast'
  BY StepsKeepLedgerInv, ManifestsStayPast DEF LedgerInv
<1>4. QED
  BY <1>1, <1>2, <1>3, PTL DEF Spec

\* Whatever the tenants, cases and claims, and however selections, restarts,
\* refetches and runs interleave: runVerification shows the seal only beside the
\* investigation it verified, after all four steps, and over the very claims that
\* the manifest it was started on was sealed over; that manifest is the one on
\* screen unless the page has fetched a later process's since.
THEOREM SealsAreEarned == Spec => []SealIsEarned
<1>1. LedgerInv => SealIsEarned
  BY DEF LedgerInv
<1>2. QED
  BY <1>1, LedgerInvariant, PTL

\* runVerification reports a mismatch only for tampered claims, for claims of
\* another process than the manifest's, or where the server refused to prove a
\* piece of evidence; and the step marked failed says which.
THEOREM MismatchesAreReal == Spec => []AlarmsAreReal
<1>1. LedgerInv => AlarmsAreReal
  BY DEF LedgerInv
<1>2. QED
  BY <1>1, LedgerInvariant, PTL

\* The ledger buildLedger makes holds together for any tenants and cases: every
\* evidence proof leads to its manifest's root and admits no other id, and
\* exactly the manifests marked chainBroken do not link to the one before.
THEOREM LedgersHoldTogether == Spec => []LedgerHoldsTogether
<1>1. LedgerInv => LedgerHoldsTogether
  <2> SUFFICES ASSUME LedgerInv PROVE server.process \in SoundLedgers
    BY DEF LedgerHoldsTogether
  <2>1. server.process \in Processes
    BY DEF LedgerInv, TypeInv
  <2>2. QED
    BY <2>1, LedgersAreSound DEF Processes
<1>2. QED
  BY <1>1, LedgerInvariant, PTL

\* Every row computeDriftForCase makes is explained by what it shows: it names a
\* claim of the repriced predicate that decides, only that predicate's weights
\* differ, and the old verdict is the sealed one.
THEOREM DriftRowsAreExplained == Spec => []DriftIsExplained
<1>1. LedgerInv => DriftIsExplained
  <2> SUFFICES ASSUME LedgerInv, drift # None PROVE drift \in ExplainedSweeps
    BY DEF DriftIsExplained
  <2>1. drift \in Processes
    BY DEF LedgerInv, TypeInv
  <2>2. QED
    BY <2>1, SweepsAreExplained DEF Processes
<1>2. QED
  BY <1>1, LedgerInvariant, PTL
=============================================================================
