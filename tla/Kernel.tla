------------------------------- MODULE Kernel -------------------------------
(***************************************************************************)
(* The adjudication kernel, kernel/src: a pure function from a list of     *)
(* claims, a policy bundle and a kernel version to a verdict, in fixed     *)
(* point i64 arithmetic that saturates.                                    *)
(*                                                                         *)
(* A claim is [id, predicate, polarity, evidence].  id is the place of its *)
(* claim_id (BLAKE3 of the canonical encoding of all its fields, evidence  *)
(* sorted) in byte order: two claims have one id exactly when they have    *)
(* the same content.  A policy is [version, weights, chain, thresholds],   *)
(* where weights and chain are functions whose domains are the keys of the *)
(* BTreeMaps.                                                              *)
(***************************************************************************)
EXTENDS Integers, Sequences, FiniteSets, SequencesExt

CONSTANTS MaxInt,         \* i64::MAX, 2^63 - 1
          FullConfidence  \* 10_000: basis points of a whole

ASSUME KernelAssumption ==
    /\ MaxInt \in Nat
    /\ FullConfidence \in Nat

\* i64::MIN, in two's complement.
MinInt == -MaxInt - 1

-----------------------------------------------------------------------------
(* Arithmetic: i64::clamp, saturating_add, saturating_mul.                 *)

Clamp(lo, hi, x) == IF x < lo THEN lo ELSE IF x > hi THEN hi ELSE x

\* Mutant: plain addition, which wraps.
WrappingAdd(x, y) == ((x + y - MinInt) % (MaxInt - MinInt + 1)) + MinInt

SatAdd(x, y) == Clamp(MinInt, MaxInt, x + y)
SatMul(x, y) == Clamp(MinInt, MaxInt, x * y)

\* A loop `acc = acc.saturating_add(v)` over the numbers of a list; a 0 in it
\* stands for what the loop passes over.
SatSum(s) ==
    LET acc[k \in 0..Len(s)] == IF k = 0 THEN 0 ELSE SatAdd(acc[k - 1], s[k])
    IN  acc[Len(s)]

-----------------------------------------------------------------------------
(* Enumerations.  Tactics are numbered in kill-chain (declaration) order.  *)

Info     == 0
Low      == 1
Medium   == 2
High     == 3
Critical == 4
Severities == Info..Critical

Tactics == 1..12

is_adjacent(a, b) == a - b \in {1, -1}

disposition_for(severity) ==
    CASE severity \in {Info, Low}      -> "benign"
      [] severity = Medium             -> "suspicious"
      [] severity \in {High, Critical} -> "malicious"

-----------------------------------------------------------------------------
(* Policy bundles.                                                         *)

\* PolicyBundle::new: thresholds are not empty and strictly ascending.
ValidPolicy(policy) ==
    /\ policy.thresholds # <<>>
    /\ \A i \in 1..Len(policy.thresholds) - 1 :
          policy.thresholds[i][1] < policy.thresholds[i + 1][1]

\* A policy bundle as PolicyBundle::new accepts it.
PolicyBundle(p) ==
    /\ ValidPolicy(p)
    /\ \A w \in DOMAIN p.weights :
          p.weights[w].tactic \in Tactics /\ p.weights[w].weight \in MinInt..MaxInt
    /\ \A pair \in DOMAIN p.chain : p.chain[pair] \in MinInt..MaxInt
    /\ p.thresholds \in Seq((MinInt..MaxInt) \X Severities)

\* The loop overwrites its result at every threshold met, so the last one
\* met in list order decides; with none met the first entry stands.
classify(policy, score) ==
    LET met == {i \in DOMAIN policy.thresholds : score >= policy.thresholds[i][1]}
    IN  policy.thresholds[Max(met \cup {1})][2]

-----------------------------------------------------------------------------
(* adjudicate.                                                             *)

\* The content address of a claim; only the order of addresses matters here.
claim_id(claim) == claim.id

\* Mutant: the claims are taken in the order they arrived.
OrderedMutant(claims) == claims

\* The claims that a stable sort puts before claim i.
SortedBefore(claims, i) ==
    {j \in DOMAIN claims :
        \/ claim_id(claims[j]) < claim_id(claims[i])
        \/ claim_id(claims[j]) = claim_id(claims[i]) /\ j < i}

\* `ordered.sort_by(claim_id)`.
Ordered(claims) ==
    [k \in DOMAIN claims |->
        claims[CHOOSE i \in DOMAIN claims : Cardinality(SortedBefore(claims, i)) = k - 1]]

\* The loop skips the others: no evidence, or a predicate the policy does not
\* price.
Counts(claim, policy) == claim.evidence # {} /\ claim.predicate \in DOMAIN policy.weights

\* The claims that are pushed to `contributing`, in claim_id order.
Usable(claims, policy) ==
    LET ordered == Ordered(claims)
        pushed[k \in 0..Len(ordered)] ==
            IF k = 0 THEN <<>>
            ELSE IF Counts(ordered[k], policy) THEN Append(pushed[k - 1], ordered[k])
            ELSE pushed[k - 1]
    IN  pushed[Len(ordered)]

Sign(claim) == IF claim.polarity = "supports" THEN 1 ELSE -1

contribution(claim, policy) ==
    SatMul(policy.weights[claim.predicate].weight, Sign(claim))

tactic(claim, policy) == policy.weights[claim.predicate].tactic

\* The tactics with an entry in tactic_scores: also those a claim refutes.
Present(usable, policy) == {tactic(c, policy) : c \in Range(usable)}

\* What each claim adds to the entry of tactic t.
Entries(usable, policy, t) ==
    [k \in DOMAIN usable |-> IF tactic(usable[k], policy) = t THEN contribution(usable[k], policy) ELSE 0]

tactic_scores(usable, policy) ==
    [t \in Present(usable, policy) |-> SatSum(Entries(usable, policy, t))]

\* The values of a BTreeMap come out in the order of its keys: kill-chain order.
base_total(usable, policy) ==
    LET scores == tactic_scores(usable, policy)
    IN  SatSum([t \in Tactics |-> IF t \in DOMAIN scores THEN scores[t] ELSE 0])

\* The window of `present` that starts with t, unless t is the last.
Windows(present) ==
    [t \in {u \in present : \E v \in present : v > u} |-> <<t, Min({v \in present : v > t})>>]

\* Mutant: neighbours among the tactics present count as adjacent.
BonusMutant(pair, policy) == IF pair \in DOMAIN policy.chain THEN policy.chain[pair] ELSE 0

\* The bonus of a window: a lookup, if the two are really adjacent.
Bonus(pair, policy) ==
    IF is_adjacent(pair[1], pair[2]) /\ pair \in DOMAIN policy.chain THEN policy.chain[pair] ELSE 0

\* windows(2) over the tactics present.
chain_bonus(usable, policy) ==
    LET windows == Windows(Present(usable, policy))
    IN  SatSum([t \in Tactics |-> IF t \in DOMAIN windows THEN Bonus(windows[t], policy) ELSE 0])

total_score(usable, policy) ==
    SatAdd(base_total(usable, policy), chain_bonus(usable, policy))

confidence(score) == Clamp(0, FullConfidence, score)

NothingUsable(claims, usable) == usable = <<>>

\* What the score reads of a policy: its tactics and weights, and the chain.
Scoring(policy) ==
    [weights |-> [p \in DOMAIN policy.weights |-> [tactic |-> policy.weights[p].tactic,
                                                  weight |-> policy.weights[p].weight]],
     chain   |-> policy.chain]

adjudicate(claims, policy, kernel_version) ==
    LET usable == Usable(claims, Scoring(policy))
        score  == total_score(usable, Scoring(policy))
    IN  IF NothingUsable(claims, usable)
        THEN [severity            |-> Info,
              confidence          |-> 0,
              disposition         |-> "incomplete",
              attack_techniques   |-> {},
              contributing_claims |-> <<>>,
              policy_version      |-> policy.version,
              kernel_version      |-> kernel_version]
        ELSE [severity            |-> classify(policy, score),
              confidence          |-> confidence(score),
              disposition         |-> disposition_for(classify(policy, score)),
              attack_techniques   |-> UNION {policy.weights[c.predicate].techniques :
                                                c \in Range(usable)},
              contributing_claims |->
                  [i \in DOMAIN usable |->
                      [claim_id          |-> claim_id(usable[i]),
                       predicate         |-> usable[i].predicate,
                       attributed_weight |-> contribution(usable[i], policy)]],
              policy_version      |-> policy.version,
              kernel_version      |-> kernel_version]

-----------------------------------------------------------------------------
(* adjudicate_cli: the process the services call.                          *)

\* BLAKE3 of an encoding, in a fixed field order with every length written out,
\* of all the fields above: an address per content.
compute_verdict_hash(v) ==
    <<"blake3", v.severity, v.confidence, v.disposition, v.attack_techniques,
      v.contributing_claims, v.policy_version, v.kernel_version>>

Failed == [error |-> "exit code 2"]

\* The policy is built first, then the claims, where Claim::new rejects one
\* without evidence; the kernel runs only when all of that succeeded.
\* submitted_claim_ids are in submission order.
adjudicate_cli(claims, policy, kernel_version) ==
    IF ValidPolicy(policy) /\ \A c \in Range(claims) : c.evidence # {}
    THEN LET verdict == adjudicate(claims, policy, kernel_version)
         IN  [verdict             |-> verdict,
              verdict_hash        |-> compute_verdict_hash(verdict),
              submitted_claim_ids |-> [i \in DOMAIN claims |-> claim_id(claims[i])]]
    ELSE Failed
=============================================================================
