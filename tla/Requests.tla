------------------------------ MODULE Requests ------------------------------
(***************************************************************************)
(* Requests to the kernel, claim by claim: the state is the claim list of  *)
(* one request and its policy, and each step submits one more claim.  What *)
(* is said of every state is said of every request.                        *)
(***************************************************************************)
EXTENDS Kernel

CONSTANTS Catalogue,      \* the claims a request may hold
          Policies,       \* the policy bundles it may name
          KernelVersion,
          MaxClaims       \* bound: claims in one request

\* claim_id is an address of the content (claim.rs:99-124).
ASSUME RequestsAssumption ==
    /\ \A c \in Catalogue : claim_id(c) \in Int
    /\ \A c, d \in Catalogue : claim_id(c) = claim_id(d) => c = d
    /\ \A p \in Policies : PolicyBundle(p)
    /\ MaxClaims \in Nat

VARIABLES policy, claims
requestVars == <<policy, claims>>

RequestInit == policy \in Policies /\ claims = <<>>

Submit(c) ==
    /\ Len(claims) < MaxClaims
    /\ claims' = Append(claims, c)
    /\ UNCHANGED policy

RequestNext == \E c \in Catalogue : Submit(c)

RequestSpec == RequestInit /\ [][RequestNext]_requestVars

VerdictOf(request) == adjudicate(request, policy, KernelVersion)

\* The score the verdict is derived from; a case without one is at 0.
ScoreOf(request) ==
    LET usable == Usable(request, Scoring(policy))
    IN  IF usable = <<>> THEN 0 ELSE total_score(usable, Scoring(policy))

Verdict == VerdictOf(claims)
Score   == ScoreOf(claims)

-----------------------------------------------------------------------------
(* Properties.                                                             *)

RequestTypeOK == policy \in Policies /\ claims \in Seq(Catalogue) /\ Len(claims) <= MaxClaims

\* Determinism (invariant I1): "adjudicate's OUTPUT must not depend on the
\* order claims happened to arrive in" (lib.rs:48-53).  Saturating sums do not
\* commute, so this rests on the sort and not on the arithmetic.
OrderIndependent ==
    \A p \in Bijection(DOMAIN claims, DOMAIN claims) :
        VerdictOf([i \in DOMAIN claims |-> claims[p[i]]]) = Verdict

\* The sum of a list, with no width, and of its absolute values.
Sum(s) ==
    LET acc[k \in 0..Len(s)] == IF k = 0 THEN 0 ELSE acc[k - 1] + s[k]
    IN  acc[Len(s)]
Abs(x) == IF x < 0 THEN -x ELSE x
Volume(s) == Sum([k \in DOMAIN s |-> Abs(s[k])])

\* The tactic t has a contributing claim.
Contributes(t) ==
    \E i \in DOMAIN claims : Counts(claims[i], policy) /\ tactic(claims[i], policy) = t

\* What each contributing claim is attributed, and the bonus of every kill-chain
\* step t, t + 1 of which both tactics have a contributing claim.
Attributed ==
    LET contributing == Verdict.contributing_claims
    IN  [i \in DOMAIN contributing |-> contributing[i].attributed_weight]
Bonuses ==
    [t \in Tactics |->
        IF Contributes(t) /\ Contributes(t + 1) /\ <<t, t + 1>> \in DOMAIN policy.chain
        THEN policy.chain[<<t, t + 1>>] ELSE 0]

\* The attributed weights explain the verdict (verdict.rs:79-81): when no sum
\* on the way can saturate, the score is the sum of what each contributing
\* claim is attributed and of the bonuses; a different set of pairs, or a claim
\* counted twice or in no tactic, breaks it.
ScoreIsExplained ==
    Volume(Attributed) + Volume(Bonuses) <= MaxInt => Score = Sum(Attributed) + Sum(Bonuses)

\* No bonus is a malus, and a higher threshold is for a higher severity.
Ascending(p) ==
    /\ \A pair \in DOMAIN p.chain : p.chain[pair] >= 0
    /\ \A i, j \in DOMAIN p.thresholds : i < j => p.thresholds[i][2] <= p.thresholds[j][2]

\* c is of a predicate the policy prices, at a weight that is not negative.
Weighs(c) == Counts(c, policy) /\ policy.weights[c.predicate].weight >= 0

\* One more supporting claim never lowers a case's score, its confidence or
\* its severity, wherever its claim_id sorts it and whatever has saturated
\* already.
SupportNeverLowers ==
    \A c \in Catalogue : Ascending(policy) /\ c.polarity = "supports" /\ Weighs(c) =>
        LET more  == Append(claims, c)
            after == VerdictOf(more)
        IN  /\ ScoreOf(more) >= Score
            /\ after.confidence >= Verdict.confidence
            /\ after.severity >= Verdict.severity
=============================================================================
