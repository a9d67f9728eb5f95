------------------------------ MODULE Rederive ------------------------------
(***************************************************************************)
(* replay --rederive (services/adjudicate, replay.py): a fresh             *)
(* investigation against the pinned evidence of a closed case, a diff of   *)
(* what it asserts against what the case asserted, and the verdict the     *)
(* kernel gives the new claims under the case's own policy.                *)
(***************************************************************************)
EXTENDS Investigator, Kernel

CONSTANTS OriginalClaimSets,  \* claim lists a closed case may hold
          CasePolicy,         \* its policy and its kernel_version
          CaseVersion

\* The claims of a case or of a provider.
Assertions == Proposable \cup UNION {Range(original) : original \in OriginalClaimSets}

\* The case was closed under its policy; a claim_id is an address, and a diff key
\* names predicate, polarity and evidence, beside subject, object and interval.
ASSUME RederiveAssumption ==
    /\ PolicyBundle(CasePolicy)
    /\ \A original \in OriginalClaimSets : original \in Seq(Range(original))
    /\ \A c \in Assertions : claim_id(c) \in Int
    /\ \A c, d \in Assertions : c.key = d.key =>
          c.predicate = d.predicate /\ c.polarity = d.polarity /\ c.evidence = d.evidence

VARIABLES case_claims,  \* the claims of the record that is replayed
          result        \* the ReplayRederiveResult

vars == <<investigation, case_claims, result>>

NoResult == [returned |-> FALSE]

Init ==
    /\ InvestigationInit
    /\ case_claims \in OriginalClaimSets
    /\ result = NoResult

Keys(claims) == {claims[i].key : i \in DOMAIN claims}

\* The disposition of the case was sealed when it was closed under CasePolicy.
SealedDisposition == adjudicate(case_claims, CasePolicy, CaseVersion).disposition

\* Mutant: the new claims are looked up among themselves.
addedMutant == Keys(accepted) \ Keys(accepted)

added   == Keys(accepted) \ Keys(case_claims)
removed == Keys(case_claims) \ Keys(accepted)

\* The new verdict is taken from the kernel whether or not the budget was
\* exhausted: InvestigationResult.budget_exhausted is not read.
replay_rederive ==
    LET verdict == adjudicate(accepted, CasePolicy, CaseVersion) IN
    /\ status = "done"
    /\ result = NoResult
    /\ result' = [returned              |-> TRUE,
                  added                 |-> added,
                  removed               |-> removed,
                  unchanged             |-> Keys(accepted) \cap Keys(case_claims),
                  rederived_disposition |-> verdict.disposition,
                  disposition_changed   |-> verdict.disposition # SealedDisposition]
    /\ UNCHANGED <<investigation, case_claims>>

run_investigation == InvestigationStep /\ UNCHANGED <<case_claims, result>>

Next == run_investigation \/ replay_rederive

Spec == Init /\ [][Next]_vars

\* run_investigation is a loop in one thread: it keeps going.  A provider that
\* hangs is outside the model, as it is outside the code (no wall clock budget).
FairSpec == Spec /\ WF_vars(run_investigation)

-----------------------------------------------------------------------------
(* Properties.                                                             *)

NoDuplicates(claims) == \A i, j \in DOMAIN claims : i # j => claims[i].key # claims[j].key

\* The diff measures the drift of what is asserted: a rederivation that repeats
\* no assertion and shows neither additions nor removals (replay.py:127-132)
\* gives the sealed disposition, whoever extracted the claims, in whatever
\* order, with whatever hypotheses, and a changed disposition therefore always
\* has a non-empty diff that explains it.
EmptyDiffSameDisposition ==
    /\ result.returned
    /\ NoDuplicates(accepted) /\ NoDuplicates(case_claims)
    /\ result.added = {} /\ result.removed = {}
    => ~result.disposition_changed

\* "Exceeding any budget yields a partial claim set and an INCOMPLETE verdict,
\* never a guess" (investigator.py:18-21): the disposition reported for an
\* investigation whose budget ran out is incomplete.
ExhaustedMeansIncomplete ==
    result.returned /\ budget_exhausted => result.rederived_disposition = "incomplete"
=============================================================================
