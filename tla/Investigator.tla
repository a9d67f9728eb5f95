---------------------------- MODULE Investigator ----------------------------
(***************************************************************************)
(* One investigation, services/investigate: run_investigation asks an      *)
(* inference provider for turns until a turn wants no further tool calls   *)
(* or the budget is spent, and passes every claim a turn proposes through  *)
(* the Claim Gate.  The provider is untrusted: a turn proposes any claims  *)
(* and asks for any number of tool calls.                                  *)
(*                                                                         *)
(* A claim is [id, key, predicate, polarity, evidence, start, end,         *)
(* hypothesis]: id is its claim_id (see Kernel), key what it asserts,      *)
(* without who extracted it, the observed value and the hypothesis.        *)
(***************************************************************************)
EXTENDS Integers, Sequences, FiniteSets, SequencesExt

CONSTANTS
    Proposable,             \* claims a provider may propose
    KnownPredicates,        \* the predicate registry
    PinnedEvidence,         \* evidence ids of the pinned epoch
    WindowStart, WindowEnd, \* the case window
    NoHypothesis,
    Budgets,                \* [max_tool_calls, max_turns]; 24 and 10 by default
    ClaimsPerTurn,          \* bound: claims proposed in one turn
    CallsPerTurn            \* bound: tool calls asked for in one turn

ASSUME InvestigatorAssumption ==
    /\ \A c \in Proposable : c.start \in Int /\ c.end \in Int
    /\ WindowStart \in Int /\ WindowEnd \in Int
    /\ Budgets \subseteq [max_tool_calls : Nat, max_turns : Nat]
    /\ ClaimsPerTurn \in Nat
    /\ CallsPerTurn \in Nat

VARIABLES
    budget,             \* the Budget of this investigation
    turns,              \* turns taken
    tool_calls_made,
    tool_results,       \* number of tool results fed back to the provider
    accepted, rejected, \* lists of claims; a rejection carries its reason
    hypotheses,
    status,             \* "running", or "done" once an InvestigationResult is returned
    budget_exhausted,
    proposed,           \* history: everything the provider proposed
    wantedTools         \* history: the last turn asked for tool calls

investigation == <<budget, turns, tool_calls_made, tool_results, accepted, rejected,
                   hypotheses, status, budget_exhausted, proposed, wantedTools>>

InvestigationInit ==
    /\ budget \in Budgets
    /\ turns = 0
    /\ tool_calls_made = 0
    /\ tool_results = 0
    /\ accepted = <<>>
    /\ rejected = <<>>
    /\ hypotheses = {}
    /\ status = "running"
    /\ budget_exhausted = FALSE
    /\ proposed = <<>>
    /\ wantedTools = FALSE

-----------------------------------------------------------------------------
(* ClaimGate.                                                              *)

Admitted == "admitted"

\* The first check that fails is the one reported.
admit(claim) ==
    IF claim.evidence = {} THEN "empty evidence list"
    ELSE IF ~(claim.evidence \subseteq PinnedEvidence) THEN "evidence not pinned"
    ELSE IF claim.predicate \notin KnownPredicates THEN "unknown predicate"
    ELSE IF claim.end < claim.start THEN "interval reversed"
    ELSE IF claim.start < WindowStart \/ claim.end > WindowEnd THEN "outside the window"
    ELSE Admitted

-----------------------------------------------------------------------------
(* run_investigation.                                                      *)

\* Mutant: the budget is tested before the call is counted, so one more passes.
OverBudgetMutant(calls) == tool_calls_made + calls > budget.max_tool_calls + 1

\* Some call of this turn is the one that makes tool_calls_made exceed the
\* budget.
OverBudget(calls) == tool_calls_made + calls > budget.max_tool_calls

\* Mutant: nothing ends the loop but the provider or the tool budget.
LastTurnMutant == FALSE

\* The `for` over max_turns ends after this turn.
LastTurn == turns + 1 = budget.max_turns

\* The hypotheses a turn names; a claim may name none.
HypothesesOf(claims) ==
    {c.hypothesis : c \in {d \in Range(claims) : d.hypothesis # NoHypothesis}}

\* What the gate makes of one claim; proposed keeps what it has seen.
Gate(claim, lists) ==
    [accepted |-> IF admit(claim) = Admitted THEN Append(lists.accepted, claim) ELSE lists.accepted,
     rejected |-> IF admit(claim) = Admitted THEN lists.rejected
                  ELSE Append(lists.rejected, [claim |-> claim, reason |-> admit(claim)]),
     proposed |-> Append(lists.proposed, claim)]

\* The lists after the loop over the claims of a turn.
Gated(claims) ==
    LET after[k \in 0..Len(claims)] ==
            IF k = 0 THEN [accepted |-> accepted, rejected |-> rejected, proposed |-> proposed]
            ELSE Gate(claims[k], after[k - 1])
    IN  after[Len(claims)]

GateClaims(claims) ==
    /\ accepted' = Gated(claims).accepted
    /\ rejected' = Gated(claims).rejected
    /\ proposed' = Gated(claims).proposed
    /\ hypotheses' = hypotheses \cup HypothesesOf(claims)

Turn(claims, calls) ==
    /\ status = "running"
    /\ turns < budget.max_turns
    /\ turns' = turns + 1
    /\ GateClaims(claims)
    /\ UNCHANGED budget
    /\ wantedTools' = (calls > 0)
    /\ tool_calls_made' = IF OverBudget(calls) THEN budget.max_tool_calls + 1 ELSE tool_calls_made + calls
    /\ tool_results' = IF OverBudget(calls) THEN budget.max_tool_calls ELSE tool_results + calls
    /\ status' = IF calls = 0 \/ OverBudget(calls) \/ LastTurn THEN "done" ELSE "running"
    /\ budget_exhausted' = (calls > 0 /\ (OverBudget(calls) \/ LastTurn))

\* range(0): no turn at all.
NoTurns ==
    /\ status = "running"
    /\ budget.max_turns = 0
    /\ status' = "done"
    /\ budget_exhausted' = TRUE
    /\ UNCHANGED <<budget, turns, tool_calls_made, tool_results, accepted, rejected,
                   hypotheses, proposed, wantedTools>>

InvestigationStep ==
    \/ \E n \in 0..ClaimsPerTurn, calls \in 0..CallsPerTurn :
          \E claims \in [1..n -> Proposable] : Turn(claims, calls)
    \/ NoTurns

-----------------------------------------------------------------------------
(* Properties.                                                             *)

InvestigationTypeOK ==
    /\ budget \in Budgets
    /\ turns \in 0..budget.max_turns
    /\ tool_calls_made \in Nat
    /\ tool_results \in Nat
    /\ Range(accepted) \subseteq Proposable
    /\ hypotheses \subseteq {c.hypothesis : c \in Proposable} \ {NoHypothesis}
    /\ status \in {"running", "done"}
    /\ budget_exhausted \in BOOLEAN

\* Nothing reaches adjudicate without passing admit (claim_gate.py:8-13): every
\* accepted claim cites evidence, all of it in the pinned epoch, under a
\* registered predicate and within the case window, and accepted and rejected
\* together are exactly what was proposed, over all turns.
GateIsTheOnlyWayIn ==
    /\ \A i \in DOMAIN accepted :
          /\ accepted[i].evidence # {}
          /\ \A e \in accepted[i].evidence : e \in PinnedEvidence
          /\ accepted[i].predicate \in KnownPredicates
          /\ WindowStart <= accepted[i].start
          /\ accepted[i].start <= accepted[i].end
          /\ accepted[i].end <= WindowEnd
    /\ Len(accepted) + Len(rejected) = Len(proposed)
    /\ \A c \in Proposable :
          Cardinality({i \in DOMAIN proposed : proposed[i] = c})
            = Cardinality({i \in DOMAIN accepted : accepted[i] = c})
              + Cardinality({i \in DOMAIN rejected : rejected[i].claim = c})

\* The budget is a bound and it is reported honestly (investigator.py:58-62): no
\* more tool results than max_tool_calls are ever fed back, and an
\* investigation that ended is marked budget_exhausted exactly when the
\* provider still wanted tools at its end, or had no turn to say so.
BudgetIsHonest ==
    /\ tool_results <= budget.max_tool_calls
    /\ tool_results <= tool_calls_made
    /\ status = "done" => (budget_exhausted <=> (wantedTools \/ turns = 0))
    /\ status = "running" => tool_calls_made = tool_results /\ ~budget_exhausted

\* An InvestigationResult can be taken at its word (investigator.py:33-37):
\* what it lists passed or failed the gate as it says, and budget_exhausted
\* tells a partial claim set from a finished one.
ResultIsHonest == GateIsTheOnlyWayIn /\ BudgetIsHonest

\* Whatever the provider answers, the investigation ends.
InvestigationEnds == <>(status = "done")
=============================================================================
