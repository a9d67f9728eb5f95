----------------------------- MODULE MCRederive -----------------------------
(***************************************************************************)
(* An instance of Rederive: three claims that pass the gate, of which two  *)
(* assert the same under different claim_ids, one that refutes, and one    *)
(* claim per reason to be rejected for.                                    *)
(***************************************************************************)
EXTENDS Rederive, TLC

Claim(id, key, predicate, polarity, evidence, start, end, hypothesis) ==
    [id |-> id, key |-> key, predicate |-> predicate, polarity |-> polarity,
     evidence |-> evidence, start |-> start, end |-> end, hypothesis |-> hypothesis]

Burst    == Claim(1, "burst", "AUTH_FAILED_BURST", "supports", {"e1"}, 2, 3, "H1")
Burst2   == Claim(4, "burst", "AUTH_FAILED_BURST", "supports", {"e1"}, 2, 3, "H2")
Connect  == Claim(2, "connect", "CONNECTED_TO_INDICATOR", "supports", {"e1", "e2"}, 1, 4, "H1")
Alibi    == Claim(3, "alibi", "CONNECTED_TO_INDICATOR", "refutes", {"e2"}, 3, 3, NoHypothesis)
NoProof  == Claim(5, "noproof", "AUTH_FAILED_BURST", "supports", {}, 2, 3, "H1")
Unpinned == Claim(6, "unpinned", "AUTH_FAILED_BURST", "supports", {"e1", "e9"}, 2, 3, "H1")
Unknown  == Claim(7, "unknown", "MARK_BENIGN", "refutes", {"e1"}, 2, 3, NoHypothesis)
Reversed == Claim(8, "reversed", "AUTH_FAILED_BURST", "supports", {"e1"}, 3, 2, NoHypothesis)
Early    == Claim(9, "early", "AUTH_FAILED_BURST", "supports", {"e1"}, 0, 3, NoHypothesis)

MCProposable == {Burst, Burst2, Connect, Alibi, NoProof, Unpinned, Unknown, Reversed, Early}

MCOriginalClaimSets == {<<Burst, Connect>>, <<Connect, Alibi>>, <<Connect>>}

\* Two turns with room for two tool calls, one turn without any, and no turn.
MCBudgets == {[max_tool_calls |-> 2, max_turns |-> 2],
              [max_tool_calls |-> 0, max_turns |-> 1],
              [max_tool_calls |-> 1, max_turns |-> 0]}

MCCasePolicy ==
    [version    |-> "v1",
     weights    |-> ("AUTH_FAILED_BURST" :> [tactic |-> 6, weight |-> 3, techniques |-> {"T1110"}] @@
                     "CONNECTED_TO_INDICATOR" :> [tactic |-> 10, weight |-> 4, techniques |-> {"T1071"}]),
     chain      |-> << >>,
     thresholds |-> <<<<0, Info>>, <<3, Medium>>, <<6, High>>>>]
=============================================================================
