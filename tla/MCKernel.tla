------------------------------ MODULE MCKernel ------------------------------
(***************************************************************************)
(* Requests under three policies.  Five bit arithmetic makes a handful of  *)
(* claims saturate.                                                        *)
(***************************************************************************)
EXTENDS Requests

\* Two claims of one predicate with opposite polarity, on both sides of the
\* others in claim_id order; a claim without evidence; an unpriced predicate.
MCCatalogue ==
    {[id |-> 1, predicate |-> "AUTH_FAILED_BURST",    polarity |-> "supports", evidence |-> {"e1"}],
     [id |-> 2, predicate |-> "CONNECTED_TO_INDICATOR", polarity |-> "refutes", evidence |-> {"e1", "e2"}],
     [id |-> 3, predicate |-> "CONNECTED_TO_INDICATOR", polarity |-> "supports", evidence |-> {"e2"}],
     [id |-> 4, predicate |-> "DISCOVERY_SCAN",       polarity |-> "supports", evidence |-> {}],
     [id |-> 5, predicate |-> "DISCOVERY_SCAN",       polarity |-> "refutes",  evidence |-> {"e3"}],
     [id |-> 6, predicate |-> "AUTH_FAILED_BURST",    polarity |-> "refutes",  evidence |-> {"e3"}],
     [id |-> 7, predicate |-> "DEBUG_MARKER",         polarity |-> "supports", evidence |-> {"e4"}],
     [id |-> 8, predicate |-> "LOGON_ANOMALY",        polarity |-> "refutes",  evidence |-> {"e4"}]}

Weight(t, w, techniques) == [tactic |-> t, weight |-> w, techniques |-> techniques]

\* Credential access (6), discovery (7) and command and control (10): 6 and 7
\* are adjacent, 7 and 10 are neighbours when both are present and are not.
MCPolicies ==
    {[version    |-> "v1",
      weights    |-> ("AUTH_FAILED_BURST" :> Weight(6, 6, {"T1110"}) @@
                      "CONNECTED_TO_INDICATOR" :> Weight(10, 12, {"T1071"}) @@
                      "DISCOVERY_SCAN" :> Weight(7, 2, {"T1046", "T1071"})),
      chain      |-> (<<6, 7>> :> 3 @@ <<7, 10>> :> 5),
      thresholds |-> <<<<0, Info>>, <<4, Medium>>, <<12, Critical>>>>],
     [version    |-> "v2",
      weights    |-> ("AUTH_FAILED_BURST" :> Weight(6, 1, {"T1110"}) @@
                      "LOGON_ANOMALY" :> Weight(6, MinInt, {"T1078"})),
      chain      |-> << >>,
      thresholds |-> <<<<2, Low>>, <<3, High>>>>],
     [version    |-> "v3",
      weights    |-> ("AUTH_FAILED_BURST" :> Weight(7, 9, {}) @@
                      "CONNECTED_TO_INDICATOR" :> Weight(7, 12, {"T1071"}) @@
                      "DISCOVERY_SCAN" :> Weight(6, 9, {"T1046"})),
      chain      |-> (<<6, 7>> :> MaxInt),
      thresholds |-> <<<<-3, Info>>, <<9, High>>>>]}
=============================================================================
