---------------------------- MODULE MCCaseStore ----------------------------
(***************************************************************************)
(* An instance of CaseStore: three claim lists, two policies, of which the *)
(* second prices the indicator predicate, an invalid policy, and two       *)
(* corpora of known-bad indicators.                                        *)
(***************************************************************************)
EXTENDS CaseStore, TLC

Claim(id, predicate, object, evidence) ==
    [id |-> id, predicate |-> predicate, object |-> object,
     polarity |-> "supports", evidence |-> evidence]

Burst   == Claim(2, "AUTH_FAILED_BURST", NoObject, {"e1"})
Connect == Claim(1, "CONNECTED_TO_INDICATOR", "45.61.0.12", {"e2"})
Other   == Claim(3, "CONNECTED_TO_INDICATOR", "203.0.113.7", {"e3"})
Persist == Claim(4, "PERSISTENCE_INSTALLED", "45.61.0.12", {"e3"})

\* The second list has two indicators of one predicate; the third mentions a
\* listed value under another predicate.
MCClaimSets == {<<Burst, Connect>>, <<Connect, Other>>, <<Persist, Burst>>}

Weight(t, w, techniques) == [tactic |-> t, weight |-> w, techniques |-> techniques]

Policy(version, weights, thresholds) ==
    [version |-> version, weights |-> weights, chain |-> << >>, thresholds |-> thresholds]

Tiers == <<<<0, Info>>, <<3, Medium>>, <<6, High>>, <<9, Critical>>>>

V1 == "AUTH_FAILED_BURST" :> Weight(6, 3, {"T1110"}) @@
      "CONNECTED_TO_INDICATOR" :> Weight(10, 0, {"T1071"}) @@
      "PERSISTENCE_INSTALLED" :> Weight(3, 1, {"T1547"})

V2 == "AUTH_FAILED_BURST" :> Weight(6, 6, {"T1110"}) @@
      "CONNECTED_TO_INDICATOR" :> Weight(10, 4, {"T1071"})

MCPolicyTable ==
    [p \in {"v1", "v2", "bad"} |->
        CASE p = "v1"  -> Policy("v1", V1, Tiers)
          [] p = "v2"  -> Policy("v2", V2, Tiers)
          [] p = "bad" -> Policy("bad", V1, <<>>)]

Entry(predicate, value, w, techniques) ==
    [predicate |-> predicate, value |-> value, weight |-> w, techniques |-> techniques]

\* The second corpus prices the two indicators differently: the case that cites
\* both cannot be repriced.  It also lists one indicator twice, and one of a
\* predicate that v2 does not know.
MCCorpora ==
    {[version |-> "c1",
      entries |-> <<Entry("CONNECTED_TO_INDICATOR", "45.61.0.12", 4, {})>>],
     [version |-> "c2",
      entries |-> <<Entry("CONNECTED_TO_INDICATOR", "45.61.0.12", 7, {"T1090"}),
                    Entry("CONNECTED_TO_INDICATOR", "203.0.113.7", 5, {}),
                    Entry("CONNECTED_TO_INDICATOR", "45.61.0.12", 1, {}),
                    Entry("PERSISTENCE_INSTALLED", "45.61.0.12", 3, {})>>]}

Symmetry == Permutations(Tenants) \cup Permutations(CaseIds)
=============================================================================
