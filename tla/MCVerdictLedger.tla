-------------------------- MODULE MCVerdictLedger --------------------------
(* One tenant with four manifests, so that one link is broken, and one with *)
(* one.  Five pieces of evidence in one case make a padded tree of three    *)
(* levels; claims come in another order than their ids.                     *)
EXTENDS VerdictLedger

C(predicate, polarity, evidence) == [predicate |-> predicate, polarity |-> polarity, evidence |-> evidence]

MCTenants == <<"tenant-alpha", "tenant-beta">>
MCTenantCases == [t \in Range(MCTenants) |->
                     IF t = "tenant-alpha" THEN <<"c1", "c2", "c3", "c4">> ELSE <<"c5">>]
MCVocabulary ==
    "AUTH_FAILED_BURST" :> [tactic |-> 1, length |-> 17, techniques |-> {"T1110"}]
    @@ "ENCODED_COMMAND" :> [tactic |-> 2, length |-> 15, techniques |-> {"T1027", "T1059.001"}]
    @@ "DATA_EXFILTRATED" :> [tactic |-> 11, length |-> 16, techniques |-> {"T1041"}]
MCRawClaims ==
    [c \in {"c1", "c2", "c3", "c4", "c5"} |->
        CASE c = "c1" -> <<C("ENCODED_COMMAND", "supports", {1, 2, 3}),
                           C("AUTH_FAILED_BURST", "supports", {4, 5})>>
          [] c = "c2" -> <<C("DATA_EXFILTRATED", "refutes", {6})>>
          [] c = "c3" -> <<C("AUTH_FAILED_BURST", "supports", {1, 7}),
                           C("DATA_EXFILTRATED", "supports", {7}),
                           C("AUTH_FAILED_BURST", "refutes", {8})>>
          [] c = "c4" -> <<C("ENCODED_COMMAND", "supports", {2})>>
          [] c = "c5" -> <<C("DATA_EXFILTRATED", "supports", {3, 9}),
                           C("ENCODED_COMMAND", "refutes", {9})>>]
MCIds == [c \in {"c1", "c2", "c3", "c4", "c5"} |->
             CASE c = "c1" -> <<9, 2>> [] c = "c2" -> <<8>> [] c = "c3" -> <<3, 1, 7>>
               [] c = "c4" -> <<6>> [] c = "c5" -> <<5, 4>>]
MCClaimId == [c \in DOMAIN MCIds |-> [i \in DOMAIN MCIds[c] |-> [process \in 0..1 |-> [tampered \in BOOLEAN |->
                 MCIds[c][i] + 100 * process + IF tampered THEN 1000 ELSE 0]]]]
MCCompletedAt == [c \in {"c1", "c2", "c3", "c4", "c5"} |->
                     CASE c = "c5" -> 5 [] c = "c2" -> 4 [] c = "c4" -> 3 [] c = "c1" -> 2 [] c = "c3" -> 1]
=============================================================================
