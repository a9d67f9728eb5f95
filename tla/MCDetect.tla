------------------------------ MODULE MCDetect ------------------------------
(***************************************************************************)
(* The shipped rules over small menus of events: complete ones, ones that  *)
(* lack a field or have it with another type, and ones at equal times.     *)
(***************************************************************************)
EXTENDS Detect, Rules

MCAssetGroups == [n \in {"ci-runners", "corporate-egress"} |-> <<Str("198.51.100.9")>>]

MCSchema ==
    [f \in {"time", "activity_id", "status_id", Dist} |-> "int"] @@
    [f \in {User, IP, UserType, ASN, "host.uid", "session_id"} |-> "string"] @@
    ("is_run_key" :> "bool")

At(t)        == "time" :> Whole(t)
Logon(s)     == "activity_id" :> Whole(1) @@ "status_id" :> Whole(s)
By(user)     == User :> Str(user)
From(ip)     == IP :> Str(ip)
Typed(type)  == UserType :> Str(type)
Via(asn)     == ASN :> Str(asn)
After(km)    == Dist :> Whole(km)
Session(s)   == "session_id" :> s
RunKey(v)    == "activity_id" :> Whole(1) @@ "is_run_key" :> v
On(host)     == "host.uid" :> Str(host)

Grouped == "198.51.100.9"     \* an address in both asset groups
Other   == "192.0.2.10"

BurstEvents ==
    {Logon(2) @@ By("alice") @@ From(Other) @@ Typed("user") @@ At(1),
     Logon(2) @@ By("alice") @@ From(Other) @@ Typed("user") @@ At(3),
     Logon(2) @@ By("alice") @@ From(Grouped) @@ Typed("service") @@ At(2),
     Logon(2) @@ By("alice") @@ From(Grouped) @@ At(4),
     Logon(2) @@ From(Grouped) @@ Typed("user") @@ At(5),
     Logon(1) @@ By("alice") @@ From(Other) @@ Typed("user") @@ At(4),
     Logon(1) @@ By("bob") @@ From(Other) @@ Typed("user") @@ At(6)}

AsnEvents ==
    {Logon(1) @@ By("alice") @@ Via("AS1") @@ At(1),
     Logon(1) @@ By("alice") @@ Via("AS2") @@ At(2),
     Logon(1) @@ By("alice") @@ At(3),
     Logon(2) @@ By("alice") @@ Via("AS2") @@ At(4),
     Logon(1) @@ By("bob") @@ Via("AS2") @@ At(3)}

AsnHistories ==
    {<<Logon(1) @@ By("alice") @@ Via("AS1") @@ At(-2), Logon(1) @@ By("alice") @@ Via("AS1") @@ At(-1)>>,
     <<Logon(1) @@ By("bob") @@ Via("AS2") @@ At(-2), Logon(1) @@ By("bob") @@ At(-1)>>}

TravelEvents ==
    {Logon(1) @@ By("alice") @@ From(Other) @@ At(1),
     Logon(1) @@ By("alice") @@ From(Other) @@ After(30) @@ At(1),
     Logon(1) @@ By("alice") @@ From(Other) @@ After(30) @@ At(3),
     Logon(1) @@ By("alice") @@ From(Other) @@ After(20) @@ At(4),
     Logon(1) @@ By("alice") @@ From(Grouped) @@ After(30) @@ At(2),
     Logon(1) @@ By("alice") @@ After(30) @@ At(4),
     Logon(1) @@ By("bob") @@ From(Other) @@ After(0) @@ At(5)}

RunKeyEvents ==
    {RunKey(Bool(TRUE)) @@ On("h1") @@ At(1),
     RunKey(Bool(FALSE)) @@ On("h1") @@ At(2),
     RunKey(Whole(1)) @@ On("h1") @@ At(3),
     RunKey(Bool(TRUE)) @@ On("h2") @@ At(4),
     RunKey(Bool(TRUE)) @@ At(5)}

TokenEvents ==
    {Logon(1) @@ Session(Str("1")) @@ From(Other) @@ At(1),
     Logon(1) @@ Session(Whole(1)) @@ From(Other) @@ At(2),
     Logon(1) @@ Session(Str("1")) @@ From(Grouped) @@ At(3),
     Logon(1) @@ Session(Str("1")) @@ At(4),
     Logon(1) @@ Session(Str("1")) @@ (IP :> Nil) @@ At(5),
     Logon(2) @@ Session(Str("2")) @@ From(Grouped) @@ At(6)}

MCEvents ==
    ("auth-burst-then-success" :> BurstEvents) @@
    ("auth-from-new-asn" :> AsnEvents) @@
    ("impossible-travel" :> TravelEvents) @@
    ("registry-run-key-installed" :> RunKeyEvents) @@
    ("token-replayed" :> TokenEvents)

MCHistories ==
    [r \in DOMAIN MCEvents |-> IF r = "auth-from-new-asn" THEN AsnHistories ELSE {}]
=============================================================================
