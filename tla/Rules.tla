------------------------------- MODULE Rules --------------------------------
(***************************************************************************)
(* The rules the repository ships (rules/), parsed.  Thresholds and units  *)
(* are scaled to corpora of a few events: a burst is two failures, an hour *)
(* one unit of time, the limit of travel 9 units of distance per hour, and *)
(* a baseline is warm after two observations.  rdp-internal-first-time has *)
(* the clauses of auth-from-new-asn over other fields and is left out.     *)
(***************************************************************************)
EXTENDS Expr

Field(f)          == Ident(f)
Agg(s, what)      == Ident(<<s, what>>)
AggOf(s, what, f) == Ident(<<s, what, f>>)
Eq(l, r)          == Node("==", <<l, r>>)
And(l, r)         == Node("and", <<l, r>>)
Number(n)         == Literal(Whole(n))
Text(s)           == Literal(Str(s))

Source(where, groupBy, trackDistinct, trackLast) ==
    [where |-> where, group_by |-> groupBy,
     track_distinct |-> trackDistinct, track_last |-> trackLast]

Emit(predicate, when, observed) ==
    [predicate |-> predicate, when |-> when, observed |-> observed]

User == "actor.user.uid"
IP   == "src_endpoint.ip"
UserType == "actor.user.type"
ASN  == "cloud.asn"
Dist == "distance_from_prev_km"

Burst == 2
Hour  == 1
Limit == 9

LogonWithStatus(n) == And(Eq(Field("activity_id"), Number(1)), Eq(Field("status_id"), Number(n)))

authBurstThenSuccess ==
    [id |-> "auth-burst-then-success", entity |-> User, names |-> <<"failures", "success">>,
     warmup_threshold |-> 0, observations |-> {},
     sources |-> [failures |-> Source(LogonWithStatus(2), {User, IP}, {}, {UserType}),
                  success  |-> Source(LogonWithStatus(1), {User}, {}, {})],
     emits |-> <<
        Emit("AUTH_FAILED_BURST",
             Node(">=", <<Agg("failures", "count"), Number(Burst)>>), Agg("failures", "count")),
        Emit("AUTH_SUCCEEDED_AFTER_FAILURES",
             And(And(Agg("failures", "exists"), Agg("success", "exists")),
                 Node(">", <<Agg("success", "last_ts"), Agg("failures", "last_ts")>>)),
             Node("-", <<Agg("success", "last_ts"), Agg("failures", "last_ts")>>))>>,
     suppress |-> <<
        And(Eq(AggOf("failures", "last", UserType), Text("service")),
            Node("in", <<AggOf("failures", "group", IP),
                         Node("asset_group", <<Text("ci-runners")>>)>>))>>]

authFromNewAsn ==
    [id |-> "auth-from-new-asn", entity |-> User, names |-> <<"auths">>,
     warmup_threshold |-> 2, observations |-> {[attribute |-> "asn", from |-> ASN]},
     sources |-> [auths |-> Source(LogonWithStatus(1), {User}, {}, {ASN})],
     emits |-> <<
        Emit("AUTH_FROM_NEW_ASN",
             Node("baseline_is_novel",
                  <<AggOf("auths", "group", User), Text("asn"), AggOf("auths", "last", ASN)>>),
             AggOf("auths", "last", ASN))>>,
     suppress |-> <<>>]

Velocity ==
    Node("/", <<AggOf("auths", "last", Dist),
                Node("/", <<Node("-", <<Agg("auths", "last_ts"), Agg("auths", "first_ts")>>),
                            Number(Hour)>>)>>)

impossibleTravel ==
    [id |-> "impossible-travel", entity |-> User, names |-> <<"auths">>,
     warmup_threshold |-> 0, observations |-> {},
     sources |-> [auths |-> Source(LogonWithStatus(1), {User}, {}, {Dist, IP})],
     emits |-> <<
        Emit("TRAVEL_IMPOSSIBLE",
             And(And(Node(">=", <<Agg("auths", "count"), Number(2)>>),
                     Node("!=", <<AggOf("auths", "last", Dist), Literal(Nil)>>)),
                 Node(">", <<Velocity, Number(Limit)>>)),
             Velocity)>>,
     suppress |-> <<
        Node("in", <<AggOf("auths", "last", IP),
                     Node("asset_group", <<Text("corporate-egress")>>)>>)>>]

registryRunKeyInstalled ==
    [id |-> "registry-run-key-installed", entity |-> "host.uid", names |-> <<"registry">>,
     warmup_threshold |-> 0, observations |-> {},
     sources |-> [registry |->
        Source(And(Eq(Field("activity_id"), Number(1)), Eq(Field("is_run_key"), Literal(Bool(TRUE)))),
               {"host.uid"}, {}, {})],
     emits |-> <<
        Emit("PERSISTENCE_INSTALLED",
             Node(">=", <<Agg("registry", "count"), Number(1)>>), Agg("registry", "count"))>>,
     suppress |-> <<>>]

tokenReplayed ==
    [id |-> "token-replayed", entity |-> "session_id", names |-> <<"sessions">>,
     warmup_threshold |-> 0, observations |-> {},
     sources |-> [sessions |-> Source(LogonWithStatus(1), {"session_id"}, {IP}, {})],
     emits |-> <<
        Emit("TOKEN_REPLAYED",
             Node(">=", <<AggOf("sessions", "distinct", IP), Number(2)>>),
             AggOf("sessions", "distinct", IP))>>,
     suppress |-> <<>>]

ShippedRules ==
    {authBurstThenSuccess, authFromNewAsn, impossibleTravel, registryRunKeyInstalled, tokenReplayed}
=============================================================================
