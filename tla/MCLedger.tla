------------------------------ MODULE MCLedger ------------------------------
(***************************************************************************)
(* An instance of Ledger: one source with two versions of its mapping, and *)
(* corpora with a blank line, a repeated event, events that differ only in *)
(* how a time is written, and lines that fail half way.                    *)
(***************************************************************************)
EXTENDS Ledger, TLC

Field(target, from, type) == [target |-> target, from |-> from, type |-> type]

Mapping(version, fields) ==
    [source_id |-> "cloudtrail", mapping_version |-> version, schema_version |-> "1.0.0",
     fields |-> fields, unmapped_passthrough |-> TRUE]

\* Two targets share an object, as actor.user.uid and actor.user.name do.
MCMappings ==
    {Mapping("1", {Field(<<"actor", "uid">>, <<"userIdentity", "arn">>, ""),
                   Field(<<"actor", "name">>, <<"userIdentity", "userName">>, ""),
                   Field(<<"time">>, <<"eventTime">>, "timestamp_ns")}),
     Mapping("2", {Field(<<"actor", "uid">>, <<"userIdentity", "arn">>, ""),
                   Field(<<"code">>, <<"errorCode">>, "int")})}

Login(time) ==
    <<"userIdentity", "arn">> :> <<"string", "arn:alice">> @@
    <<"userIdentity", "userName">> :> <<"string", "alice">> @@
    <<"userIdentity", "type">> :> <<"string", "IAMUser">> @@
    <<"eventTime">> :> time

Zulu   == <<"time", "2026-01-01T00:00:00Z", 0>>
Offset == <<"time", "2026-01-01T01:00:00+01:00", 0>>

Region == <<"userIdentity", "arn">> :> <<"string", "arn:bob">> @@
          <<"awsRegion">> :> <<"string", "eu-west-1">> @@
          <<"errorCode">> :> <<"int", 7>>

Bare == <<"awsRegion">> :> <<"string", "eu-west-1">>

Fractional == <<"latency">> :> <<"fraction", "0.5">>

MCCorpora ==
    {<<Login(Zulu), Blank, Region, Bare>>,
     <<Login(Offset), Region, Login(Zulu), Region>>,
     <<Region, Fractional, Bare>>,
     <<Bare, Malformed>>}

Symmetry == Permutations(Workers)
=============================================================================
