------------------------------- MODULE Detect -------------------------------
(***************************************************************************)
(* The detection engine (detect/): a rule is evaluated over a corpus of    *)
(* events twice, directly by EvaluateStreaming and as SQL by RunSQL, both  *)
(* against a store of baselines that WarmUpBaseline fills beforehand.      *)
(*                                                                         *)
(* An event is a function from the dotted paths of its leaves to scalars;  *)
(* every event has an integer time, which ingest puts there.  A rule is    *)
(* what LoadRule returns, with its expressions parsed.                     *)
(***************************************************************************)
EXTENDS Expr, FiniteSets

CONSTANTS
    Rules,        \* the rules
    Events,       \* Events[id]: the events of the corpora for rule id
    Histories,    \* Histories[id]: the corpora a baseline is warmed up with
    Schema,       \* Schema[f]: the type field f has in normalised events
    MaxEvents,    \* bound: events in a corpus
    MaxWarmUps    \* bound: calls of WarmUpBaseline

VARIABLES
    rule,         \* the rule under evaluation
    store,        \* its stats.Store
    corpus,       \* the events LoadFixture returned
    stream,       \* what EvaluateStreaming returned for corpus and store
    sql,          \* what RunSQL returned for corpus and store
    history       \* the corpora the store was warmed up with

vars == <<rule, store, corpus, stream, sql, history>>

\* The structure Validate insists on (ids, titles and test fixtures apart).
Validate(r) ==
    /\ r.emits # <<>>
    /\ r.sources # <<>>
    /\ \E s \in DOMAIN r.sources : r.entity \in r.sources[s].group_by
    /\ r.observations # {} => r.warmup_threshold > 0

ASSUME DetectAssumption ==
    /\ \A r \in Rules : Validate(r)
    /\ MaxEvents \in Nat /\ MaxWarmUps \in Nat

\* The result of a call: none yet, an error, or claims.
NotRun         == [status |-> "none", claims |-> <<>>]
Failed         == [status |-> "error", claims |-> <<>>]
Returned(seq)  == [status |-> "claims", claims |-> seq]

\* A claim as ClaimKey compares it: floats print like integers if whole.
renderObserved(v) ==
    IF Kind(v) # "float" THEN renderScalar(v)
    ELSE IF v[3] = 1 THEN ToString(v[2]) ELSE ToString(v[2]) \o "/" \o ToString(v[3])

Claim(predicate, entity, observed) ==
    [Predicate |-> predicate, Entity |-> renderScalar(entity), Observed |-> renderObserved(observed)]

\* Sorted lists of keys are equal iff every key is there equally often.
ClaimKeys(claims) == ToBag(claims)

(***************************************************************************)
(* Cases and aggregates, streaming.                                        *)
(***************************************************************************)
unionGroupFields(r) == UNION {r.sources[s].group_by : s \in DOMAIN r.sources}

groupKey(values, fields) == [f \in fields |-> renderScalar(values[f])]

\* In order of first appearance; an event without one of the fields has none.
enumerateCases(events, fields) ==
    LET Add(cases, ev) ==
            IF /\ fields \subseteq DOMAIN ev
               /\ \A i \in DOMAIN cases : groupKey(cases[i], fields) # groupKey(ev, fields)
            THEN Append(cases, Restrict(ev, fields)) ELSE cases
    IN  FoldLeft(Add, <<>>, events)

EmptyAggregate(src) ==
    [error |-> FALSE, Count |-> 0, FirstTS |-> 0, LastTS |-> 0,
     Distinct |-> [f \in src.track_distinct |-> {}], Last |-> <<>>]

eventEnv(ev) == [f \in DOMAIN Schema |-> Lookup(ev, f, Nil)]

\* Mutant: whatever event comes last is the latest.
AccumulateMutant(src, agg, ev) ==
    LET ts == ev["time"][2] IN
    [agg EXCEPT
        !.FirstTS  = IF agg.Count = 0 \/ ts < @ THEN ts ELSE @,
        !.Count    = @ + 1,
        !.LastTS   = IF agg.Count = 0 \/ ts >= @ THEN ts ELSE @,
        !.Last     = Restrict(ev, src.track_last \intersect DOMAIN ev) @@ @,
        !.Distinct = [f \in DOMAIN @ |->
                         @[f] \union (IF f \in DOMAIN ev THEN {renderScalar(ev[f])} ELSE {})]]

\* One matching event.  A tracked field the latest event lacks keeps the
\* value it has; the later of two events at one time wins.
Accumulate(src, agg, ev) ==
    LET ts     == ev["time"][2]
        latest == agg.Count = 0 \/ ts >= agg.LastTS
    IN  [agg EXCEPT
            !.FirstTS  = IF agg.Count = 0 \/ ts < @ THEN ts ELSE @,
            !.Count    = @ + 1,
            !.LastTS   = IF latest THEN ts ELSE @,
            !.Last     = IF latest THEN Restrict(ev, src.track_last \intersect DOMAIN ev) @@ @
                                   ELSE @,
            !.Distinct = [f \in DOMAIN @ |->
                             @[f] \union (IF f \in DOMAIN ev THEN {renderScalar(ev[f])} ELSE {})]]

\* An event for which the where clause gives matched; the first error stays.
AddEvent(src, case, agg, ev, matched) ==
    LET inGroup == /\ src.group_by \subseteq DOMAIN ev
                   /\ groupKey(ev, src.group_by) = groupKey(case, src.group_by)
    IN  IF agg.error THEN agg
        ELSE IF matched = Error THEN [agg EXCEPT !.error = TRUE]
        ELSE IF matched = Bool(TRUE) /\ inGroup THEN Accumulate(src, agg, ev)
        ELSE agg

computeAggregate(events, src, case, st) ==
    FoldLeft(LAMBDA agg, ev : AddEvent(src, case, agg, ev, EvalBool(src.where, eventEnv(ev), st)),
             EmptyAggregate(src), events)

\* What an expression over aggregates may name: <source>.<field>.
AggregatePaths(r) ==
    UNION {{<<s, "count">>, <<s, "exists">>, <<s, "first_ts">>, <<s, "last_ts">>}
             \union {<<s, "distinct", f>> : f \in r.sources[s].track_distinct}
             \union {<<s, "last", f>> : f \in r.sources[s].track_last}
             \union {<<s, "group", f>> : f \in r.sources[s].group_by} : s \in DOMAIN r.sources}

aggregateEnv(r, aggs, case) ==
    [p \in AggregatePaths(r) |->
        LET agg == aggs[p[1]] IN
        CASE p[2] = "count"    -> Whole(agg.Count)
          [] p[2] = "exists"   -> Bool(agg.Count > 0)
          [] p[2] = "first_ts" -> Whole(agg.FirstTS)
          [] p[2] = "last_ts"  -> Whole(agg.LastTS)
          [] p[2] = "distinct" -> Whole(Cardinality(agg.Distinct[p[3]]))
          [] p[2] = "last"     -> Lookup(agg.Last, p[3], Nil)
          [] p[2] = "group"    -> case[p[3]]]

(***************************************************************************)
(* EvaluateStreaming: a loop over the cases that stops at the first error. *)
(* run.state is "suppressed" until the case ends.  No where clause asks    *)
(* for a baseline, so only the other clauses are looked at for queries.    *)
(***************************************************************************)
SuppressClause(run, matched, queried) ==
    IF run.state # "on" THEN run
    ELSE [run EXCEPT !.queried = @ \union queried,
                     !.state = CASE matched = Error      -> "error"
                                 [] matched = Bool(TRUE) -> "suppressed"
                                 [] OTHER                -> "on"]

EmitWhen(run, matched, queried) ==
    [run EXCEPT !.queried = @ \union queried,
                !.state = IF matched = Error THEN "error" ELSE @,
                !.fires = matched = Bool(TRUE)]

EmitObserved(run, predicate, entity, observed, queried) ==
    IF ~run.fires THEN run
    ELSE [run EXCEPT !.queried = @ \union queried,
                     !.state = IF observed = Error THEN "error" ELSE @,
                     !.claims = IF observed = Error THEN @
                                ELSE Append(@, Claim(predicate, entity, observed))]

EmitClause(run, emit, entity, env, st) ==
    IF run.state # "on" THEN run
    ELSE EmitObserved(EmitWhen(run, EvalBool(emit.when, env, st), Queried(emit.when, env, st)),
                      emit.predicate, entity,
                      Eval(emit.observed, env, st), Queried(emit.observed, env, st))

\* Suppressions first, then what the case emits.
EvaluateClauses(r, run, case, env, st) ==
    LET Suppress(acc, clause) ==
            SuppressClause(acc, EvalBool(clause, env, st), Queried(clause, env, st))
        EmitOne(acc, emit) == EmitClause(acc, emit, case[r.entity], env, st)
    IN  [FoldLeft(EmitOne, FoldLeft(Suppress, run, r.suppress), r.emits)
            EXCEPT !.state = IF @ = "error" THEN @ ELSE "on"]

WithAggregates(r, run, case, aggs, st) ==
    IF \E s \in DOMAIN aggs : aggs[s].error THEN [run EXCEPT !.state = "error"]
    ELSE EvaluateClauses(r, run, case, aggregateEnv(r, aggs, case), st)

EvaluateCase(r, events, st, run, case) ==
    IF run.state = "error" THEN run
    ELSE WithAggregates(r, run, case,
            [s \in DOMAIN r.sources |-> computeAggregate(events, r.sources[s], case, st)], st)

StreamingRun(r, events, st) ==
    FoldLeft(LAMBDA run, case : EvaluateCase(r, events, st, run, case),
             [state |-> "on", fires |-> FALSE, queried |-> {}, claims |-> <<>>],
             enumerateCases(events, unionGroupFields(r)))

ResultOf(run) == IF run.state = "error" THEN Failed ELSE Returned(run.claims)

StreamingResult(r, events, st) == ResultOf(StreamingRun(r, events, st))

(***************************************************************************)
(* RunSQL: what the compiled queries return from SQLite.                   *)
(***************************************************************************)
Columns(events) == UNION {DOMAIN events[i] : i \in DOMAIN events}

\* The columns every query names, in its common table expressions.
NamedColumns(r) ==
    {"time"} \union
    UNION {Paths(r.sources[s].where) \union r.sources[s].group_by \union
           r.sources[s].track_distinct \union r.sources[s].track_last : s \in DOMAIN r.sources}

\* An absent field is stored as NULL.
EventsTable(events) ==
    [i \in DOMAIN events |-> [c \in Columns(events) |-> SqlValue(Lookup(events[i], c, Nil))]]

\* The source with the most group_by fields; r.names has the names sorted.
anchorSource(r) ==
    LET Size(i) == Cardinality(r.sources[r.names[i]].group_by)
        best    == {i \in DOMAIN r.names : \A j \in DOMAIN r.names : Size(i) >= Size(j)}
    IN  r.names[Min(best)]

AnchorCoversAll(r) ==
    \A s \in DOMAIN r.sources : r.sources[s].group_by \subseteq r.sources[anchorSource(r)].group_by

\* Mutant: the subquery is not correlated with the group (sub.x = sub.x).
LatestMutant(table, matched, members) ==
    {i \in matched : \A j \in matched : table[i]["time"][2] >= table[j]["time"][2]}

\* The rows the subquery for a tracked value sorts first.
Latest(table, matched, members) ==
    {i \in members : \A j \in members : table[i]["time"][2] >= table[j]["time"][2]}

\* One row of <source>_agg.  COUNT(DISTINCT) leaves NULLs out, and the
\* correlated subquery for a tracked value finds no row for a NULL key.
SourceRow(table, src, key, members, chosen) ==
    [key      |-> key,
     count    |-> Cardinality(members),
     first_ts |-> Min({table[i]["time"][2] : i \in members}),
     last_ts  |-> Max({table[i]["time"][2] : i \in members}),
     distinct |-> [f \in src.track_distinct |->
                      Cardinality({table[i][f] : i \in members} \ {Nil})],
     last     |-> [f \in src.track_last |->
                      IF \E g \in src.group_by : key[g] = Nil THEN Nil ELSE table[chosen][f]]]

\* GROUP BY keeps NULLs together.  Which of several rows at the latest time
\* ORDER BY ... LIMIT 1 returns is SQLite's choice, here the first or the last.
GroupRows(table, src, matched, tie) ==
    LET Key(i)     == Restrict(table[i], src.group_by)
        Pick(rows) == IF tie = "first" THEN Min(rows) ELSE Max(rows)
        Row(key, members) ==
            SourceRow(table, src, key, members, Pick(Latest(table, matched, members)))
    IN  {Row(key, {i \in matched : Key(i) = key}) : key \in {Key(i) : i \in matched}}

SourceRows(table, src, st, tie) ==
    GroupRows(table, src, {i \in DOMAIN table : IsTrue(SqlEval(src.where, table[i], st))}, tie)

\* The row a source contributes to a row of the anchor, if any: NULL joins
\* with nothing.
Joined(rows, src, key) ==
    {row \in rows : /\ row.key = Restrict(key, src.group_by)
                    /\ \A g \in src.group_by : key[g] # Nil}

\* A column of the row a source contributes, if any.
sqlColumn(p, joined) ==
    IF joined = {}
    THEN CASE p[2] \in {"count", "distinct"} -> Whole(0)
           [] p[2] = "exists"                -> SqlBool(FALSE)
           [] OTHER                          -> Nil
    ELSE LET row == CHOOSE row \in joined : TRUE IN
         CASE p[2] = "count"    -> Whole(row.count)
           [] p[2] = "exists"   -> SqlBool(row.count > 0)
           [] p[2] = "first_ts" -> Whole(row.first_ts)
           [] p[2] = "last_ts"  -> Whole(row.last_ts)
           [] p[2] = "distinct" -> Whole(row.distinct[p[3]])
           [] p[2] = "last"     -> row.last[p[3]]
           [] p[2] = "group"    -> row.key[p[3]]

\* The columns expressions may name, for one row of the anchor.
sqlColumns(r, rows, anchorRow) ==
    [p \in AggregatePaths(r) |->
        sqlColumn(p, IF p[1] = anchorSource(r) THEN {anchorRow}
                     ELSE Joined(rows[p[1]], r.sources[p[1]], anchorRow.key))]

\* WHERE when AND NOT (suppress OR ...).
Selected(r, emit, columns, st) ==
    LET Either(acc, clause) == SqlApply("or", <<acc, SqlEval(clause, columns, st)>>, st)
        suppressed == FoldLeft(Either, SqlBool(FALSE), r.suppress)
        keep == SqlApply("not", <<suppressed>>, st)
    IN  IsTrue(SqlApply("and", <<SqlEval(emit.when, columns, st), keep>>, st))

\* The query of one emit clause.
QueryClaims(r, emit, rows, st) ==
    LET hits == {row \in rows[anchorSource(r)] : Selected(r, emit, sqlColumns(r, rows, row), st)}
        ClaimOf(row) == Claim(emit.predicate, row.key[r.entity],
                              SqlEval(emit.observed, sqlColumns(r, rows, row), st))
    IN  FoldSet(LAMBDA row, acc : Append(acc, ClaimOf(row)), <<>>, hits)

ClaimsFrom(r, rows, st) ==
    FlattenSeq([i \in DOMAIN r.emits |-> QueryClaims(r, r.emits[i], rows, st)])

CompiledClaims(r, table, st, tie) ==
    ClaimsFrom(r, [s \in DOMAIN r.sources |-> SourceRows(table, r.sources[s], st, tie)], st)

\* An empty corpus has no columns, and a column no event has is an error.
SqlResult(r, events, st, tie) ==
    IF events = <<>> \/ ~AnchorCoversAll(r) \/ ~(NamedColumns(r) \subseteq Columns(events))
    THEN Failed ELSE Returned(CompiledClaims(r, EventsTable(events), st, tie))

(***************************************************************************)
(* The system.                                                             *)
(***************************************************************************)
ObserveEvent(r, st, ev) ==
    IF r.entity \notin DOMAIN ev THEN st
    ELSE LET entity == renderScalar(ev[r.entity])
             One(acc, obs) ==
                IF obs.from \notin DOMAIN ev THEN acc
                ELSE [Get(acc, entity) EXCEPT
                         !.Baselines[entity] = Observe(@, obs.attribute, renderScalar(ev[obs.from]))]
         IN  FoldSet(LAMBDA obs, acc : One(acc, obs), st, r.observations)

WarmedUp(r, st, events) == FoldLeft(LAMBDA acc, ev : ObserveEvent(r, acc, ev), st, events)

Init ==
    /\ rule \in Rules
    /\ store = NewStore(rule.warmup_threshold)
    /\ corpus = <<>>
    /\ stream = NotRun
    /\ sql = NotRun
    /\ history = <<>>

\* Blank lines are skipped; a line that is no object, or has a number that is
\* not whole, makes the call fail and nothing is loaded.
LoadFixture(events) ==
    /\ corpus = <<>>
    /\ corpus' = events
    /\ stream' = NotRun
    /\ sql' = NotRun
    /\ UNCHANGED <<rule, store, history>>

\* Results about the earlier contents of the store are dropped.
WarmUpBaseline(events) ==
    /\ Len(history) < MaxWarmUps
    /\ store' = WarmedUp(rule, store, events)
    /\ history' = Append(history, events)
    /\ stream' = NotRun
    /\ sql' = NotRun
    /\ UNCHANGED <<rule, corpus>>

\* Mutant: the store also records what it was asked about.
EvaluatedMutant(run) ==
    /\ stream' = ResultOf(run)
    /\ store' = WarmedUp(rule, store, corpus)

\* Asking for a baseline creates it.
Evaluated(run) ==
    /\ stream' = ResultOf(run)
    /\ store' = FoldSet(LAMBDA e, acc : Get(acc, e), store, run.queried)

EvaluateStreaming ==
    /\ Evaluated(StreamingRun(rule, corpus, store))
    /\ UNCHANGED <<rule, corpus, sql, history>>

RunSQL(tie) ==
    /\ sql' = SqlResult(rule, corpus, store, tie)
    /\ UNCHANGED <<rule, store, corpus, stream, history>>

Next ==
    \/ \E events \in BoundedSeq(Events[rule.id], MaxEvents) : LoadFixture(events)
    \/ \E events \in Histories[rule.id] : WarmUpBaseline(events)
    \/ EvaluateStreaming
    \/ \E tie \in {"first", "last"} : RunSQL(tie)

Spec == Init /\ [][Next]_vars

(***************************************************************************)
(* Properties.                                                             *)
(***************************************************************************)
\* Type correctness: a store keeps rendered text only, and has seen values
\* for exactly the attributes it has counts for.
TypeOK ==
    /\ rule \in Rules
    /\ ToSet(corpus) \subseteq Events[rule.id]
    /\ ToSet(history) \subseteq Histories[rule.id]
    /\ {stream.status, sql.status} \subseteq {"none", "error", "claims"}
    /\ store.WarmupThreshold = rule.warmup_threshold
    /\ \A e \in DOMAIN store.Baselines :
          LET b == store.Baselines[e] IN
          /\ e \in STRING
          /\ DOMAIN b.ObservationCount = DOMAIN b.SeenValues
          /\ \A a \in DOMAIN b.SeenValues :
                /\ b.SeenValues[a] \subseteq STRING
                /\ b.ObservationCount[a] >= Cardinality(b.SeenValues[a])

Carries(ev, fields) == fields \subseteq DOMAIN ev

WellTyped(ev) == \A f \in DOMAIN ev : Kind(ev[f]) = Schema[f]

\* Every event has every field the rule reads, of the type it should have.
Complete ==
    \A i \in DOMAIN corpus : WellTyped(corpus[i]) /\ Carries(corpus[i], NamedColumns(rule))

\* No two events have the same time.
NoTies ==
    \A i, j \in DOMAIN corpus : i # j => corpus[i]["time"] # corpus[j]["time"]

\* Every event is typed and has the fields by which its sources group and of
\* which they track the last value; other fields may be missing.
Tracked ==
    LET needed == UNION {rule.sources[s].group_by \union rule.sources[s].track_last
                           : s \in DOMAIN rule.sources}
    IN  \A i \in DOMAIN corpus : WellTyped(corpus[i]) /\ Carries(corpus[i], needed)

\* In every case, some event matches the anchor source.
AnchorInEveryCase ==
    LET src == rule.sources[anchorSource(rule)] IN
    \A i \in DOMAIN corpus : \E j \in DOMAIN corpus :
        /\ EvalBool(src.where, eventEnv(corpus[j]), store) = Bool(TRUE)
        /\ groupKey(corpus[j], src.group_by) = groupKey(corpus[i], src.group_by)

SameResult(a, b) == a.status = b.status /\ ClaimKeys(a.claims) = ClaimKeys(b.claims)

BothRan == stream.status # "none" /\ sql.status # "none" /\ corpus # <<>>

\* RunEquivalence (runner.go), beyond the fixtures: on complete events at
\* different times, with a match of the anchor in every case, the streaming
\* and the SQL path return the same claims, equally often.
AgreeOnCompleteEvents ==
    BothRan /\ Complete /\ NoTies /\ AnchorInEveryCase => SameResult(stream, sql)

\* A hunt in SQL (sql.go) never reports what the streaming path would not
\* have: its claims are among the streaming ones as soon as group and
\* tracked fields are there, whatever else an event lacks.
SqlNeverInvents ==
    BothRan /\ Tracked /\ NoTies /\ stream.status = "claims" =>
        \A k \in ToSet(sql.claims) :
            /\ k \in ToSet(stream.claims)
            /\ ClaimKeys(sql.claims)[k] <= ClaimKeys(stream.claims)[k]

\* One rule text, two paths that may not drift apart (rule.go:5-7): the
\* streaming and the SQL path agree on complete events, and on incomplete
\* ones SQL reports no more than the streaming path.
PathsConform == AgreeOnCompleteEvents /\ SqlNeverInvents

\* The order of the events in a corpus does not matter to the streaming path
\* (computeAggregate tracks times, not positions) if no times are equal and
\* no tracked field is missing.
OrderDoesNotMatter ==
    stream.status # "none" /\ Tracked /\ NoTies =>
        \A p \in Permutations(DOMAIN corpus) :
            SameResult(StreamingResult(rule, [i \in DOMAIN corpus |-> corpus[p[i]]], store), stream)

\* A fresh deployment does not report everything as new (baseline.go): a
\* claim of novelty, by either path, is about an entity with as many
\* observations as the threshold asks for, none of them of the value claimed.
NoveltyIsEarned ==
    \A k \in ToSet(stream.claims \o sql.claims) :
        rule.observations # {} =>
            LET events == FlattenSeq(history)
                About(o) == {i \in DOMAIN events :
                               /\ Carries(events[i], {rule.entity, o.from})
                               /\ renderScalar(events[i][rule.entity]) = k.Entity}
            IN  \E o \in rule.observations :
                    /\ Cardinality(About(o)) >= rule.warmup_threshold
                    /\ \A i \in About(o) : renderScalar(events[i][o.from]) # k.Observed

\* Replaying a corpus against a pinned store returns the same claims however
\* often the store has been asked before (baseline_rule_test.go).
ReplayIsStable ==
    [][/\ stream.status # "none" /\ stream'.status # "none"
       /\ corpus' = corpus /\ history' = history
       => stream' = stream]_vars

=============================================================================
