------------------------------ MODULE CaseFeed ------------------------------
(***************************************************************************)
(* The live case data of the console: the in-memory store and its tick()   *)
(* (web/src/lib/data/store.ts), the event stream that runs one tick per    *)
(* interval and connection (app/api/cases/stream/route.ts), and the hook   *)
(* of one browser that merges the stream with a snapshot it fetches once   *)
(* (components/watchfloor/use-case-stream.ts).                              *)
(*                                                                         *)
(* The snapshot and the stream travel on different connections, so events  *)
(* may be heard before and after the snapshot they belong to.  Streams of  *)
(* other browsers tick the same store, and nobody here is told.            *)
(***************************************************************************)
EXTENDS Integers, Sequences, FiniteSets, SequencesExt

CONSTANTS SeedIds,      \* the cases generated at start, newest first
          FreshIds,     \* identifiers tick() may give to new cases
          Profile,      \* what never changes in a case: tenant, tactics, assignee
          SeedScore,    \* the risk score a case is generated with
          SeedStatus,   \* and its status
          Incomplete,   \* cases generated with disposition "incomplete"
          Deltas,       \* changes of a risk score tick() may draw
          MaxTicks,     \* bound: ticks of all streams together
          MaxDrops,     \* bound: lost connections
          MaxMounts     \* bound: times the Watchfloor is opened

VARIABLES cases,    \* store.cases
          order,    \* store.order
          clock,    \* Date.now(), counted in ticks
          query,    \* the query "cases-initial" and what it holds
          stream,   \* the connection: open, its interval, events on their way
          view,     \* the state of useCaseStream
          mounted,  \* is the Watchfloor on screen?
          heard,    \* history: new cases merged since the seed
          drops, mounts

feedVars == <<cases, order, clock, query, stream, view, mounted, heard, drops, mounts>>

Ids == Range(SeedIds) \cup FreshIds

severityForScore(score) ==
    CASE score >= 8500 -> "critical"
      [] score \in 6000..8499 -> "high"
      [] score \in 3500..5999 -> "medium"
      [] score \in 1500..3499 -> "low"
      [] score < 1500 -> "info"

dispositionFor(severity, incomplete) ==
    IF incomplete THEN "incomplete"
    ELSE CASE severity \in {"info", "low"} -> "benign"
           [] severity = "medium" -> "suspicious"
           [] severity \in {"high", "critical"} -> "malicious"

statusForSeverity(severity) ==
    CASE severity = "critical" -> {"escalated", "investigating"}
      [] severity = "high" -> {"investigating", "escalated", "open"}
      [] OTHER -> {"dismissed", "closed", "investigating", "open"}

ASSUME FeedAssumption ==
    /\ Range(SeedIds) \cap FreshIds = {}
    /\ SeedIds \in Seq(Range(SeedIds)) \ {<< >>}
    /\ \A id \in Ids : SeedStatus[id] \in statusForSeverity(severityForScore(SeedScore[id]))

Clamp(score) == IF score < 0 THEN 0 ELSE IF score > 10000 THEN 10000 ELSE score

generateCase(id, now) ==
    LET severity == severityForScore(SeedScore[id])
    IN  [id |-> id, riskScore |-> SeedScore[id], severity |-> severity,
         disposition |-> dispositionFor(severity, id \in Incomplete),
         status |-> SeedStatus[id], updatedAt |-> now]

Rescored(c, delta, now) ==
    LET score == Clamp(c.riskScore + delta)
        severity == severityForScore(score)
    IN  [c EXCEPT !.riskScore = score, !.severity = severity,
                  !.disposition = dispositionFor(severity, c.disposition = "incomplete"),
                  !.updatedAt = now]

NoCases == [id \in {} |-> {}]
Put(map, c) == [id \in DOMAIN map \cup {c.id} |-> IF id = c.id THEN c ELSE map[id]]

(***************************************************************************)
(* The server.                                                             *)
(***************************************************************************)
listCases == [i \in 1..Len(order) |-> cases[order[i]]]

TickEvents ==
         {[kind |-> "new", case |-> generateCase(id, clock + 1)] : id \in FreshIds \ DOMAIN cases}
    \cup {[kind |-> "update", case |-> Rescored(cases[id], d, clock + 1)] :
              id \in Range(order), d \in Deltas}
    \cup {[kind |-> "fire"]}

tick(event) ==
    /\ clock < MaxTicks
    /\ clock' = clock + 1
    /\ cases' = IF event.kind = "fire" THEN cases ELSE Put(cases, event.case)
    /\ order' = IF event.kind = "new" THEN <<event.case.id>> \o order ELSE order

NoSnapshot == [state |-> "none", data |-> << >>, takenAt |-> 0]
Closed == [open |-> FALSE, ticking |-> FALSE, sent |-> << >>]
Opened == [open |-> TRUE, ticking |-> TRUE, sent |-> << >>]

\* The interval of this browser's connection: tick and send what it returned.
StreamTick ==
    /\ stream.ticking
    /\ \E event \in TickEvents :
          /\ tick(event)
          /\ stream' = [stream EXCEPT !.sent = Append(@, event)]
    /\ UNCHANGED <<query, view, mounted, heard, drops, mounts>>

\* tick() throws: the generator returned exactly 1, and the index it chose is
\* past the end.  The interval ends, the connection stays.
StreamTickThrows ==
    /\ stream.ticking
    /\ clock < MaxTicks
    /\ clock' = clock + 1
    /\ stream' = [stream EXCEPT !.ticking = FALSE]
    /\ UNCHANGED <<cases, order, query, view, mounted, heard, drops, mounts>>

\* The interval of another browser's connection.
OtherTick ==
    /\ \E event \in TickEvents : tick(event)
    /\ UNCHANGED <<query, stream, view, mounted, heard, drops, mounts>>

(***************************************************************************)
(* The browser.                                                            *)
(***************************************************************************)
EmptyView == [cases |-> NoCases, order |-> << >>, seeded |-> FALSE,
              connected |-> FALSE]

Seeded(v, snapshot) ==
    [cases     |-> [id \in {snapshot[i].id : i \in DOMAIN snapshot} |->
                      snapshot[CHOOSE i \in DOMAIN snapshot : snapshot[i].id = id]],
     order     |-> [i \in DOMAIN snapshot |-> snapshot[i].id],
     seeded    |-> TRUE,
     connected |-> v.connected]

\* Opening the page: a cached snapshot seeds in the first effect, otherwise it
\* is requested; the effect after it opens the stream.
Mount ==
    /\ ~mounted /\ mounts < MaxMounts
    /\ mounted' = TRUE /\ mounts' = mounts + 1
    /\ IF query.state = "cached"
       THEN view' = Seeded(EmptyView, query.data) /\ query' = query
       ELSE /\ view' = EmptyView
            /\ query' = IF query.state = "none" THEN [query EXCEPT !.state = "asked"] ELSE query
    /\ stream' = Opened
    /\ heard' = {}
    /\ UNCHANGED <<cases, order, clock, drops>>

\* Leaving it closes the stream; the query and its cache belong to the console.
Leave ==
    /\ mounted' = FALSE
    /\ view' = EmptyView
    /\ stream' = Closed
    /\ heard' = {}

\* An unused query is garbage-collected after a while.
CacheExpires ==
    /\ ~mounted /\ query.state = "cached"
    /\ query' = NoSnapshot
    /\ UNCHANGED <<cases, order, clock, stream, view, mounted, heard, drops, mounts>>

\* GET /api/cases.
AnswerSnapshot ==
    /\ query.state = "asked"
    /\ query' = [state |-> "answered", data |-> listCases, takenAt |-> clock]
    /\ UNCHANGED <<cases, order, clock, stream, view, mounted, heard, drops, mounts>>

\* Mutant: the effect that seeds does not depend on the query's data.
ReceiveSnapshotUnseen ==
    /\ query.state = "answered"
    /\ query' = [query EXCEPT !.state = "cached"]
    /\ UNCHANGED <<cases, order, clock, stream, view, mounted, heard, drops, mounts>>

\* The answer arrives; a mounted, unseeded hook replaces its cases with it.
ReceiveSnapshot ==
    /\ query.state = "answered"
    /\ query' = [query EXCEPT !.state = "cached"]
    /\ IF mounted /\ ~view.seeded
       THEN view' = Seeded(view, query.data) /\ heard' = {}
       ELSE UNCHANGED <<view, heard>>
    /\ UNCHANGED <<cases, order, clock, stream, mounted, drops, mounts>>

Connected ==
    /\ stream.open /\ ~view.connected
    /\ view' = [view EXCEPT !.connected = TRUE]
    /\ UNCHANGED <<cases, order, clock, query, stream, mounted, heard, drops, mounts>>

\* Mutant: every event with a case puts it on top of the queue.
MergedOnTop(v, event) ==
    IF event.kind = "fire" THEN v
    ELSE [v EXCEPT !.cases = Put(v.cases, event.case),
                   !.order = IF event.case.id \in Range(@) THEN @ ELSE <<event.case.id>> \o @]

\* onmessage: what one event does to the cases of the hook.  A fire feeds the
\* ticker and its rate, which show nothing of a case.
Merged(v, event) ==
    CASE event.kind = "new" ->
            [v EXCEPT !.cases = Put(v.cases, event.case), !.order = <<event.case.id>> \o @]
      [] event.kind = "update" -> [v EXCEPT !.cases = Put(v.cases, event.case)]
      [] event.kind = "fire" -> v

\* Mutant: a backlog is read newest first.
onmessageNewestFirst ==
    /\ view.connected /\ stream.sent # << >>
    /\ view' = Merged(view, Last(stream.sent))
    /\ stream' = [stream EXCEPT !.sent = Front(@)]
    /\ heard' = IF view.seeded /\ Last(stream.sent).kind = "new"
                THEN heard \cup {Last(stream.sent).case.id} ELSE heard
    /\ UNCHANGED <<cases, order, clock, query, mounted, drops, mounts>>

onmessage ==
    /\ view.connected /\ stream.sent # << >>
    /\ view' = Merged(view, Head(stream.sent))
    /\ stream' = [stream EXCEPT !.sent = Tail(@)]
    /\ heard' = IF view.seeded /\ Head(stream.sent).kind = "new"
                THEN heard \cup {Head(stream.sent).case.id} ELSE heard
    /\ UNCHANGED <<cases, order, clock, query, mounted, drops, mounts>>

\* The connection breaks: the server's interval is cleared, what was on its way
\* is lost, and the browser reconnects by itself.
DropConnection ==
    /\ stream.open /\ drops < MaxDrops
    /\ drops' = drops + 1
    /\ stream' = Closed
    /\ view' = [view EXCEPT !.connected = FALSE]
    /\ UNCHANGED <<cases, order, clock, query, mounted, heard, mounts>>

Reconnect ==
    /\ mounted /\ ~stream.open
    /\ stream' = Opened
    /\ UNCHANGED <<cases, order, clock, query, view, mounted, heard, drops, mounts>>

FeedInit ==
    /\ cases = [id \in Range(SeedIds) |-> generateCase(id, 0)]
    /\ order = SeedIds
    /\ clock = 0
    /\ query = NoSnapshot
    /\ stream = Closed
    /\ view = EmptyView
    /\ mounted = FALSE
    /\ heard = {}
    /\ drops = 0 /\ mounts = 0

FeedNext ==
    \/ StreamTick \/ StreamTickThrows \/ OtherTick
    \/ AnswerSnapshot \/ ReceiveSnapshot \/ CacheExpires
    \/ Connected \/ onmessage \/ DropConnection \/ Reconnect

(***************************************************************************)
(* Properties.                                                             *)
(***************************************************************************)
SnapshotIds == {query.data[i].id : i \in DOMAIN query.data}

\* The rows of a seeded browser are the cases of its snapshot and the new cases
\* it heard since, each with an entry in the map that allCases asks without a
\* check (watchfloor-client.tsx:45), and no row shows a case newer than the
\* store's or a state the store never had at that time.  Rows are compared as a
\* set: a case that the snapshot has and the stream then announces is in front of
\* the order a second time (use-case-stream.ts:76).
RowsAreReal ==
    /\ view.seeded => Range(view.order) = SnapshotIds \cup heard
    /\ Range(view.order) \subseteq DOMAIN view.cases
    /\ \A id \in DOMAIN view.cases :
          /\ view.cases[id].updatedAt <= cases[id].updatedAt
          /\ view.cases[id].updatedAt = cases[id].updatedAt => view.cases[id] = cases[id]

\* While a seeded page stays open, across updates, lost connections and
\* reconnects, no row disappears, and a row goes back to an older state of its
\* case only through an event sent before the snapshot was taken.
OnlyOldNewsSetsBack ==
    [][mounted' /\ view.seeded =>
          \A id \in DOMAIN view.cases :
             /\ id \in DOMAIN view'.cases
             /\ \/ view'.cases[id].updatedAt >= view.cases[id].updatedAt
                \/ view'.cases[id].updatedAt <= query.takenAt]_feedVars
=============================================================================
