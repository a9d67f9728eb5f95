# ATTESTA in TLA+

ATTESTA is a security-operations pipeline whose verdicts can be replayed: agents
buffer events, ingest turns them into content-addressed evidence, detection and
an LLM-driven investigation propose claims over that evidence, a pure kernel
turns claims and a policy into a verdict, and the adjudication service seals the
result into a signed, chained manifest that later indicator corpora may reopen.
A web console shows the cases live, lets operators decide on responses, and
verifies verdicts in the browser with the same kernel. This directory holds TLA+
models of these parts, the TLC runs that check them on small instances, and
TLAPS proofs for every instance.

Run anything with `tlc -config X.cfg M` (the module of each cfg is in the table
below) and the proofs with `tlapm M.tla`, where `M` is `Basics` or one of the
modules `...Proofs`.

## 1. Inventory

| Component | State it keeps | Operations | Talks to | Hard behaviour | What makes it correct |
|---|---|---|---|---|---|
| Agent buffer (`agent/buffer.go`) | memory queue, list of spill files, `spilling`, `spillSeq`, `closed`; files on disk | Push, Next, Close | shipping goroutines through a mutex and a condition variable | file read after unlock, broadcast after unlock, failing disk, restart on the same directory | no accepted event lost or reordered, every file read by its owner only, no sleeper left behind |
| Kernel (`kernel/src`) | none (pure) | adjudicate, classify, adjudicate_cli | called as a process by the services, as WASM by the console | saturating i64 sums, thresholds, adjacency windows | order independence, explained score, right tier, never an opinion without evidence |
| Blast radius (`kernel/src/blast_radius.rs`) | none | score | console | boundaries | monotone in its inputs |
| WASM bridge (`kernel/wasm_bridge`) | one static result buffer | alloc, adjudicate, read result | console | result overwritten by the next call | a caller reads its own result |
| Claim gate and investigator (`services/investigate`) | lists of accepted and rejected claims, tool-call counter | run_investigation, admit | untrusted provider, kernel | adversarial proposals, two budgets | only gated claims get in, the loop ends, exhaustion is reported |
| Manifest store (`services/adjudicate/store.py`, `case_record.py`) | `_cases`, `_chain_tip`, `_reopened` | close_case, closed_investigations, mark_reopened | kernel, Merkle and manifest helper processes | failure between reading and moving the tip, re-closing a case | one chain per tenant, an honest index, replayable records |
| Retro-verdict drift (`rvd.py`, `indicator_corpus.py`) | none beyond the store | run_sweep, build_augmented_policy | store, kernel | abort mid-sweep, shared policy dict, attribution | complete, rightly attributed drifts |
| Replay (`replay.py`) | none | replay_pin, replay_rederive | store, investigator, kernel | stale policy, partial investigation | pin matches always; the diff explains a changed disposition |
| Evidence ledger (`ledger/`) | content-addressed rows, Merkle trees, epoch chain | Put, Get, Redact, SealBatch, SealEpoch, Prove, VerifyInclusion | ingest, adjudication | redaction then re-put, padding, proofs across layers | erasure is permanent, proofs sound and complete |
| Manifest sealing and export (`ledger/manifest.go`, `manifest.py`, `export_bundle.py`) | none | SealManifest, VerifySealedManifest, export, verify | helper processes | partial field coverage | what is verified is what was sealed |
| Detection (`detect/`) | baselines per entity; a rule's `window` is informational, its aggregates cover all events of a case | EvaluateStreaming, RunSQL, WarmUpBaseline, Observe, IsNovel | normalised events, asset groups | missing and mistyped fields, equal times, three-valued logic, event order, asking creates a baseline | both backends fire alike, novelty is earned, a replay is stable |
| Ingest (`ingest/`) | none beyond the ledger | Mapping.Apply, ReplayCorpus | ledger | failure in mid-corpus, random order of fields | replays agree, versions keep apart |
| Web case feed (`web/src/lib/data/store.ts`, `app/api/cases`, `use-case-stream.ts`) | case map and order on the server; snapshot query, map and order in the browser | tick, snapshot, stream, seed, merge | browsers over an event stream | late snapshot, several streams on one store, a broken connection, a tick that throws | rows are real, only old news sets a row back, an open page becomes live |
| Watchfloor (`components/watchfloor`, `console-chrome-provider.tsx`) | selection, filters, overrides, dialog, overlays, chord; order of two key listeners | j k e d i, filters, dismissal, palette, help, chords | case feed, router | listeners that re-subscribe, a selection that is filtered out | a key does what the shortcut list says |
| Session (`middleware.ts`, `lib/auth/session.ts`, layout, login) | a cookie per browser, page and request per tab, signing secret | visit, follow, sign in, sign out, expiry, release | all pages and routes | tabs that share a cookie, redirects that other tabs interleave | every navigation ends |
| Response Console (`components/response-console`, `app/api/response-actions`) | actions on the server; list, blast radii, selection and posts per tab | poll, select, decide | session, server store | decisions on old lists, requests that cross, a restarted server with other blast radii for the same ids | decisions are informed, nobody overrides what they were told, consoles converge |
| Verdict Ledger and Drift Monitor (`lib/data/ledger.ts`, `drift.ts`, `lib/kernel`, `components/verdict-ledger`) | cached ledger and drift, cached kernel instance, runs of the panel | seal, prove, sweep, verify | kernel through WASM, server | interleaved runs over one instance, restart between fetches, selecting or refetching meanwhile | the seal is earned, an alarm is real |
| Investigation Canvas (`components/investigation-canvas`, `lib/data/graph.ts`) | graph, viewport with queued updates, selection, marks, replay | pan, zoom, click, verify, replay, change case | graph and proof routes | React's batching, stale refs, selection across cases, half-open cells | nothing on screen is missed or mislabelled |
| Timeline (`components/timeline`) | events, compress switch, zoom | toggle, zoom, select | timeline route | compressed gaps, minimum widths | events keep their order on the track |

## 2. Modules

| Module | Models |
|---|---|
| `FifoQueue` | the promise of the agent buffer: one queue, taken from once, never reordered |
| `BoundedBuffer` | `agent/buffer.go` |
| `Kernel`, `Requests`, `MCKernel` | `kernel/src`: pure operators; `Requests` submits claims one by one and states what holds of every request |
| `CaseStore`, `MCCaseStore` | manifest store, drift sweep and pin replay; uses `Kernel` |
| `Investigator` | `run_investigation` and the claim gate |
| `Rederive`, `MCRederive` | `replay_rederive`: `Investigator` composed with `Kernel` |
| `HashTree` | what `ledger/merkle.go` and `lib/kernel/merkle.ts` have in common: hashes as terms, levels, paths, climbing |
| `Merkle` | `ledger/merkle.go`: its padding, trees and proofs, over `HashTree` |
| `Ledger`, `MCLedger` | `ingest/mapping.go`, `ingest/pipeline.go`, `ledger/store.go`, `ledger/epoch.go`: from corpus lines to sealed epochs; uses `Merkle` |
| `Stats` | `detect/stats`: the baselines |
| `Expr` | `detect/expr`: expressions, evaluated directly (`Eval`) and by SQLite (`SqlEval`) |
| `Detect`, `MCDetect` | the rest of `detect/`: cases, aggregates, the streaming path, the compiled SQL and the runner; uses `Stats` and `Expr` |
| `Rules` | five of the six rule files under `rules/`; the sixth has the clauses of `auth-from-new-asn` over other fields |
| `CaseFeed` | the live cases: `lib/data/store.ts`, the stream route and `useCaseStream` |
| `Watchfloor`, `MCWatchfloor` | the page and its keyboard over `CaseFeed` |
| `Session` | cookies, middleware, layout, sign-in and sign-out |
| `ResponseConsole`, `MCResponseConsole` | the Response Console in several tabs, over `Session` |
| `WebMerkle` | `lib/kernel/merkle.ts`, over `HashTree`, with its padding and its 32-bit shift |
| `VerdictLedger`, `MCVerdictLedger` | the web ledger, the drift sweep and the verification panel; uses `Kernel` and `WebMerkle` |
| `Quadtree`, `Timeline` | `quadtree.ts`; `timeline-track.tsx` and its switches |
| `InvestigationCanvas`, `MCInvestigationCanvas` | graph, canvas, panels and replay; uses `Quadtree`, `Timeline` and `WebMerkle` |
| `BoundedBufferProofs`, `KernelProofs`, `CaseStoreProofs`, `RederiveProofs`, `LedgerProofs`, `VerdictLedgerProofs`, `ConsoleProofs` | the theorems of these modules, `ConsoleProofs` those of `ResponseConsole` and of `CaseFeed` under `Watchfloor` (section 4) |
| `Basics` | least and greatest elements, induction and recursion over the naturals, lists, hash trees: what the proofs share |

### BoundedBuffer

`memQueue`, `spilling`, `spillSeq`, `spilled` and `closed` are the struct's
fields; `files` is the spill directory, which survives `Restart`. `pc[c]` says
where consumer `c` is in `Next`: about to run under the lock, asleep in
`cond.Wait`, reading a file after it unlocked, or told that the buffer is
finished. Everything done under the mutex is one action (`PushToMemory`,
`PushToDisk`, `PushWriteFails`, `TakeFromMemory`, `TakeFromDisk`,
`ReturnDrained`, `Wait`, `CloseSetFlag`); what the code does after unlocking is
an action of its own (`ReadSpillFile`, `ReadFails`, `CloseBroadcast`). A failed
write may leave a torn file, a failed removal leaves the file, and a failed read
delivers `Nil`, as the code does. `accepted`, `taken` and `delivered` are
history. `spillHits` moves with `spillSeq` and is not kept separately. The
documented contract that callers stop pushing before they close is the guard of
`PushEvent`.

### Kernel

`adjudicate` follows `lib.rs` line by line in effect: sort by `claim_id`, skip
claims without evidence or price, saturating sums per tactic, a bonus for each
pair of neighbours among the tactics present that is adjacent and listed, a
clamped confidence and a tier. A claim id is the place of the claim's content
hash in byte order; hashes are tuples of what they cover. The sort is described
by what a stable sort does: the claim at place `k` is the one that `k - 1` others
go before (`SortedBefore`). The loops are recursive functions on the number of
passes. `tactic_scores` has an entry for every tactic present; where the code
folds over such a map, the model sums over all twelve tactics in kill-chain order
with a 0 for those it passes over, which a saturating sum does not notice.
`Windows` gives, for each tactic present but the last, the pair it starts.
`MaxInt` is `i64::MAX`; the runs use small ones so that a few claims saturate.

`Requests` holds the claims of one request and its policy. `PolicyBundle` is what
`PolicyBundle::new` accepts, and `RequestsAssumption` adds that a claim id is an
address: two claims of the catalogue with one id are the same claim.

### CaseStore

A record is named by its place in `records`, the list of everything `close_case`
has returned, and the same number stands for its manifest hash. Policies are
Python dicts, shared between records, callers and sweeps, so `heap` holds their
contents by reference. `run_sweep` is one action to start and one per case of
the loop: skip, keep, reopen, raise. `close_case_raises` and `SweepRaises`
cover every exception on the way, including a kernel process that dies.

### Investigator and Rederive

The provider is nondeterministic: a turn proposes any claims over `Proposable`
and asks for any number of tool calls. `Turn` is one iteration of the loop, gate
and budget included; `Gate` is one pass of its inner loop over the claims, which
`proposed` remembers as history. `Rederive` adds the diff and the kernel's verdict.

### HashTree, Merkle and Ledger

A hash is the term it was computed from, with its domain in front, which is what
a collision-free hash gives; a signature is the key and the message. `rows` is
the store's map and `replay[w]` the local state of a `ReplayCorpus` call. `Put`
and `Redact` hold the store's lock and are atomic; a replay takes one step per
line (`SkipBlankLine`, `PutLine`, `LineFails`), so calls interleave, and one that
fails leaves its earlier lines stored. `MapFields` runs `setPath` over the fields in
any order, since Go does not fix one, and `PassThrough` adds what no field
consumed. `LedgerAssumption` says what the mapping
files of the repository keep to and `LoadMapping` does not check: no target
contains another one or overwrites the envelope. The callers of `SealBatch` and
`SealEpoch` are outside the package: a batch is what some replay returned, an
epoch covers the batches since the last one, and `Prev` follows the contract in
the comment of `SealEpoch`.

### Stats, Expr, Rules and Detect

An event is a function from the dotted paths of its leaves to scalars that carry
their type; each has an integer `time`, which ingest puts there. A rule is what
`LoadRule` returns, with its expressions as syntax trees. Quotients are
fractions, so the two paths can be compared exactly. The API calls are actions:
`LoadFixture`, `WarmUpBaseline`, `EvaluateStreaming`, `RunSQL`. The streaming path
is a fold over the cases that stops at the first error and keeps the set of
entities it asked the store about, since asking creates a baseline. No shipped
`where` clause asks for one, so only the others are searched.

SQLite is external and modelled by what the compiled queries return: NULL for a
missing field, three-valued AND, OR and NOT, NULL joins with nothing, grouping
keeps NULLs together, `true` is 1, division by zero is NULL. Which of several
rows at the latest time `ORDER BY ... LIMIT 1` picks is left open (`tie`).

### CaseFeed and Watchfloor

The server's `cases` and `order` are changed by `tick` only, called by the
interval of this browser's connection (`StreamTick`) or of another one's
(`OtherTick`). `tick` may throw, because `Xorshift32.next` can return exactly 1
and the index drawn is then past the end; the route's catch clears the interval
and leaves the connection open (`StreamTickThrows`). The query `cases-initial`
is asked, answered, cached and collected independently of the stream, and the
hook replaces its whole map when the answer comes (`Seeded`). Time is counted in
ticks. In `Watchfloor` a key goes to both listeners in the order they are
subscribed in (`queueFirst`): React re-subscribes a listener when its effect's
dependencies change, which puts it behind the other. A reason typed into the
dismissal dialog is the case it was written for.

### Session and ResponseConsole

A navigation is one action per request (`Hop`), so tabs that share a cookie
interleave with its redirects. The secret is a literal of the source: a
release that changes it (`Release`) makes older cookies pass the middleware and
fail the layout. The same action starts another `process` of the server, which
builds the store of proposed actions anew: the ids are the same, the times they
are proposed at are not, and `computeBlastRadius` seeds its draws with id and
time (`store.ts:228`). A radius is therefore the pair of an action and the process
that drew it, and a page may hold one of a process that is gone: the query is keyed
by the id alone, and only mounting the pane, the window's focus or a reconnection
ask for it again (`Shows`, `refetchOnWindowFocus`). An answer comes from the
process that was asked or, after a retry, from a later one. The query client goes
with the console's layout, by a load or by way of the login page (`DropClient`).
`posts` are decisions under way: handled in any order and answered later; one that
was sent arrives although the document is left. `decidedBy`, `stored` and
`openedUnder` are history: the radius the operator of the decision that stands had
on screen, which decisions the list had been read after, and under which process
the tab's query client was made.

### WebMerkle and VerdictLedger

A process of the server seals the same investigations with times of its own, so
ledgers and drifts are tables by process; `page.manifests` says from which one
the page has its manifests. A run of `runVerification` is a record that moves
from await to await; while one is between `wasm_adjudicate` and `ReadResult`
nothing else happens in the browser (`BetweenTasks`), which is all that protects
the kernel's single result buffer. The claims of a case and their ids are
constants: `ClaimId` gives the id of a case's `i`-th claim in each process,
tampered with or not, since the address covers the times and the changed field. `instancePromise` and the ledger's promise may be cached
rejections, and stay so. `padHash` shifts by a count that JavaScript takes
modulo 32.

### Quadtree, InvestigationCanvas and Timeline

Coordinates are integers; `zoom` is in quarters and doubles or halves per notch
(1.12 in the code), so zooming around the points of the instance is exact. A click may meet the viewport before queued
updates are rendered: `queue` holds the functions given to `setViewport`, `view`
the rendered state and `ref` the one the last effect stored. Marks remember the
case they were requested for, which the panel does not show. Graphs of two cases
are given by their nodes' first-seen columns and their links. `Timeline` works
on the set of event times; the minimum width of a segment and the width of a
compressed gap are those of the code in proportion.

## 3. Runs

| Run | Module, cfg | Expect | Shows |
|---|---|---|---|
| buffer | BoundedBuffer, Buffer.cfg | pass | zero loss in order, files read by their owner, refinement of `FifoQueue`, no lost wake-up, Close ends every consumer |
| kernel | MCKernel, Kernel.cfg | pass | the verdict does not depend on the order of arrival, attributed weights and bonuses explain the score (`ScoreIsExplained`), a supporting claim never lowers a verdict |
| cases | MCCaseStore, CaseStore.cfg | pass | one chain per tenant and an honest index (`StoreHoldsTogether`), pin replay, attributed drifts, complete sweeps |
| rederive | MCRederive, Rederive.cfg | pass | the gate is the only way in and budgets are honest (`ResultIsHonest`), the loop ends, an empty diff explains an equal disposition |
| rederive_budget | MCRederive, RederiveBudget.cfg | violation | an exhausted rederivation still reports the kernel's disposition (`ExhaustedMeansIncomplete`) |
| ledger | MCLedger, Ledger.cfg | pass | erasure is permanent and visible, replays of a corpus agree, inclusion proofs are complete and sound (`ProofsAreExact`), no other seal that verifies fits into the epoch chain |
| detect | MCDetect, Detect.cfg | pass | the two paths agree on complete events and SQL never invents a claim (`PathsConform`), event order does not matter, novelty is earned, replays are stable |
| watch | MCWatchfloor, Watchfloor.cfg | pass | rows are the snapshot and what was heard since, rows go back only through events older than the snapshot, an open page becomes seeded and connected |
| watch_chord | MCWatchfloor, WatchfloorChord.cfg | violation | after an overlay closes, `g d` opens the dismissal of the selected case (`ChordOnlyJumps`) |
| console | MCResponseConsole, ResponseConsole.cfg | pass | a decision was clicked beside a blast radius of its own action, and in a console opened since the last restart beside the running server's (`DecisionsAreInformed`); one is replaced only from a list read before it was stored (`OnlyBlindOverwrites`); open consoles converge, navigations end |
| verify | MCVerdictLedger, VerdictLedger.cfg | pass | the seal is earned, alarms are real, proofs and links of every ledger are sound, drift rows are explained |
| canvas | MCInvestigationCanvas, InvestigationCanvas.cfg | pass | the quadtree misses nothing, the point under the cursor stays, marks are honest, the timeline keeps its order, a replay advances edge by edge |

The two violations are disagreements between the code and what its comments,
docs or tests say; `PROJECT.json` quotes both sides. Section 5 lists others, among
them the cases that a passing property leaves out because the code goes wrong there.

### Bounds

* buffer: capacity 1, two consumers, four pushes, one restart. One slot and
  four pushes fill memory, build a backlog of up to three files, drain it and go
  back to memory while a consumer still reads; two consumers compete for a
  wake-up and read two files at once; the restart meets files of the first life
  under names it writes again. The theorems cover all other sizes.
* kernel: up to four claims of eight, with repetition, under three policies. Four
  claims saturate both ends of -16..15, straddle each threshold, and put
  supporting and refuting claims of one predicate on both sides of others in
  claim-id order. Orderings are checked for all permutations of each request.
* cases: two tenants, two case ids, three closes, two sweeps. Three closes give
  a re-close, two chains that interleave and a chain of three; the corpora
  include one that cannot reprice some case, a duplicate entry and an indicator
  under another predicate; one policy is invalid. Tenants and case ids are
  symmetric: nothing names one of them.
* rederive: two turns of at most two claims and three tool calls; one budget of
  each shape (both limits reachable, no calls, no turns). One claim per reason
  of rejection.
* ledger: two workers, two replays, one redaction, three batches, two epochs.
  Two replays are enough for a redaction between them, or for one to overtake
  the other; the corpora have a blank line, a repeated event, two spellings of
  one instant, an unmappable number and a line that is not JSON. Batches have
  three or four ids and epochs one to three batches, so trees with and without
  padding and a tree of one leaf occur. Workers are symmetric.
* detect: corpora of up to three events from five to seven per rule, two
  warm-ups. The numbers in the rules are scaled down in `Rules` (a burst is 2
  failures, an hour 1 time unit, the speed limit 9, the warm-up 2 observations),
  so three events cross every threshold; the menus hold, for each rule, events
  that fire it, that suppress it, that lack a field or have it with another type,
  another entity and a repeated time. Every rule fires in both paths.

* watch: one seeded case and one that a tick adds, two ticks, one lost connection,
  two visits, three keys or clicks. Two ticks put one event before and one after
  the snapshot; the seeded case is close to a threshold, so an update moves it in
  and out of the one filter box. 236,000 states.
* console: two tabs of one browser, two proposed actions, two decisions, three
  moves (visits, links, selections, refetches on focus, sign-ins, sign-outs,
  expiries, releases), from a browser that is signed in with blank tabs or signed
  out on the login page. Three moves open both tabs before a restart, open one
  anew after it, or take away and give back its cookie; two clicks let one tab
  overwrite the other's decision, or decide on both actions while answers are
  late. 258,000 states.
* verify: a tenant with four cases, so that one link is broken, and one with one;
  two cases selected, two runs, one restart. Two runs interleave on one kernel;
  cases have one to five pieces of evidence, so padded trees of three levels
  occur, and claims come in another order than their ids. 136,000 states.
* canvas: two cases with equal graph keys and different layouts, three places of
  the cursor, a resize and one to nothing, and four operations between
  which updates, renders, effects and answers interleave. One point per cell and
  depth two make cells split, and nodes lie on their borders. 1,120,000 states.

The hypotheses of the properties of `detect` are each needed, and say where the
two paths part:

* `NoTies`: two logons at one time make the streaming path fail with a division
  by zero, while SQL returns nothing;
* `Complete`: a column that no event has makes the SQL path fail; an integer 1
  where a boolean belongs matches `true` in SQL only;
* `Tracked`: without it SQL reports a claim about a NULL entity, and a later event
  that lacks a tracked field makes the streaming path depend on the order;
* `AnchorInEveryCase`: without a match of the anchor source a case exists in the
  streaming path only.

CHECK_DEADLOCK is off where a bounded number of requests, operations or visits, or
one replay, is all there is to do; the buffer and the detection engine are
checked for deadlock.

### Fairness

* buffer: weak fairness of each consumer's call of `Next` and of the broadcast
  in `Close`. Goroutines are scheduled preemptively and Go's mutex hands itself
  to a waiter that starves; file calls return. Pushing, closing and crashing
  are not fair. A consumer in `cond.Wait` has no enabled step, so fairness does
  not wake it: only a signal does. Both liveness properties allow the process
  to die instead.
* rederive: weak fairness of the investigation loop. It is sequential code; a
  provider that never answers is outside it (the code has no wall-clock budget).
* watch: weak fairness of the answer to the snapshot request, its arrival, and
  the opening of the stream, which `EventSource` retries by itself. Ticks, drops
  and the analyst are not fair; drops are bounded, as a network that always
  breaks lets nobody connect.
* console: weak fairness of the requests of a navigation and of the list query,
  whose interval comes round every ten seconds while the page is on screen.
  Decisions, blast radii and operators are not fair.

## 4. Proofs

Each theorem is about every value of the constants that satisfies the module's
named assumption; the runs show the same formula on a small instance. The
inductive invariants were checked with TLC before they were proved.

| Module | Theorem | States |
|---|---|---|
| `BoundedBufferProofs` | `ZeroLoss`, `OwnFile`, `Discipline`, `Drained`, `Refinement` | the three invariants of the buffer run, that a consumer is told the buffer is finished only once it is closed and all of it taken (`StoppedMeansDrained`, which is proved and not run), and that the buffer implements `FifoQueue` |
| `KernelProofs` | `Determinism` | `OrderIndependent` |
| | `SupportIsMonotone` | `SupportNeverLowers` |
| | `ScoreExplained` | `ScoreIsExplained` |
| `CaseStoreProofs` | `StoreHolds`, `PinReplay`, `DriftIsAttributed`, `SweepMissesNothing` | the four invariants of the cases run |
| `RederiveProofs` | `ResultHonesty` | `ResultIsHonest` |
| | `DiffExplainsDisposition` | `EmptyDiffSameDisposition`, where the case's weights fit into the arithmetic |
| `LedgerProofs` | `InclusionIsComplete`, `InclusionIsSound` | what a Merkle root commits to, for lists of every length |
| | `StoreIsHonest`, `ReplayIsDeterministic`, `ProofsConvinceExactly`, `ChainShowsBreaks` | the four invariants of the ledger run |
| `VerdictLedgerProofs` | `SealsAreEarned`, `MismatchesAreReal`, `LedgersHoldTogether`, `DriftRowsAreExplained` | the four invariants of the verify run |
| `ConsoleProofs` | `InformedDecisions`, `OverwritesAreBlind` | `DecisionsAreInformed` and, as an action property, `OnlyBlindOverwrites` |
| | `RowsShowTheStore`, `SetbacksAreOldNews` | `RowsAreReal` and, as an action property, `OnlyOldNewsSetsBack` |

`BufferInvariant`, `StoreInvariant`, `LedgerInvariant` (one in `LedgerProofs`, one in
`VerdictLedgerProofs`), `InvestigationInvariant`, `RederiveInvariant` and
`FeedInvariant` are the inductive invariants, and `TypeCorrect`, `StoreTypeCorrect`,
`LedgerTypeCorrect`, `InvestigationTypeCorrect` and `RequestsTypeCorrect` the type
invariants.

### Buffer

The inductive invariant `BufInv` is the invariants of the run together with
`StoppedMeansDrained` and `spillSeq <= pushes`. None of them is inductive alone.
Zero loss needs the discipline, since a push to memory keeps the order only if
no file is listed, which is what `spilled # <<>> => spilling` says; and it needs
the names to be distinct and older than `spillSeq`, since otherwise a write could
change the content of a listed file. `ReadsOwnFile` needs that popped names are
older than the listed ones. `StepInv` has one step per action for each
part (`TypeStep`, `DisciplineStep`, `OrderStep`, `StoppedStep`); the lemmas on
sequences (`ConcatAppend`, `MoveHead`, `HeadTailConcat`) carry the order
argument, and `SpilledEventsStep` says what each action does to the contents of
the listed files. In the refinement a consumer's event in flight is the content
of the file it holds, so `ReadsOwnFile` is exactly what makes an unlocked read
return the event taken. `BufferAssumption`: the capacity is positive (the
constructor rejects others) and the bounds are natural numbers.

### Kernel

The three properties are consequences of the type invariant: what they say is
about the function `adjudicate`, for requests of any length, any policy that
`PolicyBundle::new` accepts, and any width of the arithmetic.

* `Determinism`: a list has one arrangement in claim-id order (`OrderedSorts`,
  `SortedIsUnique`; equal ids are equal claims), so a permutation of the request
  is sorted into the same list (`ArrivalIsForgotten`), and the rest of the kernel
  reads nothing else.
* `SupportIsMonotone`: one more claim is inserted somewhere into the sorted list
  (`OrderedInserts`) and into the claims that contribute (`UsableInserts`). A
  saturating sum is monotone in its numbers and does not go down when a number
  that is not negative is inserted (`SatSumMonotone`, `SatSumInserts`), although
  it depends on where. A new tactic can part two neighbours but not two adjacent
  ones, so no bonus is lost (`WindowPays`), and `classify` is monotone when the
  tiers ascend with the thresholds (`SeverityNeverLowers`).
* `ScoreExplained`: a saturating sum whose volume fits is the sum
  (`SatSumIsExact`), and numbers added up tactic by tactic have the same sum and
  no larger a volume than added up claim by claim (`EachIsCountedOnce`); the
  tactics of the windows are those the request shows (`UsableAreCounted`).

### Case store

`StoreInv` adds to the invariants of the run that `heap = PolicyTable` (no sweep
writes into a policy dict that records share), that every record holds what the
kernel answered to its claims under its policy (`SealedAsAdjudicated`), that
drifts and index entries are of existing records of their case, and that the
snapshot a sweep works on is the index (`SnapshotIsIndex`; closes wait for a
sweep, since both run in one thread). Nothing is assumed of what the kernel
computes except, for `SweepMissesNothing`, that the score reads tactics and
weights and no techniques (`Scoring`): the code's repriced policy replaces the
techniques as well, the reference does not. `CaseStoreAssumption` says that
policies have their fields and that no corpus entry is about "no object".

### Investigator and rederivation

`ResultInv` says that the books balance: every claim is listed as accepted or
rejected as often as it was proposed, and the accepted lists hold what the gate
admitted. `GateKeepsBooks` is one pass of the inner loop, `LoopKeepsBooks` the
loop, by induction over its passes. The theorem is about every behaviour of
`Rederive`, so about `run_investigation` with any provider, budget, registry and
window (`InvestigatorAssumption`: times and window are integers).

`DiffExplainsDisposition` compares two lists of the same assertions under different
ids, which the kernel sorts differently, so that its saturating sums may differ. It
is stated where they cannot: `Fits` bounds the sum of the absolute weights of the
case's claims by `MaxInt`. Nothing like it is needed for the bonuses, which depend
on the tactics present only. The diff keys pair the contributing claims of the two
lists (`UsableAssertions`), a sum without a width does not depend on the order of
its numbers (`SumRearranged`, from `EachIsCountedOnce` with one part per number), and
neither does the volume. `RederiveAssumption`: the case was closed under a valid
policy, and the key of the diff covers predicate, polarity and evidence
(`replay.py:99-110`).

### Merkle and ledger

The lemmas about trees are in `Basics`, over `HashTree`, and serve the Go tree and
the browser's. The recursive definitions are unfolded once (`Recursion`), then both
theorems climb the tree level by level: a node of the path from leaf `i` is the
hash of its two children, and hashes are terms, so equal hashes have equal parts.
Soundness covers what is left of a proof after its first `k` steps, since an
inner node must not pass for a leaf; it rests on the domain in front of each hash.

`LedgerInv` says that rows hold what their ids are the addresses of, that the ids
a replay has so far are those of the lines it has read (`ReplaysFollow`), that
each epoch names the chain hash of the one before, and that seals are over lists.
`ReplayIsDeterministic` needs that `Apply` gives one event for every order of the
fields: `SetPathAdds` shows that a field adds its target and disturbs nothing,
which is what `LedgerAssumption` is for (no target contains another one or an
envelope key; a mapping that breaks this does depend on the order).

### Response Console

`ConsoleInv` follows what an operator had on the screen from the queries of the
tab to the post under way and to the store. `ClientsOK`: what a query client holds
under a key is a radius of that action, drawn by a process since the client was
made; the same is true of what it has asked for, and a tab outside the console has
no client. The times are what makes the second half of `DecisionsAreInformed`
inductive: a client made under the running process can only hold radii between that
process and itself. `HadOK` hands both on to the posts (`PostOK`) and to the store
(`ActionStoreOK`). A client that outlives a restart falls out of the hypothesis, and
has to: it keeps the radii of the old process (section 5).

For `OnlyBlindOverwrites` the decisions taken by the stores are counted. A list, and
one on its way, that was read after a decision which still stands does not show that
action as pending (`Knows`); so a click, which needs a pending action, was made on a
list read before the decision that stands, if one does (`PostOK`). A restart empties
the store, and then every decision under way is the first.

`ConsoleAssumption`: there is something to decide, the buttons decide, and `None` is
neither a decision nor a page.

### Watchfloor

`FeedInv` follows a case from the store into the snapshot, onto the stream and onto
the page. Each of the four has cases only that the store has, or had before
(`Known`: an older time, or the same case); the snapshot's are no later than its
time (`SnapshotOK`), those on the stream are in the order of their times
(`StreamOK`), and a row of a seeded page is older than everything still to come or
else no later than the snapshot (`ViewOK`). The last part is the reason that an
event can set a row back only if the snapshot had overtaken it, and it is inductive
only with the order of the stream. `TickAges` says what a tick does to the store,
whichever connection it belongs to; `SeedShows` and `MergedShows` say what the hook
puts on the page. What the keyboard does leaves the feed alone (`WatchfloorStep`).

### Verdict Ledger

`LedgerInv` follows a verification: which case and process its claims are of and
what evidence it has left (`RunOK`), what the panel shows of it (`Shown`), that the
result buffer holds the answer to the run about to read it (`Answered`), and that
one run has the panel and one the kernel (`Alone`). The last two hold because
nothing else runs between the call and the reading, and because selecting another
manifest unmounts the panel of a run that goes on. The manifests on screen are of a
process that has been (`ManifestsOfThePast`), so a refetch brings those of the same
or a later one: a run that has the panel, and the seal it leaves, are about the
manifest on screen or one before it, never about one to come. It can be one before:
see section 5.

Seals and alarms then come down to facts about the data. The hash of a verdict
covers the ids of the contributing claims, so two of one case are equal only for the
same process and untampered claims (`HashTellsApart`). Every piece of evidence has a
proof under its own root, padding included, which convinces of nothing else
(`EvidenceProofs`, from the tree lemmas); links are the chain hashes of the
manifests before, but for the ones broken on purpose (`ChainsAreSound`). Repricing
a predicate leaves the contributing claims as they are (`UsableIgnoresPrices`) and
changes what exactly its own are attributed (`RepricingShows`), which is what a
drift row shows.

`LedgerAssumption`: the cases of the tenants are distinct and the arithmetic is wide
enough for one repriced weight (`MaxInt >= 10000`; it is 2^63 - 1 in the code, and
the largest price some thousands); a width at which one price saturates would hide a
repricing. `ClaimsAssumption`: a case has claims, each with evidence and a predicate
of the vocabulary, as `generateClaims` makes them. `ClaimIdAssumption`: an address
covers all fields of its claim, so other times or a tampered field give other ids.

### Only model-checked

* Liveness (`AcceptedIsDelivered`, `CloseStopsConsumers`, `InvestigationEnds`,
  `EventuallyLive`, `ConsolesConverge`, `NavigationEnds`): fairness is beyond the
  prover.
* `EmptyDiffSameDisposition` where the sums do saturate: it may fail there, since
  the order of the claims then matters.
* `Expr` and `Quadtree` are recursive operators, which cost the prover its SMT
  backend in every module that uses them: `PathsConform`, `OrderDoesNotMatter`,
  `NoveltyIsEarned`, `ReplayIsStable` and the properties of the canvas run,
  `Timeline` included, stay with TLC.

Induction over data is done with sets: `Induction` says that a set with 0 that
contains the successor of each of its naturals contains all of them, which the
provers can use where they cannot instantiate a predicate.

## 5. Known disagreements and surprises

Beside the two violations, modelling met these; the models do what the code does.

Between code and comments:

* `agent/buffer.go:92-100`: a write that fails with an empty backlog leaves
  `spilling` set, so Push stays on disk although there is nothing to drain
  (comment at 30-32).
* `kernel/src/lib.rs:120-129`: a tactic that is only refuted counts as present, so
  a refuting claim can earn the adjacency bonus and raise the score (`claim.rs:3-4`).
* `store.py:74`: closing a case id again replaces a record that `case_record.py:22-24`
  calls immutable.
* `detect/aggregate.go:74-102`: a case with no match of the anchor source exists in the
  streaming path and not in SQL (`rule.go:5-7`).
* `detect/sql.go:262`: for a case whose latest event lacks a tracked field, the
  streaming path keeps the value of an earlier event (`aggregate.go:165-168`) and SQL
  takes NULL, for which NOT of the suppress clause drops the row: one rule text fires
  in one path only, although it is "not a second implementation that can silently
  drift from it" (`rule.go:5-7`). `PathsConform` does not speak of such events.
* `detect/stats/store.go:23-30`: evaluating creates empty baselines in a store that
  `streaming.go:42-43` says is never written.
* `lib/kernel/merkle.ts:76`: JavaScript's `>>>` takes its count modulo 32, so the
  eight bytes repeat the low word, unlike the big-endian u64 of `ledger/merkle.go` that
  the comment names. Roots differ from Go's as soon as there is padding.
* `verification-panel.tsx:82-90`: a proof is checked against its own root, never
  against the manifest's `epoch_root`, which the message speaks of; and an error
  status in place of a proof (34) is reported as a mismatch.
* `use-case-stream.ts:76`: an announced case is put in front of the order whether or not
  the snapshot has brought it, so it has two rows; by 26-28 cases are "merged into the
  initial snapshot's Map, not appended to a growing array". `RowsAreReal` takes the rows
  as a set and does not see it.
* `store.ts:228` and `action-detail.tsx:44`: the "deterministic per-action blast radius"
  (`store.ts:221`) is drawn with the time the action was proposed at, which each process
  takes from its own clock (42, 51). A page that is open over a restart gets the new
  server's list, has its buttons enabled, and shows the radius of the old process until
  the pane is mounted anew or the window focused: what "renders before any approval
  control is enabled" (`action-detail.tsx:31-32`) is then not the radius this server
  has. `DecisionsAreInformed` is about the running server's radius only for consoles
  opened since the restart.
* `verdict-ledger-client.tsx:64`: the verification panel is keyed by the investigation
  id, which a restarted server uses again. A verification that matched, a restart and
  a refetch of the manifests leave the seal beside a manifest of another process that
  nobody verified; by `docs/UI-SPEC.md:57` the panel of the selected manifest "compares
  hashes" and ends "in a verification seal". `SealIsEarned` says that the manifest on
  screen is the one verified or such a later one.
* `quadtree.ts:93`: `nearest` looks "within `radius`" (104), but a cell that begins
  where the range ends is skipped, so a node exactly at the radius, to the right or
  below, is not found. `TreeMissesNothing` excepts it.
* `watchfloor-client.tsx:66-72`: `j` and `k` follow the order of arrival, not the
  sorted order of the table the comment speaks of.

Surprises a reader should know of:

* `lib/data/store.ts:212`: a decision replaces an earlier one without a look, though
  only one that the list it was clicked on did not have yet (`OnlyBlindOverwrites`); the
  buttons stay enabled while one is being posted (`action-detail.tsx:51`), and a
  post after a sign-out is lost without a word.
* `middleware.ts:23` and `(console)/layout.tsx`: a cookie that is there and does not
  verify makes login and console redirect to each other for ever; with any cookie
  there, the form of the login page never reaches `signIn`.
* `kernel-wasm.ts:70-86` and `lib/data/ledger.ts:182`: a rejected promise is cached,
  so one failed fetch or read fails every later call until a reload or restart.
* `lib/data/ledger.ts:155`: a restarted server seals the same investigation ids with new
  times; a page that kept its manifests then reports a mismatch.
* `verification-panel.tsx:117`: an error leaves the step it happened in active.
* `dismiss-dialog.tsx:24`: cancelling keeps the text, which the next case's dialog
  shows again.
* `policy.ts:54-55`: two of the chain multipliers are between tactics that are not
  adjacent, so the kernel never applies them.
* `graph-canvas.tsx:122`: two graphs with as many nodes and columns have the same
  key, so the second is not fitted. `:453`: a wheel event at another place before
  the last one is rendered zooms around a stale point; `CursorKeepsItsPoint` is
  about a cursor that does not move.
* `timeline-client.tsx:51`: an answer without events (a case id that is not there)
  breaks the page.

## 6. Not modelled

Event sources (an interface without an implementation), scripts, CI and
evaluation harnesses, and the generated component library. Hashing and signing
are abstracted to content addresses, which also leaves nothing in which the
independent verifier and the export bundle could differ from the ledger. The
JSON exchanged with helper processes is not modelled; that a process may fail is.
Tools called in an investigation are stubs in the code and leave no state; the
scripted providers are instances of the arbitrary one. In detection, the lexer
and parser of the rule language, the loading of rule files and nested arrays in
events are left out. `blast_radius.rs` is a pure function nothing calls yet. Of the
console: rendering, shaders and the frame rate, the statistics tiles and the
detector ticker, the sort order and the expanded row of the case table, copying
and exporting, and the random generator, whose draws are nondeterministic choices.

## 7. What is left

`Timeline` and the baselines of `Stats` use no recursive operator themselves, but
their properties are stated in modules that do (`InvestigationCanvas`, `Detect`). They
could be proved about once those are split.
