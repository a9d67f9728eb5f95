----------------------------- MODULE CaseStore -----------------------------
(***************************************************************************)
(* The adjudication service, services/adjudicate: ManifestStore closes     *)
(* cases into sealed, per-tenant chained manifests (store.py,              *)
(* case_record.py), the Retro-Verdict Drift sweep re-adjudicates the       *)
(* closed cases that an indicator corpus matches (rvd.py,                  *)
(* indicator_corpus.py), and a stored case can be replayed (replay.py).    *)
(* The kernel is called through adjudicate_cli (module Kernel).            *)
(*                                                                         *)
(* A record is named by its place in `records`, the list of all that       *)
(* close_case has returned.  The same number stands for manifest_hash: the *)
(* manifest contains the previous hash of its chain, so no two records     *)
(* have the same manifest.  Policies are Python dicts: records and callers *)
(* refer to them, and `heap` holds what they contain now.                  *)
(***************************************************************************)
EXTENDS Kernel

CONSTANTS
    Tenants, CaseIds,
    ClaimSets,      \* claim lists investigations hand over; claims have an `object`
    PolicyTable,    \* the policy dicts callers hold, by reference
    Corpora,        \* indicator corpora: [version, entries]
    NoObject,       \* a claim about no object (None)
    KernelVersion,
    MaxCloses,      \* bound: close_case calls in one behaviour
    MaxSweeps       \* bound: run_sweep calls in one behaviour

\* Claims and entries come in lists, policies and their prices have all their
\* fields, and the value of an entry is a string.
ASSUME CaseStoreAssumption ==
    /\ MaxCloses \in Nat
    /\ MaxSweeps \in Nat
    /\ \A claims \in ClaimSets : claims \in Seq(Range(claims))
    /\ \A p \in DOMAIN PolicyTable :
          /\ DOMAIN PolicyTable[p] = {"version", "weights", "chain", "thresholds"}
          /\ \A w \in Range(PolicyTable[p].weights) : DOMAIN w = {"tactic", "weight", "techniques"}
    /\ \A corpus \in Corpora :
          /\ corpus.entries \in Seq(Range(corpus.entries))
          /\ \A e \in Range(corpus.entries) : e.value # NoObject

PolicyRefs == DOMAIN PolicyTable
NoHash     == 0     \* prev_manifest_hash "": no predecessor

VARIABLES
    records,    \* every CaseRecord close_case has returned
    cases,      \* _cases: case_id -> record
    caseOrder,  \* the keys of _cases in insertion order
    chain_tip,  \* _chain_tip: tenant -> manifest hash
    reopened,   \* _reopened: case_id -> drift
    heap,       \* contents of the policy dicts
    sweep,      \* the run_sweep call in progress
    closes, sweeps

storeVars == <<records, cases, caseOrder, chain_tip>>
vars == <<storeVars, reopened, heap, sweep, closes, sweeps>>

NoSweep == [running |-> FALSE]

Init ==
    /\ records = <<>>
    /\ cases = << >>
    /\ caseOrder = <<>>
    /\ chain_tip = [t \in Tenants |-> NoHash]
    /\ reopened = << >>
    /\ heap = PolicyTable
    /\ sweep = NoSweep
    /\ closes = 0
    /\ sweeps = 0

\* f with the value at key x set, whether x is a key of f already or not.
Put(f, x, value) == [y \in DOMAIN f \cup {x} |-> IF y = x THEN value ELSE f[y]]

-----------------------------------------------------------------------------
(* close_case.                                                             *)

\* The bridge to the kernel process; that a call may also time out or die is
\* part of the actions that call it.
adjudicate_raw(claims, policy) == adjudicate_cli(claims, policy, KernelVersion)

\* The hash of the claims in an order of their content, not of submission.
claim_set_hash(claims) == <<"blake3", Ordered(claims)>>

\* Mutant: one chain for all tenants.
prevMutant(tenant) == Len(records)

prev(tenant) == chain_tip[tenant]

\* The manifest is the part of the record that is hashed and signed; its
\* epoch_root is the Merkle root of the evidence the claims cite.
build_case_record(tenant, case, claims, policy, answer) ==
    [tenant_id |-> tenant,
     case_id   |-> case,
     claims    |-> claims,
     policy    |-> policy,
     verdict   |-> answer.verdict,
     submitted_claim_ids |-> answer.submitted_claim_ids,
     manifest  |->
        [claim_set_hash     |-> claim_set_hash(claims),
         claim_ids          |-> answer.submitted_claim_ids,
         epoch_root         |-> UNION {c.evidence : c \in Range(claims)},
         severity           |-> answer.verdict.severity,
         disposition        |-> answer.verdict.disposition,
         verdict_hash       |-> answer.verdict_hash,
         prev_manifest_hash |-> prev(tenant)]]

\* Assigning to a key a dict has keeps the key's place in the order.
caseOrderAfter(case) ==
    IF case \in DOMAIN cases THEN caseOrder ELSE Append(caseOrder, case)

close_case(tenant, case, claims, policy) ==
    LET answer == adjudicate_raw(claims, heap[policy]) IN
    /\ ~sweep.running
    /\ closes < MaxCloses
    /\ answer # Failed
    /\ records' = Append(records, build_case_record(tenant, case, claims, policy, answer))
    /\ chain_tip' = [chain_tip EXCEPT ![tenant] = Len(records) + 1]
    /\ cases' = Put(cases, case, Len(records) + 1)
    /\ caseOrder' = caseOrderAfter(case)
    /\ closes' = closes + 1
    /\ UNCHANGED <<reopened, heap, sweep, sweeps>>

\* The kernel rejects the request or times out, or a Merkle or manifest
\* helper process fails: the exception leaves the store as it was.
close_case_raises ==
    /\ ~sweep.running
    /\ closes < MaxCloses
    /\ closes' = closes + 1
    /\ UNCHANGED <<storeVars, reopened, heap, sweep, sweeps>>

-----------------------------------------------------------------------------
(* build_augmented_policy.                                                 *)

\* Mutant: an indicator matches a claim by its value alone.
matchesMutant(entry, claim) == claim.object # NoObject /\ entry.value = claim.object

matches(entry, claim) ==
    /\ claim.object # NoObject
    /\ entry.predicate = claim.predicate
    /\ entry.value = claim.object

\* The places of the claims that some entry matches, and the entry that the
\* search from the front of the list finds for such a claim.
MatchedClaims(claims, corpus) ==
    {i \in DOMAIN claims : \E e \in Range(corpus.entries) : matches(e, claims[i])}

EntryFor(claim, corpus) ==
    corpus.entries[Min({k \in DOMAIN corpus.entries : matches(corpus.entries[k], claim)})]

\* The loop raises when two matches price one predicate differently, and the
\* second loop when the current policy does not know a predicate.
CannotReprice(policy, claims, corpus) ==
    LET hits == MatchedClaims(claims, corpus)
    IN  \/ \E i, j \in hits :
              LET e == EntryFor(claims[i], corpus)
                  f == EntryFor(claims[j], corpus)
              IN  e.predicate = f.predicate /\ e.weight # f.weight
        \/ \E i \in hits : EntryFor(claims[i], corpus).predicate \notin DOMAIN policy.weights

\* The last match of a predicate is the one overrides keeps; an entry without
\* techniques inherits those of the policy.
build_augmented_policy(policy, claims, corpus) ==
    LET hits == MatchedClaims(claims, corpus)
        repriced == {EntryFor(claims[i], corpus).predicate : i \in hits}
        Override(p) ==
            EntryFor(claims[Max({i \in hits : EntryFor(claims[i], corpus).predicate = p})], corpus)
    IN  [policy EXCEPT !.weights =
            [p \in DOMAIN policy.weights |->
                IF p \in repriced
                THEN [tactic     |-> policy.weights[p].tactic,
                      weight     |-> Override(p).weight,
                      techniques |-> IF Override(p).techniques = {}
                                     THEN policy.weights[p].techniques
                                     ELSE Override(p).techniques]
                ELSE policy.weights[p]]]

-----------------------------------------------------------------------------
(* run_sweep: one action per case of the loop.  It is a synchronous call,  *)
(* so nothing else happens to the store meanwhile.                         *)

run_sweep(policy, corpus) ==
    /\ ~sweep.running
    /\ sweeps < MaxSweeps
    /\ sweep' = [running |-> TRUE, policy |-> policy, corpus |-> corpus, position |-> 1,
                 snapshot |-> [i \in DOMAIN caseOrder |-> cases[caseOrder[i]]]]
    /\ sweeps' = sweeps + 1
    /\ UNCHANGED <<storeVars, reopened, heap, closes>>

InLoop   == sweep.running /\ sweep.position <= Len(sweep.snapshot)
CaseNow  == records[sweep.snapshot[sweep.position]]
HitsNow  == MatchedClaims(CaseNow.claims, sweep.corpus)
PolicyNow == build_augmented_policy(heap[sweep.policy], CaseNow.claims, sweep.corpus)
AnswerNow == adjudicate_raw(CaseNow.claims, PolicyNow)

Advance == sweep' = [sweep EXCEPT !.position = @ + 1]

\* Mutant: only a change of disposition counts, as in the pseudocode.
SameOutcomeMutant(verdict, sealed) == verdict.disposition = sealed.disposition

SameOutcome(verdict, sealed) ==
    verdict.disposition = sealed.disposition /\ verdict.severity = sealed.severity

\* What the deep copy of the policy leaves in the caller's dict, and what an
\* assignment into the dict itself would (the mutant).
heapAfterMutant == [heap EXCEPT ![sweep.policy] = PolicyNow]

heapAfter == heap

\* No claim of the case matches: it is not adjudicated at all.
SkipCase ==
    /\ InLoop
    /\ HitsNow = {}
    /\ Advance
    /\ UNCHANGED <<storeVars, reopened, heap, closes, sweeps>>

KeepCase ==
    /\ InLoop
    /\ HitsNow # {}
    /\ ~CannotReprice(heap[sweep.policy], CaseNow.claims, sweep.corpus)
    /\ AnswerNow # Failed
    /\ SameOutcome(AnswerNow.verdict, CaseNow.manifest)
    /\ Advance
    /\ heap' = heapAfter
    /\ UNCHANGED <<storeVars, reopened, closes, sweeps>>

\* The two lists have an element per matched claim, in the order of the claims:
\* here functions on the places of those claims.  policy_deltas take the old
\* weight from the current policy.
Drift ==
    LET entry(i) == EntryFor(CaseNow.claims[i], sweep.corpus)
    IN  [tenant_id             |-> CaseNow.tenant_id,
         record                |-> sweep.snapshot[sweep.position],
         old_severity          |-> CaseNow.manifest.severity,
         new_severity          |-> AnswerNow.verdict.severity,
         old_disposition       |-> CaseNow.manifest.disposition,
         new_disposition       |-> AnswerNow.verdict.disposition,
         old_verdict_hash      |-> CaseNow.manifest.verdict_hash,
         new_verdict_hash      |-> AnswerNow.verdict_hash,
         responsible_claim_ids |-> [i \in HitsNow |-> CaseNow.submitted_claim_ids[i]],
         policy_deltas         |->
             [i \in HitsNow |->
                 [predicate  |-> entry(i).predicate,
                  old_weight |-> heap[sweep.policy].weights[entry(i).predicate].weight,
                  new_weight |-> entry(i).weight]],
         corpus                |-> sweep.corpus]

mark_reopened(case, drift) == reopened' = Put(reopened, case, drift)

ReopenCase ==
    /\ InLoop
    /\ HitsNow # {}
    /\ ~CannotReprice(heap[sweep.policy], CaseNow.claims, sweep.corpus)
    /\ AnswerNow # Failed
    /\ ~SameOutcome(AnswerNow.verdict, CaseNow.manifest)
    /\ mark_reopened(CaseNow.case_id, Drift)
    /\ Advance
    /\ heap' = heapAfter
    /\ UNCHANGED <<storeVars, closes, sweeps>>

\* An exception ends the whole call: the case cannot be repriced, or the
\* kernel process rejects the request or times out.  What earlier iterations
\* marked stays, and later cases are not looked at.
SweepRaises ==
    /\ InLoop
    /\ HitsNow # {}
    /\ sweep' = NoSweep
    /\ UNCHANGED <<storeVars, reopened, heap, closes, sweeps>>

SweepReturns ==
    /\ sweep.running
    /\ ~InLoop
    /\ sweep' = NoSweep
    /\ UNCHANGED <<storeVars, reopened, heap, closes, sweeps>>

Next ==
    \/ \E t \in Tenants, c \in CaseIds, claims \in ClaimSets, p \in PolicyRefs :
          close_case(t, c, claims, p)
    \/ close_case_raises
    \/ \E p \in PolicyRefs, corpus \in Corpora : run_sweep(p, corpus)
    \/ SkipCase
    \/ KeepCase
    \/ ReopenCase
    \/ SweepRaises
    \/ SweepReturns

Spec == Init /\ [][Next]_vars

-----------------------------------------------------------------------------
(* Replay, which reads a record and changes nothing.                       *)

replay_pin(record) ==
    LET answer == adjudicate_raw(record.claims, heap[record.policy])
    IN  [verdict_hash_matches |->
            answer # Failed /\ answer.verdict_hash = record.manifest.verdict_hash]

-----------------------------------------------------------------------------
(* Properties.                                                             *)

Records == DOMAIN records

TypeOK ==
    /\ \A i \in Records :
          /\ records[i].tenant_id \in Tenants
          /\ records[i].case_id \in CaseIds
          /\ records[i].claims \in ClaimSets
          /\ records[i].policy \in PolicyRefs
          /\ records[i].manifest.prev_manifest_hash \in 0..Len(records)
    /\ DOMAIN cases \subseteq CaseIds /\ Range(cases) \subseteq Records
    /\ chain_tip \in [Tenants -> 0..Len(records)]
    /\ DOMAIN reopened \subseteq DOMAIN cases
    /\ DOMAIN heap = PolicyRefs
    /\ sweep.running =>
          /\ Range(sweep.snapshot) \subseteq Records
          /\ sweep.position \in 1..Len(sweep.snapshot) + 1
    /\ closes \in 0..MaxCloses
    /\ sweeps \in 0..MaxSweeps

Latest(S) == Max(S \cup {NoHash})

\* Each tenant has one chain: from its tip back, prev_manifest_hash goes through
\* every manifest sealed for the tenant exactly once, in the order the cases
\* were closed, and through nobody else's, whatever calls failed in between and
\* however often a case_id was closed again (store.py:55-74).
OneChainPerTenant ==
    \A t \in Tenants :
        LET mine == {i \in Records : records[i].tenant_id = t}
        IN  /\ chain_tip[t] = Latest(mine)
            /\ \A i \in mine :
                  records[i].manifest.prev_manifest_hash = Latest({j \in mine : j < i})

\* closed_investigations is "honest about what it returns" (store.py:80-86):
\* every case_id ever closed is listed once, in the order of its first close,
\* with the record of its last one.
IndexIsHonest ==
    /\ Range(caseOrder) = DOMAIN cases
    /\ DOMAIN cases = {records[i].case_id : i \in Records}
    /\ \A m, n \in DOMAIN caseOrder : m # n => caseOrder[m] # caseOrder[n]
    /\ \A m, n \in DOMAIN caseOrder : m < n =>
          Min({i \in Records : records[i].case_id = caseOrder[m]})
              < Min({i \in Records : records[i].case_id = caseOrder[n]})
    /\ \A c \in DOMAIN cases : cases[c] = Latest({i \in Records : records[i].case_id = c})

\* What close_case leaves behind in its three places, the tenants' chains, the
\* records and the index by case_id (store.py:55-86), fits together whichever of
\* its calls failed and whichever case was closed again.
StoreHoldsTogether == OneChainPerTenant /\ IndexIsHonest

\* "stored claim set + pinned policy/kernel versions -> bit-identical verdict,
\* always" (replay.py:3-4): any record ever returned replays to the verdict its
\* manifest committed to, although its policy is a dict it shares with callers
\* and with every sweep since.
PinReplayMatches == \A i \in Records : replay_pin(records[i]).verdict_hash_matches

\* The entries of a corpus for the very indicator a claim asserts.
IndicatorsOf(claim, corpus) ==
    {e \in Range(corpus.entries) : <<e.predicate, e.value>> = <<claim.predicate, claim.object>>}

\* The drift d of a case names record r of it and what reopened it.
NamesItsClaims(d, case, r) ==
    /\ r.case_id = case /\ r.tenant_id = d.tenant_id
    /\ d.old_verdict_hash = compute_verdict_hash(r.verdict)
    /\ r.verdict.severity # d.new_severity \/ r.verdict.disposition # d.new_disposition
    /\ DOMAIN d.responsible_claim_ids # {}
    /\ DOMAIN d.responsible_claim_ids =
          {i \in DOMAIN r.claims : IndicatorsOf(r.claims[i], d.corpus) # {}}
    /\ \A i \in DOMAIN d.responsible_claim_ids :
          /\ d.responsible_claim_ids[i] = r.claims[i].id
          /\ \E e \in IndicatorsOf(r.claims[i], d.corpus) :
                /\ d.policy_deltas[i].predicate = e.predicate
                /\ d.policy_deltas[i].new_weight = e.weight

\* A reopened case names what reopened it (rvd.py:113-131): the drift is about a
\* record of that case and tenant, its old verdict is the sealed one and differs
\* from the new one in severity or disposition, and the claims it holds
\* responsible, at least one, are exactly the claims of that record that assert
\* an indicator of the corpus the drift cites, each under its own id and with a
\* policy delta that prices its predicate as an entry for that indicator does.
DriftNamesItsClaims ==
    \A c \in DOMAIN reopened : NamesItsClaims(reopened[c], c, records[reopened[c].record])

\* The entries that are not shadowed by an earlier one for the same indicator.
FirstEntries(corpus) ==
    {corpus.entries[k] : k \in {k \in DOMAIN corpus.entries :
        \A j \in 1..k - 1 : <<corpus.entries[j].predicate, corpus.entries[j].value>>
                              # <<corpus.entries[k].predicate, corpus.entries[k].value>>}}

\* Those of them that claims assert, and a policy with their predicates repriced.
Cited(claims, corpus) ==
    {e \in FirstEntries(corpus) : \E claim \in Range(claims) : e \in IndicatorsOf(claim, corpus)}

RepricedBy(policy, entries) ==
    [policy EXCEPT !.weights =
        [p \in DOMAIN policy.weights |->
            IF \E e \in entries : e.predicate = p
            THEN [policy.weights[p] EXCEPT !.weight = (CHOOSE e \in entries : e.predicate = p).weight]
            ELSE policy.weights[p]]]

\* The k-th case of a sweep is settled: if the corpus bears on it and changes its
\* outcome, it is marked as reopened by this corpus.
Settled(k) ==
    LET i   == sweep.snapshot[k]
        r   == records[i]
        hit == Cited(r.claims, sweep.corpus)
        now == adjudicate(r.claims, RepricedBy(heap[sweep.policy], hit), KernelVersion)
    IN  /\ hit # {}
        /\ now.severity # r.verdict.severity \/ now.disposition # r.verdict.disposition
        => /\ r.case_id \in DOMAIN reopened
           /\ reopened[r.case_id].record = i
           /\ reopened[r.case_id].corpus = sweep.corpus

\* While a sweep runs, every case it has passed is settled (rvd.py:178-211): if
\* one of its claims asserts an indicator of the corpus, and the stored claims
\* under the current policy with that predicate repriced give a severity or a
\* disposition other than the sealed one, the case is marked as reopened by
\* this corpus; nothing is passed over on the way to a later case.
SweptCasesAreSettled ==
    sweep.running => \A k \in 1..sweep.position - 1 : Settled(k)

=============================================================================
