--------------------------- MODULE VerdictLedger ---------------------------
(***************************************************************************)
(* The Verdict Ledger and the Drift Monitor of the console: the sealed     *)
(* manifests and drift rows the server builds once per process             *)
(* (web/src/lib/data/ledger.ts, drift.ts, policy.ts), and the panel in     *)
(* which a browser fetches a claim set, checks its evidence, runs the      *)
(* kernel's WebAssembly build on it and compares hashes                    *)
(* (components/verdict-ledger, lib/kernel/kernel-wasm.ts).                  *)
(*                                                                         *)
(* A verification is a chain of requests.  Between two of them the         *)
(* operator may select another manifest and verify that, and the server    *)
(* may be restarted, which seals the same investigations anew over claims  *)
(* with new times.  The two verifications share one kernel instance and    *)
(* its one result buffer.                                                  *)
(***************************************************************************)
EXTENDS Kernel, WebMerkle, TLC

CONSTANTS Tenants,      \* in the order of TENANTS
          TenantCases,  \* the cases of a tenant, in the order of the queue
          Vocabulary,   \* the predicates: tactic, techniques, length of the name
          RawClaims,    \* the claims generated for a case: predicate, polarity, evidence
          ClaimId,      \* the claim_id of the i-th of them, in a process, tampered with or not
          CompletedAt,  \* when its investigation ended
          Opened,       \* bound: the cases whose manifests the operator selects
          MaxRestarts,  \* bound: processes after the first
          MaxRuns,      \* bound: verifications started
          None

\* The investigations, by tenant and place in the tenant's list.
Places == UNION {{k} \X DOMAIN TenantCases[Tenants[k]] : k \in DOMAIN Tenants}
CaseAt(place) == TenantCases[Tenants[place[1]]][place[2]]
Cases == {CaseAt(place) : place \in Places}

ASSUME LedgerAssumption ==
    /\ MaxInt >= 10000 /\ MaxRestarts \in Nat /\ Opened \subseteq Cases /\ None \notin 0..MaxRestarts
    /\ Tenants \in Seq(Range(Tenants))
    /\ \A t \in Range(Tenants) : TenantCases[t] \in Seq(Range(TenantCases[t]))
    /\ \A a, b \in Places : CaseAt(a) = CaseAt(b) => a = b
    /\ \A c \in Cases : CompletedAt[c] \in Int

ASSUME ClaimsAssumption ==
    /\ \A p \in DOMAIN Vocabulary : Vocabulary[p].length \in Nat
    /\ \A c \in Cases :
        /\ RawClaims[c] \in Seq(Range(RawClaims[c])) /\ RawClaims[c] # << >>
        /\ \A claim \in Range(RawClaims[c]) :
              /\ claim.predicate \in DOMAIN Vocabulary
              /\ IsFiniteSet(claim.evidence) /\ claim.evidence \in SUBSET Nat /\ claim.evidence # {}

\* A claim's id covers all its fields: those of another process (other times)
\* and a tampered one have others.
ASSUME ClaimIdAssumption ==
    \A c \in Cases : \A i, j \in DOMAIN RawClaims[c] :
        \A p, q \in 0..MaxRestarts : \A s, t \in BOOLEAN :
            /\ ClaimId[c][i][p][s] \in Int
            /\ ClaimId[c][i][p][s] = ClaimId[c][j][q][t] => p = q /\ s = t

(***************************************************************************)
(* The policy and the ledger.                                              *)
(***************************************************************************)
chain_multipliers ==
    <<1, 2>> :> 500 @@ <<2, 3>> :> 400 @@ <<6, 8>> :> 600 @@ <<9, 11>> :> 700 @@ <<10, 11>> :> 500

syntheticWeight(predicate) == 1200 + (Vocabulary[predicate].length % 5) * 300

PolicyPaying(weight) ==
    [version    |-> "policy-2026.09.0",
     weights    |-> [p \in DOMAIN Vocabulary |->
                        [tactic     |-> Vocabulary[p].tactic,
                         weight     |-> weight[p],
                         techniques |-> Vocabulary[p].techniques]],
     chain      |-> chain_multipliers,
     thresholds |-> <<<<0, Info>>, <<1500, Low>>, <<3500, Medium>>, <<6000, High>>, <<8500, Critical>>>>]

buildSyntheticPolicy == PolicyPaying([p \in DOMAIN Vocabulary |-> syntheticWeight(p)])

KERNEL_VERSION == "0.0.0-phase11"
ZERO_HASH == <<"zero">>
syntheticHash(kind, value) == <<"blake3", kind, value>>

\* The claims of a case, the first one tampered with or not.
ClaimsOf(case, process, tamper) ==
    [i \in DOMAIN RawClaims[case] |->
        [id        |-> ClaimId[case][i][process][tamper /\ i = 1],
         predicate |-> RawClaims[case][i].predicate,
         polarity  |-> RawClaims[case][i].polarity,
         evidence  |-> RawClaims[case][i].evidence]]

generateClaims(case, process) == ClaimsOf(case, process, FALSE)

\* The members of a set in the order of a relation.
Sorted(S, before) ==
    [k \in 1..Cardinality(S) |->
        CHOOSE e \in S : Cardinality({d \in S : <<d, e>> \in before}) = k - 1]

\* The evidence of all claims, sorted and without duplicates.
evidenceIds(claims) ==
    LET ids == UNION {claims[i].evidence : i \in DOMAIN claims}
    IN  Sorted(ids, {pair \in ids \X ids : pair[1] < pair[2]})

\* The manifest over claims, once the kernel has answered for them.
Sealed(tenant, case, claims, answer, prevHash) ==
    [investigation |-> case, tenant |-> tenant,
     epoch_root |-> buildMerkleTree(evidenceIds(claims)).root,
     claim_ids |-> answer.submitted_claim_ids,
     severity |-> answer.verdict.severity,
     disposition |-> answer.verdict.disposition,
     verdict_hash |-> answer.verdict_hash,
     prev_manifest_hash |-> prevHash]

Ask(claims, policy) == adjudicate_cli(claims, policy, KERNEL_VERSION)

\* A broken manifest gets a link that leads nowhere.
buildManifest(tenant, case, claims, prevHash, makeBroken) ==
    [manifest |-> Sealed(tenant, case, claims, Ask(claims, buildSyntheticPolicy),
                         IF makeBroken THEN syntheticHash("broken", case) ELSE prevHash),
     chainBroken |-> makeBroken]

manifest_hash(sealed) == syntheticHash("manifest", sealed.manifest)

\* The middle one of a tenant's manifests, counted from 0, if it has more than three.
MakesBroken(i, n) == n > 3 /\ i = n \div 2

\* The i-th manifest of a tenant, given the hash of the one before it.
sealedAt(tenant, process, i, prevHash) ==
    buildManifest(tenant, TenantCases[tenant][i], generateClaims(TenantCases[tenant][i], process),
                  prevHash, MakesBroken(i - 1, Len(TenantCases[tenant])))

\* prevHash after i manifests of a tenant.
prevHashes(tenant, process) ==
    LET prevHash[i \in 0..Len(TenantCases[tenant])] ==
            IF i = 0 THEN ZERO_HASH
            ELSE manifest_hash(sealedAt(tenant, process, i, prevHash[i - 1]))
    IN  prevHash

\* The manifests of one tenant, each linked to the one before it.
tenantChain(tenant, process) ==
    [i \in DOMAIN TenantCases[tenant] |->
        sealedAt(tenant, process, i, prevHashes(tenant, process)[i - 1])]

\* A stable sort of all tenants' manifests: the newest first.
Newer(a, b) ==
    \/ CompletedAt[CaseAt(a)] > CompletedAt[CaseAt(b)]
    \/ CompletedAt[CaseAt(a)] = CompletedAt[CaseAt(b)] /\ (a[1] < b[1] \/ (a[1] = b[1] /\ a[2] < b[2]))

NewestFirst == Sorted(Places, {pair \in Places \X Places : Newer(pair[1], pair[2])})

buildLedger(process) ==
    [k \in DOMAIN NewestFirst |->
        tenantChain(Tenants[NewestFirst[k][1]], process)[NewestFirst[k][2]]]

\* What the ledgers of the processes hold, computed once.
LedgerOf == [process \in 0..MaxRestarts |-> buildLedger(process)]

SealedOf(case, process) ==
    CHOOSE m \in Range(LedgerOf[process]) : m.manifest.investigation = case

\* No proof, or one.
proveEvidenceInclusion(case, process, evidenceId) ==
    LET ids == evidenceIds(generateClaims(case, process))
    IN  {proveInclusion(buildMerkleTree(ids), i - 1) : i \in {j \in DOMAIN ids : ids[j] = evidenceId}}

(***************************************************************************)
(* Drift: the sealed claims under a policy that pays 5000 more for one of  *)
(* their predicates.                                                       *)
(***************************************************************************)
Repriced(predicate) ==
    PolicyPaying([p \in DOMAIN Vocabulary |->
                     syntheticWeight(p) + IF p = predicate THEN 5000 ELSE 0])

\* Mutant: the responsible claim is looked up in the kernel's own order.
ResponsibleSorted(new, index) == new.verdict.contributing_claims[index].claim_id

Responsible(new, index) == new.submitted_claim_ids[index]

\* The row of a manifest, where the kernel does change its mind.
DriftRow(m, predicate, repriceIndex, old, new) ==
    IF \/ new.verdict.severity = m.severity /\ new.verdict.disposition = m.disposition
       \/ old.verdict_hash # m.verdict_hash
    THEN {}
    ELSE {[case |-> m.investigation, predicate |-> predicate,
           responsible |-> Responsible(new, repriceIndex),
           before |-> old.verdict, after |-> new.verdict,
           old_verdict_hash |-> m.verdict_hash]}

computeDriftForCase(m, claims, repriceIndex) ==
    DriftRow(m, claims[repriceIndex].predicate, repriceIndex,
             Ask(claims, buildSyntheticPolicy), Ask(claims, Repriced(claims[repriceIndex].predicate)))

\* Every third manifest is tried; i counts from 0.
DriftRows(manifests, process) ==
    UNION {computeDriftForCase(manifests[i + 1].manifest,
                               generateClaims(manifests[i + 1].manifest.investigation, process),
                               (i % Len(RawClaims[manifests[i + 1].manifest.investigation])) + 1) :
              i \in {k \in 0..Len(manifests) - 1 : k % 3 = 0}}

buildDrift(process) == DriftRows(LedgerOf[process], process)

DriftOf == [process \in 0..MaxRestarts |-> buildDrift(process)]

(***************************************************************************)
(* State.                                                                  *)
(***************************************************************************)
VARIABLES server,   \* the process: its number, whether the .wasm file is there,
                    \* and the cached promises of ledger and drift
          page,     \* the ledger page: manifests (their process) and selection
          kernel,   \* the browser's instancePromise and the kernel's RESULT
          panel,    \* the verification panel on screen
          runs,     \* calls of runVerification under way
          drift,    \* the Drift Monitor: the process of its rows
          started

vars == <<server, page, kernel, panel, runs, drift, started>>

Steps == {"fetch", "evidence", "kernel", "compare"}
INITIAL_STEPS == [s \in Steps |-> "pending"]
IdlePanel == [steps |-> INITIAL_STEPS, result |-> "idle", running |-> FALSE, about |-> None]

\* A request that needs the ledger builds it if nobody did; a build without the
\* .wasm file fails, and the rejected promise stays.
Promised(promise) ==
    IF promise # "none" THEN promise ELSE IF server.wasm THEN "built" ELSE "failed"

AskLedger == server' = [server EXCEPT !.ledger = Promised(@)]
LedgerAnswers == Promised(server.ledger) = "built"

Init ==
    /\ server \in [process : {0}, wasm : BOOLEAN, ledger : {"none"}, drift : {"none"}]
    /\ page = [manifests |-> None, selected |-> None]
    /\ kernel = [state |-> "none", result |-> None]
    /\ panel = IdlePanel
    /\ runs = {}
    /\ drift = None
    /\ started = 0

(***************************************************************************)
(* The pages.                                                              *)
(***************************************************************************)
\* GET /api/ledger/manifests; the first answer selects its first manifest.
fetchManifests ==
    /\ AskLedger
    /\ page' = IF ~LedgerAnswers THEN page
               ELSE [page EXCEPT !.manifests = server.process,
                        !.selected = IF @ # None \/ LedgerOf[server.process] = << >> THEN @
                                     ELSE LedgerOf[server.process][1].manifest.investigation]
    /\ UNCHANGED <<kernel, panel, runs, drift, started>>

\* The rows of the manifest table.
Listed(case) == page.manifests # None /\ case \in Opened

\* Mutant: the panel has no key, so React keeps it, and its runs, for the
\* manifest selected next.
onSelectKeeps(case) ==
    /\ Listed(case) /\ case # page.selected
    /\ page' = [page EXCEPT !.selected = case]
    /\ UNCHANGED <<server, kernel, panel, runs, drift, started>>

\* The panel is keyed by the investigation: another one starts anew, and what
\* the old one's runs still set goes nowhere.
onSelect(case) ==
    /\ Listed(case) /\ case # page.selected
    /\ page' = [page EXCEPT !.selected = case]
    /\ panel' = IdlePanel
    /\ runs' = {[r EXCEPT !.mounted = FALSE] : r \in runs}
    /\ UNCHANGED <<server, kernel, drift, started>>

fetchDrift ==
    /\ server' = [server EXCEPT !.ledger = Promised(@),
                     !.drift = IF @ # "none" THEN @ ELSE Promised(server.ledger)]
    /\ drift' = IF server'.drift = "built" THEN server.process ELSE drift
    /\ UNCHANGED <<page, kernel, panel, runs, started>>

(***************************************************************************)
(* runVerification.                                                        *)
(***************************************************************************)
\* A step is done and the next one active.
Proceed(r, done, next) ==
    panel' = IF r.mounted
             THEN [panel EXCEPT !.steps = [@ EXCEPT ![done] = "done", ![next] = "active"]]
             ELSE panel

Finish(r, steps, result) ==
    panel' = IF r.mounted
             THEN [steps |-> steps, result |-> result, running |-> FALSE,
                   about |-> [case |-> r.case, process |-> r.process, tamper |-> r.tamper,
                              claimsOf |-> r.claimsOf, refused |-> r.refused]]
             ELSE panel

Replace(r, s) == runs' = (runs \ {r}) \cup {s}

\* The two buttons of the panel are disabled while it runs.
CanRun == page.selected # None /\ ~panel.running

runVerification(withTamper) ==
    /\ CanRun
    /\ started < MaxRuns
    /\ started' = started + 1
    /\ runs' = runs \cup {[id |-> started + 1, mounted |-> TRUE, case |-> page.selected,
                           process |-> page.manifests, tamper |-> withTamper, at |-> "fetch",
                           claimsOf |-> None, left |-> {}, refused |-> FALSE]}
    /\ panel' = [steps |-> [INITIAL_STEPS EXCEPT !["fetch"] = "active"], result |-> "idle",
                  running |-> TRUE, about |-> None]
    /\ UNCHANGED <<server, page, kernel, drift>>

\* GET .../claims, from whichever process answers.
fetchClaims(r) ==
    /\ r.at = "fetch"
    /\ AskLedger /\ LedgerAnswers
    /\ Replace(r, [r EXCEPT !.at = "evidence", !.claimsOf = server.process,
                      !.left = Range(evidenceIds(generateClaims(r.case, server.process)))])
    /\ Proceed(r, "fetch", "evidence")
    /\ UNCHANGED <<page, kernel, drift, started>>

\* GET .../proof of one piece of evidence.  An error status counts as no proof.
Verified(r, id) ==
    /\ LedgerAnswers
    /\ \E proof \in proveEvidenceInclusion(r.case, server.process, id) : verifyInclusion(id, proof)

fetchProof(r) ==
    /\ r.at = "evidence" /\ r.left # {}
    /\ AskLedger
    /\ IF Verified(r, Min(r.left))
       THEN Replace(r, [r EXCEPT !.left = @ \ {Min(@)}]) /\ UNCHANGED panel
       ELSE /\ runs' = runs \ {r}
            /\ Finish([r EXCEPT !.refused = ~LedgerAnswers],
                      [panel.steps EXCEPT !["evidence"] = "failed"], "mismatch")
    /\ UNCHANGED <<page, kernel, drift, started>>

\* All evidence is verified: the kernel is wanted, and loaded on first use.
getInstance(r) ==
    /\ r.at = "evidence" /\ r.left = {}
    /\ Replace(r, [r EXCEPT !.at = "kernel"])
    /\ kernel' = IF kernel.state = "none" THEN [kernel EXCEPT !.state = "loading"] ELSE kernel
    /\ Proceed(r, "evidence", "kernel")
    /\ UNCHANGED <<server, page, drift, started>>

\* The promise settles, and is kept either way.
KernelLoads ==
    /\ kernel.state = "loading"
    /\ \E settled \in {"failed"} \cup (IF server.wasm THEN {"ready"} ELSE {}) :
          kernel' = [kernel EXCEPT !.state = settled]
    /\ UNCHANGED <<server, page, panel, runs, drift, started>>

\* What the kernel answers for the claims of a case, as fetched from a process
\* and then tampered with or not; computed once.
VerdictHash ==
    [case \in Cases |-> [process \in 0..MaxRestarts |-> [tamper \in BOOLEAN |->
        Ask(ClaimsOf(case, process, tamper), buildSyntheticPolicy).verdict_hash]]]

\* Mutant: the answer is appended to RESULT, not put in its place.
wasm_adjudicateAppends(r) ==
    /\ r.at = "kernel" /\ kernel.state = "ready"
    /\ kernel' = [kernel EXCEPT !.result =
          IF @ = None THEN VerdictHash[r.case][r.claimsOf][r.tamper]
          ELSE <<@, VerdictHash[r.case][r.claimsOf][r.tamper]>>]
    /\ Replace(r, [r EXCEPT !.at = "result"])
    /\ UNCHANGED <<server, page, panel, drift, started>>

\* The kernel runs and leaves its answer in RESULT.
wasm_adjudicate(r) ==
    /\ r.at = "kernel" /\ kernel.state = "ready"
    /\ kernel' = [kernel EXCEPT !.result =
          VerdictHash[r.case][r.claimsOf][r.tamper]]
    /\ Replace(r, [r EXCEPT !.at = "result"])
    /\ UNCHANGED <<server, page, panel, drift, started>>

\* The result is copied out, parsed and compared with the manifest's hash.
ReadResult(r) ==
    /\ r.at = "result"
    /\ runs' = runs \ {r}
    /\ LET matches == kernel.result = SealedOf(r.case, r.process).manifest.verdict_hash
       IN  Finish(r, [panel.steps EXCEPT !["kernel"] = "done",
                                         !["compare"] = IF matches THEN "done" ELSE "failed"],
                  IF matches THEN "match" ELSE "mismatch")
    /\ UNCHANGED <<server, page, kernel, drift, started>>

\* A request fails, the session is gone, the ledger's or the kernel's promise
\* was rejected: the panel ends in an error with its step still active.
Fail(r) ==
    /\ r.at = "fetch" \/ (r.at = "evidence" /\ r.left # {}) \/ (r.at = "kernel" /\ kernel.state = "failed")
    /\ runs' = runs \ {r}
    /\ Finish(r, panel.steps, "error")
    /\ UNCHANGED <<server, page, kernel, drift, started>>

(***************************************************************************)
(* The environment.                                                        *)
(***************************************************************************)
\* A new process, with or without the .wasm file CI builds.
Restart ==
    /\ server.process < MaxRestarts
    /\ server' \in [process : {server.process + 1}, wasm : BOOLEAN, ledger : {"none"}, drift : {"none"}]
    /\ UNCHANGED <<page, kernel, panel, runs, drift, started>>

\* The file is put back under a running server.
WasmAppears ==
    /\ ~server.wasm
    /\ server' = [server EXCEPT !.wasm = TRUE]
    /\ UNCHANGED <<page, kernel, panel, runs, drift, started>>

\* Between the call of the kernel and the reading of its result nothing else runs
\* in the browser; what the server does meanwhile it does not see.
BetweenTasks == \A r \in runs : r.at # "result"

Next ==
    \/ BetweenTasks /\
          \/ fetchManifests \/ fetchDrift \/ KernelLoads \/ Restart \/ WasmAppears
          \/ \E case \in Opened : onSelect(case)
          \/ \E withTamper \in BOOLEAN : runVerification(withTamper)
          \/ \E r \in runs : fetchClaims(r) \/ fetchProof(r) \/ getInstance(r)
                             \/ wasm_adjudicate(r) \/ Fail(r)
    \/ \E r \in runs : ReadResult(r)

Spec == Init /\ [][Next]_vars

(***************************************************************************)
(* Properties.                                                             *)
(***************************************************************************)
\* The seal appears only beside the investigation that was verified, at the end
\* of all four steps, and only if the claims that were run are the very claims
\* that the manifest on screen at the start was sealed over: not tampered, not of
\* another process, not another run's.  The manifest on screen is that one, or
\* one of a later process that the page has fetched since: the panel is keyed by
\* the investigation alone (verdict-ledger-client.tsx:64), and the seal stays.
SealIsEarned ==
    panel.result = "match" =>
        /\ panel.about.case = page.selected
        /\ ~panel.about.tamper
        /\ panel.about.claimsOf = panel.about.process
        /\ panel.about.process <= page.manifests
        /\ \A s \in Steps : panel.steps[s] = "done"

\* A failed verification means tampered claims, a server that sealed anew since
\* the manifest was fetched, or one that refused to prove the evidence; and the
\* step it blames is the one that failed.
AlarmsAreReal ==
    panel.result = "mismatch" =>
        /\ panel.about.tamper \/ panel.about.claimsOf # panel.about.process \/ panel.about.refused
        /\ (panel.steps["evidence"] = "failed") = panel.about.refused
        /\ panel.steps["compare"] = "failed" => panel.steps["kernel"] = "done"

\* Every piece of evidence of a case has a proof that leads to its manifest's
\* root, and with which no other id passes.
ProofsSound(case, process, root) ==
    \A id \in Range(evidenceIds(RawClaims[case])) :
        \E proof \in proveEvidenceInclusion(case, process, id) :
            /\ proof.root = root
            /\ \A other \in UNION {Range(evidenceIds(RawClaims[c])) : c \in Cases} :
                  verifyInclusion(other, proof) = (other = id)

\* A tenant's manifests, oldest case first, are marked broken exactly where
\* they do not lead to the manifest before.
ChainSound(chain) ==
    \A i \in DOMAIN chain :
        chain[i].chainBroken =
            (chain[i].manifest.prev_manifest_hash
                # IF i = 1 THEN ZERO_HASH ELSE manifest_hash(chain[i - 1]))

SoundLedgers ==
    {process \in 0..MaxRestarts :
        \A t \in Range(Tenants) :
            /\ ChainSound([i \in DOMAIN TenantCases[t] |-> SealedOf(TenantCases[t][i], process)])
            /\ \A c \in Range(TenantCases[t]) :
                  ProofsSound(c, process, SealedOf(c, process).manifest.epoch_root)}

\* The ledger that is served holds together: evidence proofs and links are
\* sound, and what is shown as broken is what is broken.
LedgerHoldsTogether == server.ledger = "built" => server.process \in SoundLedgers

\* The claim a row names has the repriced predicate and is one that decides;
\* the weights shown before and after differ exactly for that predicate; the
\* old verdict is the sealed one.
Explained(d, process) ==
    LET before == d.before.contributing_claims
        after == d.after.contributing_claims
    IN  /\ \E i \in DOMAIN after : after[i].claim_id = d.responsible
                                   /\ after[i].predicate = d.predicate
        /\ Len(before) = Len(after)
        /\ \A i \in DOMAIN after :
              /\ before[i].claim_id = after[i].claim_id
              /\ (before[i].attributed_weight # after[i].attributed_weight)
                     = (after[i].predicate = d.predicate)
        /\ d.old_verdict_hash = SealedOf(d.case, process).manifest.verdict_hash

ExplainedSweeps == {process \in 0..MaxRestarts : \A d \in DriftOf[process] : Explained(d, process)}

\* Every row of the Drift Monitor is explained by what it shows.
DriftIsExplained == drift # None => drift \in ExplainedSweeps
=============================================================================
