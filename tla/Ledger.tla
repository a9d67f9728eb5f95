------------------------------- MODULE Ledger -------------------------------
(***************************************************************************)
(* Evidence, from source lines to sealed epochs.  ReplayCorpus             *)
(* (ingest/pipeline.go) maps the lines of a corpus (ingest/mapping.go) and *)
(* puts them into the content-addressed store (ledger/store.go), from      *)
(* which payloads are redacted while their ids stay; ids are sealed into   *)
(* batches, and batches into a chain of signed epochs (ledger/epoch.go).   *)
(* Replays, redactions and seals may run concurrently: each Put and Redact *)
(* is atomic under the store's lock, a replay is not.                      *)
(*                                                                         *)
(* A line is Blank, Malformed, or a raw event: a function from paths       *)
(* (sequences of keys) to scalars.  Objects are the proper prefixes of its *)
(* paths, so none is empty, and there are no arrays.  A scalar is          *)
(* <<"string", s>>, <<"bool", b>>, <<"null">>, <<"int", n>>, <<"fraction", *)
(* s>>, or <<"time", s, ns>>, a string that parses as RFC 3339.  A         *)
(* normalized event is such a function as well, and its canonical          *)
(* encoding, hence its id, depends on nothing else.                        *)
(***************************************************************************)
EXTENDS Merkle

CONSTANTS
    Workers,        \* goroutines that call ReplayCorpus
    Mappings,       \* [source_id, mapping_version, schema_version, fields, unmapped_passthrough]
    Corpora,        \* sequences of lines
    Blank, Malformed,
    Signer,         \* the ledger's Ed25519 key
    MaxReplays, MaxRedactions, MaxBatches, MaxEpochs  \* bounds

Prefix(p, q) == IsPrefix(p, q)

\* Go iterates over a mapping's fields in any order.  With targets that do not
\* contain one another, as in the mappings of the repository, no order is
\* visible in the result, and with none that overwrites the envelope every event
\* names its mapping; LoadMapping does not reject others.
ASSUME LedgerAssumption ==
    /\ \A m \in Mappings : IsFiniteSet(m.fields)
    /\ \A m \in Mappings : \A f, g \in m.fields :
          f # g => ~Prefix(f.target, g.target)
    /\ \A m \in Mappings : \A f \in m.fields :
          /\ f.target \in Seq(Range(f.target)) \ {<<>>}
          /\ f.target[1] \notin {"schema_version", "mapping_version", "source_id"}
    /\ \A c \in Corpora : Len(c) \in Nat /\ DOMAIN c = 1..Len(c)
    /\ Blank # Malformed
    /\ {MaxReplays, MaxRedactions, MaxBatches, MaxEpochs} \subseteq Nat

VARIABLES
    rows,       \* the Store: id -> [payload, redacted]
    replay,     \* the ReplayCorpus call of each worker
    batches,    \* sealed batches: [ids, Root]
    epochs,     \* sealed epochs, oldest first
    results,    \* history: what completed replays returned
    erased,     \* history: ids that were redacted
    replays, redactions

vars == <<rows, replay, batches, epochs, results, erased, replays, redactions>>

Idle == [running |-> FALSE]
Nil  == <<"nil">>

Init ==
    /\ rows = << >>
    /\ replay = [w \in Workers |-> Idle]
    /\ batches = <<>>
    /\ epochs = <<>>
    /\ results = <<>>
    /\ erased = {}
    /\ replays = 0
    /\ redactions = 0

-----------------------------------------------------------------------------
(* Mapping.Apply.                                                          *)

\* f with the value at key x set, whether x is a key of f already or not.
Put(f, x, value) == [y \in DOMAIN f \cup {x} |-> IF y = x THEN value ELSE f[y]]

IsObject(raw, path) == \E p \in DOMAIN raw : Prefix(path, p) /\ p # path

\* lookupPath finds something: a scalar or an object.
Present(raw, path) == path \in DOMAIN raw \/ IsObject(raw, path)

\* What convertValue accepts for a field of a type.
Convertible(raw, field) ==
    /\ field.from \in DOMAIN raw
    /\ CASE field.type = ""             -> raw[field.from][1] \in {"string", "time", "bool", "null"}
         [] field.type = "int"          -> raw[field.from][1] = "int"
         [] field.type = "timestamp_ns" -> raw[field.from][1] = "time"
         [] OTHER                       -> FALSE

\* A string is a string, whether or not it would parse as a time.
convertPassthrough(value) == IF value[1] = "time" THEN <<"string", value[2]>> ELSE value

convertValue(value, type) ==
    IF type = "timestamp_ns" THEN <<"int", value[3]>> ELSE convertPassthrough(value)

\* Mutant: the objects on the way are always made anew.
setPathMutant(out, path, value) ==
    LET gone == {p \in DOMAIN out : p[1] = path[1]}
    IN  Put([p \in DOMAIN out \ gone |-> out[p]], path, value)

\* A scalar on the way gives way to an object; what was at the path is replaced.
setPath(out, path, value) ==
    LET gone == {p \in DOMAIN out : Prefix(p, path) \/ Prefix(path, p)}
    IN  Put([p \in DOMAIN out \ gone |-> out[p]], path, value)

EnvelopePaths == {<<"schema_version">>, <<"mapping_version">>, <<"source_id">>}

Envelope(m) ==
    [p \in EnvelopePaths |->
        CASE p = <<"schema_version">>  -> <<"string", m.schema_version>>
          [] p = <<"mapping_version">> -> <<"string", m.mapping_version>>
          [] p = <<"source_id">>       -> <<"string", m.source_id>>]

FieldsIn(m, raw) == {f \in m.fields : Present(raw, f.from)}

\* The paths below top-level keys no field has consumed: one mapped sub-field
\* consumes its whole object.
Unconsumed(m, raw) ==
    {p \in DOMAIN raw : \A f \in FieldsIn(m, raw) : p[1] # f.from[1]}

ApplyFails(m, raw) ==
    \/ \E f \in FieldsIn(m, raw) : ~Convertible(raw, f)
    \/ m.unmapped_passthrough /\ \E p \in Unconsumed(m, raw) : raw[p][1] = "fraction"

\* The loop over the fields: out after it has met the first k of them.
MapFields(m, raw, order) ==
    LET out[k \in 0..Len(order)] ==
            IF k = 0 THEN Envelope(m)
            ELSE setPath(out[k - 1], order[k].target,
                         convertValue(raw[order[k].from], order[k].type))
    IN  out[Len(order)]

PassThrough(m, raw, mapped) ==
    LET rest == IF m.unmapped_passthrough THEN Unconsumed(m, raw) ELSE {}
        kept == {p \in DOMAIN mapped : rest = {} \/ p[1] # "unmapped"}
    IN  [p \in kept \cup {<<"unmapped">> \o q : q \in rest} |->
            IF p \in kept THEN mapped[p] ELSE convertPassthrough(raw[Tail(p)])]

\* order: the fields present, in the order the iteration meets them.
Apply(m, raw, order) == PassThrough(m, raw, MapFields(m, raw, order))

-----------------------------------------------------------------------------
(* The store.                                                              *)

\* BLAKE3 of the canonical encoding.
NewEvidenceID(event) == <<"id", event>>

\* Mutant: a redacted row counts as missing.
StorePutMutant(event) ==
    LET id == NewEvidenceID(event) IN
    rows' = IF id \in DOMAIN rows /\ ~rows[id].redacted THEN rows
            ELSE Put(rows, id, [payload |-> event, redacted |-> FALSE])

\* Store.Put: writing an id again is a no-op, redacted or not.
StorePut(event) ==
    LET id == NewEvidenceID(event) IN
    rows' = IF id \in DOMAIN rows THEN rows
            ELSE Put(rows, id, [payload |-> event, redacted |-> FALSE])

Get(id) ==
    IF id \notin DOMAIN rows THEN "unknown evidence id"
    ELSE IF rows[id].redacted THEN "redacted"
    ELSE "payload"

Redact(id) ==
    /\ redactions < MaxRedactions
    /\ id \in DOMAIN rows
    /\ rows' = [rows EXCEPT ![id] = [payload |-> Nil, redacted |-> TRUE]]
    /\ erased' = erased \cup {id}
    /\ redactions' = redactions + 1
    /\ UNCHANGED <<replay, batches, epochs, results, replays>>

-----------------------------------------------------------------------------
(* ReplayCorpus, line by line.                                             *)

ReplayCorpus(w, m, corpus) ==
    /\ ~replay[w].running
    /\ replays < MaxReplays
    /\ replays' = replays + 1
    /\ replay' = [replay EXCEPT ![w] = [running |-> TRUE, mapping |-> m, corpus |-> corpus,
                                        line |-> 1, ids |-> <<>>]]
    /\ UNCHANGED <<rows, batches, epochs, results, erased, redactions>>

AtLine(w) == replay[w].running /\ replay[w].line <= Len(replay[w].corpus)
LineOf(w) == replay[w].corpus[replay[w].line]

SkipBlankLine(w) ==
    /\ AtLine(w)
    /\ LineOf(w) = Blank
    /\ replay' = [replay EXCEPT ![w].line = @ + 1]
    /\ UNCHANGED <<rows, batches, epochs, results, erased, replays, redactions>>

PutLine(w) ==
    LET m == replay[w].mapping IN
    /\ AtLine(w)
    /\ LineOf(w) \notin {Blank, Malformed}
    /\ ~ApplyFails(m, LineOf(w))
    /\ \E order \in SetToSeqs(FieldsIn(m, LineOf(w))) :
          LET event == Apply(m, LineOf(w), order) IN
          /\ StorePut(event)
          /\ replay' = [replay EXCEPT ![w].line = @ + 1,
                                      ![w].ids = Append(@, NewEvidenceID(event))]
    /\ UNCHANGED <<batches, epochs, results, erased, replays, redactions>>

LineIsBad(w) ==
    /\ LineOf(w) # Blank
    /\ IF LineOf(w) = Malformed THEN TRUE ELSE ApplyFails(replay[w].mapping, LineOf(w))

\* The call returns no ids; the lines before stay in the store.
LineFails(w) ==
    /\ AtLine(w)
    /\ LineIsBad(w)
    /\ replay' = [replay EXCEPT ![w] = Idle]
    /\ UNCHANGED <<rows, batches, epochs, results, erased, replays, redactions>>

ReplayReturns(w) ==
    /\ replay[w].running
    /\ ~AtLine(w)
    /\ results' = Append(results, [mapping |-> replay[w].mapping, corpus |-> replay[w].corpus,
                                   ids |-> replay[w].ids])
    /\ replay' = [replay EXCEPT ![w] = Idle]
    /\ UNCHANGED <<rows, batches, epochs, erased, replays, redactions>>

-----------------------------------------------------------------------------
(* Sealing.                                                                *)

\* The ids of one completed replay, in corpus order; no ids are an error.
SealBatch(ids) ==
    /\ Len(batches) < MaxBatches
    /\ ids # <<>>
    /\ batches' = Append(batches, [ids |-> ids, Root |-> Root(BuildMerkleTree(ids))])
    /\ UNCHANGED <<rows, replay, epochs, results, erased, replays, redactions>>

signedHeader(epochID, root, prev) == <<epochID, root, prev>>

Sign(key, message) == <<"ed25519", key, message>>

Verify(seal) ==
    seal.Signature = Sign(seal.PublicKey, signedHeader(seal.EpochID, seal.Root, seal.Prev))

\* Mutant: the chain commits to the header and not to the signature.
ChainHashMutant(seal) == <<"blake3", signedHeader(seal.EpochID, seal.Root, seal.Prev)>>

ChainHash(seal) ==
    <<"blake3", signedHeader(seal.EpochID, seal.Root, seal.Prev), seal.Signature>>

ZeroHash == <<"zero">>

\* The Tree of a seal is kept as the list it was built from.
Seal(epochID, batchRoots, prev, key) ==
    LET root == Root(BuildMerkleTree(batchRoots)) IN
    [EpochID   |-> epochID,
     Root      |-> root,
     Prev      |-> prev,
     PublicKey |-> key,
     Signature |-> Sign(key, signedHeader(epochID, root, prev)),
     Tree      |-> batchRoots]

\* The roots of the batches sealed since the last epoch.
WindowRoots ==
    LET sealed[n \in 0..Len(epochs)] == IF n = 0 THEN 0 ELSE sealed[n - 1] + Len(epochs[n].Tree)
        before == sealed[Len(epochs)]
    IN  [i \in 1..Len(batches) - before |-> batches[before + i].Root]

\* The caller hands in the chain hash of its last epoch, zero for the first.
Prev == IF epochs = <<>> THEN ZeroHash ELSE ChainHash(Last(epochs))

SealEpoch ==
    /\ Len(epochs) < MaxEpochs
    /\ WindowRoots # <<>>
    /\ epochs' = Append(epochs, Seal(Len(epochs), WindowRoots, Prev, Signer))
    /\ UNCHANGED <<rows, replay, batches, results, erased, replays, redactions>>

Next ==
    \/ \E w \in Workers :
          \/ \E m \in Mappings, c \in Corpora : ReplayCorpus(w, m, c)
          \/ SkipBlankLine(w)
          \/ PutLine(w)
          \/ LineFails(w)
          \/ ReplayReturns(w)
    \/ \E id \in DOMAIN rows : Redact(id)
    \/ \E i \in DOMAIN results : SealBatch(results[i].ids)
    \/ SealEpoch

Spec == Init /\ [][Next]_vars

-----------------------------------------------------------------------------
(* Properties.                                                             *)

Returned == UNION {Range(results[i].ids) : i \in DOMAIN results}

TypeOK ==
    /\ \A id \in DOMAIN rows : id[1] = "id" /\ rows[id].redacted \in BOOLEAN
    /\ \A w \in Workers : replay[w].running =>
          /\ replay[w].line \in 1..Len(replay[w].corpus) + 1
          /\ Range(replay[w].ids) \subseteq DOMAIN rows
    /\ \A i \in DOMAIN batches : Range(batches[i].ids) \subseteq Returned
    /\ erased \subseteq DOMAIN rows
    /\ Len(batches) <= MaxBatches /\ Len(epochs) <= MaxEpochs
    /\ replays \in 0..MaxReplays /\ redactions \in 0..MaxRedactions

\* Get tells "deleted for erasure" from "never existed" (store.go:43-48), for
\* good: an id that was redacted stays redacted, without its payload, through
\* any later replay of the very line it came from; every other id a replay has
\* returned still has the payload it is the address of.
GetIsHonest ==
    /\ \A id \in erased : Get(id) = "redacted" /\ rows[id].payload = Nil
    /\ \A id \in (DOMAIN rows \cup Returned) \ erased :
          Get(id) = "payload" /\ NewEvidenceID(rows[id].payload) = id

\* "Replay a recorded corpus through the pipeline twice; byte-identical evidence
\* sets" (pipeline.go:15-20): any two completed replays of a corpus under a
\* mapping return the same ids in the same order, whatever order the mapping's
\* fields are visited in and whatever was replayed, redacted or failed between.
ReplaysAgree ==
    \A i, j \in DOMAIN results :
        /\ results[i].mapping = results[j].mapping
        /\ results[i].corpus = results[j].corpus
        => results[i].ids = results[j].ids

\* Every list that was sealed: evidence in batches, batch roots in epochs.
SealedLists ==
    {batches[i].ids : i \in DOMAIN batches} \cup {epochs[i].Tree : i \in DOMAIN epochs}

\* Completeness (merkle.go:139-146): whatever has been redacted, each id of a
\* batch proves its inclusion under the batch's root, and each batch root under
\* that of its epoch.
ProofsVerify ==
    \A ids \in SealedLists :
        LET tree == BuildMerkleTree(ids)
        IN  \A i \in 1..Len(ids) : VerifyInclusion(ids[i], Prove(tree, i - 1), Root(tree))

\* Soundness (merkle.go:9-16): a proof handed out for a sealed tree, or what is
\* left of it after dropping its first steps, convinces nobody of the inclusion
\* of anything but an element of the list: not of another evidence id, not of a
\* batch root in a batch, and not of an inner node or padding.
ProofsAreSound ==
    \A ids \in SealedLists :
        LET tree   == BuildMerkleTree(ids)
            nodes  == UNION {Range(tree.levels[h]) : h \in 0..tree.height}
            others == DOMAIN rows \cup {batches[b].Root : b \in DOMAIN batches} \cup nodes
        IN  \A i \in 0..Len(ids) - 1, k \in 0..tree.height :
                LET proof == Prove(tree, i)
                    rest  == [proof EXCEPT !.Steps = SubSeq(@, k + 1, tree.height)]
                IN  \A x \in others \ Range(ids) : ~VerifyInclusion(x, rest, Root(tree))

\* A proof convinces of exactly what was sealed (merkle.go:139-146): of every
\* element of its list, and of nothing else.
ProofsAreExact == ProofsVerify /\ ProofsAreSound

\* A seal somebody might put into the place of an epoch: an epoch, with its own
\* or another number, signed again with another key, or moved in the chain.
Resealed(e, n, key, prev) ==
    [EpochID |-> n, Root |-> e.Root, Prev |-> prev, PublicKey |-> key,
     Signature |-> Sign(key, signedHeader(n, e.Root, prev)), Tree |-> e.Tree]

\* Apart from the tree, which no hash covers.
SameSeal(s, e) == [s EXCEPT !.Tree = <<>>] = [e EXCEPT !.Tree = <<>>]

\* "A chain break (reordered, dropped, or altered epoch, or even a swapped-in
\* signature over the same header) is detectable from the next epoch's Prev
\* value alone" (epoch.go:85-89): of all seals that verify, only the epoch
\* before it has the chain hash an epoch names, and only the first names none.
ChainBreaksShow ==
    \A n \in DOMAIN epochs :
        /\ Verify(epochs[n])
        /\ epochs[n].Prev = ZeroHash <=> n = 1
        /\ n > 1 =>
              \A i \in DOMAIN epochs, id \in 0..MaxEpochs, key \in {Signer, "another key"},
                 prev \in {ZeroHash} \cup {ChainHash(epochs[j]) : j \in DOMAIN epochs} :
                  LET s == Resealed(epochs[i], id, key, prev)
                  IN  Verify(s) /\ ChainHash(s) = epochs[n].Prev => SameSeal(s, epochs[n - 1])
=============================================================================
