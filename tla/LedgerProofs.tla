---------------------------- MODULE LedgerProofs ----------------------------
(***************************************************************************)
(* Proofs about Ledger for any workers, mappings and corpora and any       *)
(* number of replays, redactions, batches and epochs.                      *)
(***************************************************************************)
EXTENDS Ledger, Basics, FiniteSetTheorems

-----------------------------------------------------------------------------
(* Trees and proofs.                                                       *)

\* Inclusion proofs are exact, for lists of any length.  What a tree and a proof
\* are, in terms of their levels.
LEMMA TreeOfList ==
    ASSUME NEW S, NEW ids \in Seq(S), NEW i \in 0..Len(ids) - 1, NEW T, T = BuildMerkleTree(ids),
           NEW steps, steps = Prove(T, i).Steps
    PROVE  /\ T.height \in Nat /\ T.levels = Levels(PaddedLeaves(ids), T.height)
           /\ i \in Nat /\ i < doubled[T.height]
           /\ PaddedLeaves(ids)[i] = leafHash(ids[i + 1])
           /\ steps \in Seq(Range(steps)) /\ Len(steps) = T.height
           /\ \A l \in 1..T.height : steps[l] = Sibling(T.levels, i, l - 1)
<1>1. PICK n \in Nat : n = Len(ids)
  BY LenProperties
<1>2. PICK H : H = Doublings(n)
  OBVIOUS
<1>3. PICK d : d = doubled[H]
  OBVIOUS
<1>4. H \in Nat /\ d \in Nat /\ d >= n
  BY <1>2, <1>3, DoublingsEnough, DoubledSteps
<1>5. T.height = H /\ T.levels = Levels(PaddedLeaves(ids), H)
  BY <1>1, <1>2 DEF BuildMerkleTree
<1>6. i \in Nat /\ i < n /\ i < d /\ i \in 0..d - 1
  BY <1>1, <1>4
<1>7. PaddedLeaves(ids)[i] = leafHash(ids[i + 1])
  BY <1>1, <1>2, <1>3, <1>6 DEF PaddedLeaves, nextPowerOfTwo
<1>8. steps = [l \in 1..H |-> Sibling(T.levels, i, l - 1)]
  BY <1>5 DEF Prove
<1>9. steps \in [1..H -> Range(steps)]
  BY <1>8 DEF Range
<1>10. steps \in Seq(Range(steps)) /\ Len(steps) = H
  <2>1. steps \in Seq(Range(steps))
    BY <1>4, <1>9, SeqDef
  <2>2. QED
    BY <1>4, <1>9, <2>1, LenProperties
<1>11. QED
  BY <1>3, <1>4, <1>5, <1>6, <1>7, <1>8, <1>10

\* Completeness (merkle.go:101-102, 139-146): the proof of a position verifies
\* for the element there, whatever the length of the list.
THEOREM InclusionIsComplete ==
    ASSUME NEW S, NEW ids \in Seq(S), NEW i \in 0..Len(ids) - 1
    PROVE  VerifyInclusion(ids[i + 1], Prove(BuildMerkleTree(ids), i), Root(BuildMerkleTree(ids)))
<1>1. PICK T : T = BuildMerkleTree(ids)
  OBVIOUS
<1>2. PICK steps, levels, H, bottom, id :
         /\ steps = Prove(T, i).Steps /\ levels = T.levels /\ H = T.height
         /\ bottom = PaddedLeaves(ids) /\ id = ids[i + 1]
  OBVIOUS
<1>3. /\ H \in Nat /\ levels = Levels(bottom, H) /\ i \in Nat /\ i < doubled[H]
      /\ bottom[i] = leafHash(id)
      /\ Len(steps) = H /\ \A l \in 1..H : steps[l] = Sibling(levels, i, l - 1)
  BY <1>1, <1>2, TreeOfList
<1>4. Climbed(id, steps) = levels[H][0]
  BY <1>3, ProofIsExact, SMTT(60)
<1>5. QED
  BY <1>1, <1>2, <1>4 DEF VerifyInclusion, Root

\* Soundness (merkle.go:9-16): no proof handed out for a tree, nor what is left
\* of it after its first k steps, verifies for anything outside the list.
THEOREM InclusionIsSound ==
    ASSUME NEW S, NEW ids \in Seq(S), NEW i \in 0..Len(ids) - 1,
           NEW k \in 0..BuildMerkleTree(ids).height, NEW x, x \notin Range(ids), NEW proof,
           proof.Steps = SubSeq(Prove(BuildMerkleTree(ids), i).Steps, k + 1,
                                BuildMerkleTree(ids).height)
    PROVE  ~VerifyInclusion(x, proof, Root(BuildMerkleTree(ids)))
<1> SUFFICES ASSUME VerifyInclusion(x, proof, Root(BuildMerkleTree(ids))) PROVE FALSE
  OBVIOUS
<1>1. PICK T : T = BuildMerkleTree(ids)
  OBVIOUS
<1>2. PICK steps, levels, H : steps = Prove(T, i).Steps /\ levels = T.levels /\ H = T.height
  OBVIOUS
<1>3. /\ H \in Nat /\ levels = Levels(PaddedLeaves(ids), H) /\ i \in Nat /\ i < doubled[H]
      /\ PaddedLeaves(ids)[i] = leafHash(ids[i + 1])
  BY <1>1, <1>2, TreeOfList
<1>4. /\ steps \in Seq(Range(steps)) /\ Len(steps) = H
      /\ \A l \in 1..H : steps[l] = Sibling(levels, i, l - 1)
  <2>1. steps = [l \in 1..H |-> Sibling(levels, i, l - 1)]
    BY <1>2 DEF Prove
  <2>2. \A l \in 1..H : steps[l] = Sibling(levels, i, l - 1) /\ steps[l] \in Range(steps)
    BY <2>1 DEF Range
  <2>3. steps \in [1..H -> Range(steps)]
    BY <2>1, <2>2
  <2>4. steps \in Seq(Range(steps)) /\ Len(steps) = H
    <3>1. steps \in Seq(Range(steps))
      BY <1>3, <2>3, SeqDef
    <3>2. QED
      BY <1>3, <2>3, <3>1, LenProperties
  <2>5. QED
    BY <2>2, <2>4
<1> H \in Nat /\ k \in 0..H
  BY <1>1, <1>2, <1>3
<1>5. PICK rest : rest = SubSeq(steps, k + 1, H)
  OBVIOUS
<1>6. PICK n \in Nat : n = H - k
  OBVIOUS
<1>7. Len(rest) = n /\ \A l \in 1..n : rest[l] = Sibling(levels, i, k + l - 1)
  <2>1. k \in 0..H
    OBVIOUS
  <2>2. Len(rest) = n /\ \A l \in 1..n : rest[l] = steps[k + l]
    BY <1>4, <1>5, <1>6, <2>1
  <2>3. ASSUME NEW l \in 1..n PROVE rest[l] = Sibling(levels, i, k + l - 1)
    <3>1. PICK m \in 1..H : m = k + l
      BY <1>6, <2>1
    <3>2. rest[l] = steps[m] /\ steps[m] = Sibling(levels, i, m - 1)
      BY <1>4, <2>2, <3>1
    <3>3. QED
      BY <3>1, <3>2
  <2>4. QED
    BY <2>2, <2>3
<1>8. PICK h : /\ h[0] = leafHash(x)
               /\ \A l \in 1..n : h[l] = Climb(rest[l], h[l - 1])
               /\ Climbed(x, rest) = h[n]
  BY <1>7, ClimbSteps
<1>9. /\ OnPath(levels, i, 0) = leafHash(ids[i + 1])
      /\ \A l \in 0..H - 1 : OnPath(levels, i, l + 1) = Climb(Sibling(levels, i, l), OnPath(levels, i, l))
      /\ \A l \in 1..H : \E a, b : OnPath(levels, i, l) = internalHash(a, b)
      /\ OnPath(levels, i, H) = levels[H][0]
  BY <1>3, PathClimbs
<1>10. h[n] = OnPath(levels, i, H)
  BY <1>1, <1>2, <1>5, <1>8, <1>9 DEF VerifyInclusion, Root
<1>11. h[0] = OnPath(levels, i, k)
  <2> DEFINE In == {j \in Nat : j <= n => h[n - j] = OnPath(levels, i, H - j)}
  <2>1. 0 \in In
    BY <1>10
  <2>2. \A j \in Nat : j \in In => j + 1 \in In
    <3> SUFFICES ASSUME NEW j \in Nat, j \in In, j + 1 <= n
                 PROVE  h[n - (j + 1)] = OnPath(levels, i, H - (j + 1))
      OBVIOUS
    <3>1. PICK l \in Nat : l = n - (j + 1)
      OBVIOUS
    <3>2. /\ n - j = l + 1 /\ l + 1 \in 1..n /\ (l + 1) - 1 = l
          /\ H - j = (k + l) + 1 /\ H - (j + 1) = k + l
          /\ k + l \in 0..H - 1 /\ k + (l + 1) - 1 = k + l
      BY <1>6, <3>1
    <3>3. h[l + 1] = OnPath(levels, i, (k + l) + 1)
      BY <3>2
    <3>4. h[l + 1] = Climb(rest[l + 1], h[l]) /\ rest[l + 1] = Sibling(levels, i, k + l)
      BY <1>7, <1>8, <3>2
    <3>5. OnPath(levels, i, (k + l) + 1) = Climb(Sibling(levels, i, k + l), OnPath(levels, i, k + l))
      BY <1>9, <3>2
    <3>6. h[l] = OnPath(levels, i, k + l)
      BY <3>3, <3>4, <3>5, ClimbIsInjective
    <3>7. QED
      BY <3>1, <3>2, <3>6
  <2>3. Nat \subseteq In
    <3> HIDE DEF In
    <3> QED
      BY <2>1, <2>2, Induction
  <2>4. n - n = 0 /\ H - n = k
    BY <1>6
  <2>5. QED
    BY <2>3, <2>4
<1>12. CASE k = 0
  <2>1. leafHash(x) = leafHash(ids[i + 1])
    BY <1>8, <1>9, <1>11, <1>12
  <2>2. x = ids[i + 1]
    BY <2>1 DEF leafHash
  <2>3. i + 1 \in DOMAIN ids
    BY LenProperties
  <2>4. QED
    BY <2>2, <2>3 DEF Range
<1>13. CASE k # 0
  <2>1. k \in 1..H
    BY <1>1, <1>2, <1>13
  <2>2. PICK a, b : leafHash(x) = internalHash(a, b)
    BY <1>8, <1>9, <1>11, <2>1
  <2>3. QED
    BY <2>2 DEF leafHash, internalHash
<1>14. QED
  BY <1>12, <1>13

-----------------------------------------------------------------------------
(* Mapping.Apply does not depend on the order of the fields.               *)

\* Where the fields F of a mapping write to.
Targets(F) == {f.target : f \in F}

\* The field of F that writes to p.
Writer(F, p) == CHOOSE f \in F : f.target = p

\* What the fields F make of a raw event, without an order.
Mapped(m, raw, F) ==
    [p \in EnvelopePaths \cup Targets(F) |->
        IF p \in Targets(F)
        THEN convertValue(raw[Writer(F, p).from], Writer(F, p).type)
        ELSE Envelope(m)[p]]

\* The event of a line under a mapping.
EventOf(m, raw) == PassThrough(m, raw, Mapped(m, raw, FieldsIn(m, raw)))

\* A path is a prefix of another one only if they begin with the same key.
LEMMA PrefixSharesHead ==
    ASSUME NEW S, NEW T, NEW s \in Seq(S) \ {<<>>}, NEW t \in Seq(T) \ {<<>>}, Prefix(s, t)
    PROVE  s[1] = t[1]
<1>1. Len(s) \in Nat /\ Len(t) \in Nat /\ Len(s) >= 1 /\ Len(t) >= 1 /\ Len(s) <= Len(t)
  BY LenProperties, EmptySeq DEF Prefix, IsPrefix
<1>2. SubSeq(s, 1, Len(s)) = SubSeq(t, 1, Len(s))
  BY DEF Prefix, IsPrefix
<1>3. SubSeq(s, 1, Len(s))[1] = s[1] /\ SubSeq(t, 1, Len(s))[1] = t[1]
  BY <1>1
<1>4. QED
  BY <1>2, <1>3

\* Every path is a prefix of itself.
LEMMA PrefixReflexive ==
    ASSUME NEW S, NEW s \in Seq(S)
    PROVE  Prefix(s, s)
BY DEF Prefix, IsPrefix

\* No field writes where another field or the envelope is: setting the value of
\* one more field adds its target and disturbs nothing (setPath).
LEMMA SetPathAdds ==
    ASSUME NEW m \in Mappings, NEW raw, NEW F \in SUBSET m.fields, NEW f \in m.fields \ F
    PROVE  setPath(Mapped(m, raw, F), f.target, convertValue(raw[f.from], f.type))
             = Mapped(m, raw, F \cup {f})
<1> DEFINE out == Mapped(m, raw, F)
           value == convertValue(raw[f.from], f.type)
           gone == {p \in DOMAIN out : Prefix(p, f.target) \/ Prefix(f.target, p)}
           new == Mapped(m, raw, F \cup {f})
<1>1. \A g \in m.fields : /\ g.target \in Seq(Range(g.target)) \ {<<>>}
                          /\ g.target[1] \notin {"schema_version", "mapping_version", "source_id"}
  BY LedgerAssumption
<1>2. \A g, h \in m.fields : g # h => ~Prefix(g.target, h.target)
  BY LedgerAssumption
<1>3. \A g, h \in m.fields : g.target = h.target => g = h
  BY <1>1, <1>2, PrefixReflexive
<1>4. \A p \in EnvelopePaths : ~Prefix(p, f.target) /\ ~Prefix(f.target, p) /\ p # f.target
  <2> SUFFICES ASSUME NEW p \in EnvelopePaths
               PROVE  ~Prefix(p, f.target) /\ ~Prefix(f.target, p) /\ p # f.target
    OBVIOUS
  <2>1. p \in Seq({p[1]}) \ {<<>>} /\ p[1] \in {"schema_version", "mapping_version", "source_id"}
    <3>1. PICK key \in {"schema_version", "mapping_version", "source_id"} : p = <<key>>
      BY DEF EnvelopePaths
    <3>2. <<key>> \in Seq({key}) /\ <<key>> # <<>> /\ <<key>>[1] = key
      OBVIOUS
    <3>3. QED
      BY <3>1, <3>2
  <2>2. QED
    BY <1>1, <2>1, PrefixSharesHead
<1>5. \A p \in Targets(F) : ~Prefix(p, f.target) /\ ~Prefix(f.target, p) /\ p # f.target
  BY <1>2, <1>3 DEF Targets
<1>6. DOMAIN out = EnvelopePaths \cup Targets(F) /\ gone = {}
  BY <1>4, <1>5 DEF Mapped
<1>7. /\ Targets(F \cup {f}) = Targets(F) \cup {f.target}
      /\ Writer(F \cup {f}, f.target) = f
      /\ \A p \in Targets(F) : Writer(F \cup {f}, p) = Writer(F, p)
  <2>1. Targets(F \cup {f}) = Targets(F) \cup {f.target}
    BY DEF Targets
  <2>2. \A G \in SUBSET m.fields : \A g \in G : Writer(G, g.target) = g
    BY <1>3 DEF Writer
  <2>3. QED
    BY <2>1, <2>2 DEF Targets
<1>8. setPath(out, f.target, value)
        = [p \in DOMAIN out \cup {f.target} |-> IF p = f.target THEN value ELSE out[p]]
  BY <1>4, <1>5, <1>6 DEF setPath, Put
<1>9. new = [p \in DOMAIN out \cup {f.target} |-> IF p = f.target THEN value ELSE out[p]]
  <2>1. DOMAIN new = DOMAIN out \cup {f.target}
    BY <1>6, <1>7 DEF Mapped
  <2>2. \A p \in DOMAIN new : new[p] = IF p = f.target THEN value ELSE out[p]
    BY <1>4, <1>5, <1>6, <1>7 DEF Mapped
  <2>3. new = [p \in DOMAIN new |-> new[p]]
    BY DEF Mapped
  <2>4. QED
    BY <2>1, <2>2, <2>3
<1>10. QED
  BY <1>8, <1>9

\* The first k fields an iteration meets.
Met(order, k) == {order[j] : j \in 1..k}

\* Whatever order a loop meets the fields in, it ends with the same event.
LEMMA OrderIsInvisible ==
    ASSUME NEW m \in Mappings, NEW raw, NEW order \in SetToSeqs(FieldsIn(m, raw))
    PROVE  MapFields(m, raw, order) = Mapped(m, raw, FieldsIn(m, raw))
<1> DEFINE F == FieldsIn(m, raw)
           n == Cardinality(F)
           value(k) == convertValue(raw[order[k].from], order[k].type)
           Loop(o) == o = [k \in 0..Len(order) |->
                              IF k = 0 THEN Envelope(m)
                              ELSE setPath(o[k - 1], order[k].target, value(k))]
           g == [k \in 0..Len(order) |-> Mapped(m, raw, Met(order, k))]
           out == CHOOSE o : Loop(o)
<1>1. F \in SUBSET m.fields /\ IsFiniteSet(F) /\ n \in Nat
  <2>1. F \in SUBSET m.fields
    BY DEF FieldsIn
  <2>2. IsFiniteSet(m.fields)
    BY LedgerAssumption
  <2>3. QED
    BY <2>1, <2>2, FS_Subset, FS_CardinalityType
<1>2. /\ order \in [1..n -> F]
      /\ \A i, j \in 1..n : i # j => order[i] # order[j]
  BY DEF SetToSeqs
<1>3. order \in Seq(F) /\ Len(order) = n
  <2> HIDE DEF F, n
  <2>1. order \in Seq(F)
    BY <1>1, <1>2, SeqDef
  <2>2. QED
    BY <1>1, <1>2, <2>1, LenProperties
<1>4. Met(order, n) = F
  <2>1. order \in Injection(1..n, F)
    BY <1>2 DEF Injection, IsInjective
  <2>2. Cardinality(1..n) = n
    BY <1>1, FS_Interval
  <2>3. order \in Surjection(1..n, F)
    BY <1>1, <2>1, <2>2, FS_Injection
  <2>4. QED
    BY <1>2, <2>3 DEF Surjection, Met
<1>5. \A k \in 1..n : setPath(Mapped(m, raw, Met(order, k - 1)), order[k].target, value(k))
                        = Mapped(m, raw, Met(order, k))
  <2> SUFFICES ASSUME NEW k \in 1..n
               PROVE  setPath(Mapped(m, raw, Met(order, k - 1)), order[k].target, value(k))
                        = Mapped(m, raw, Met(order, k))
    OBVIOUS
  <2>1. Met(order, k) = Met(order, k - 1) \cup {order[k]}
    BY <1>1 DEF Met
  <2>2. Met(order, k - 1) \in SUBSET m.fields /\ order[k] \in m.fields
    BY <1>1, <1>2 DEF Met
  <2>3. order[k] \notin Met(order, k - 1)
    BY <1>1, <1>2 DEF Met
  <2>4. QED
    BY <2>1, <2>2, <2>3, SetPathAdds
<1>6. Mapped(m, raw, Met(order, 0)) = Envelope(m)
  <2>1. Met(order, 0) = {} /\ Targets({}) = {}
    BY DEF Met, Targets
  <2>2. QED
    BY <2>1 DEF Mapped, Envelope
<1>7. Loop(g)
  <2> SUFFICES ASSUME NEW k \in 0..n
               PROVE  g[k] = IF k = 0 THEN Envelope(m)
                             ELSE setPath(g[k - 1], order[k].target, value(k))
    BY <1>3
  <2>1. CASE k = 0
    BY <1>1, <1>3, <1>6, <2>1
  <2>2. CASE k # 0
    <3>1. k \in 1..n /\ k - 1 \in 0..n
      BY <1>1, <2>2
    <3>2. g[k] = Mapped(m, raw, Met(order, k)) /\ g[k - 1] = Mapped(m, raw, Met(order, k - 1))
      BY <1>3, <3>1
    <3>3. QED
      BY <1>5, <2>2, <3>1, <3>2
  <2>3. QED
    BY <2>1, <2>2
<1>8. Loop(out)
  <2> HIDE DEF g, Loop
  <2>1. QED
    BY <1>7
<1>9. \A k \in 0..n : out[k] = g[k]
  <2> DEFINE S == {k \in Nat : k <= n => out[k] = g[k]}
  <2> HIDE DEF out, g, n
  <2>1. 0 \in S
    BY <1>1, <1>3, <1>7, <1>8
  <2>2. \A k \in Nat : k \in S => k + 1 \in S
    <3> SUFFICES ASSUME NEW k \in Nat, k \in S, k + 1 <= n
                 PROVE  out[k + 1] = g[k + 1]
      OBVIOUS
    <3>1. k \in 0..n /\ k + 1 \in 0..n /\ k + 1 # 0 /\ (k + 1) - 1 = k
      BY <1>1
    <3>2. out[k] = g[k]
      BY <3>1
    <3>3. /\ out[k + 1] = setPath(out[k], order[k + 1].target, value(k + 1))
          /\ g[k + 1] = setPath(g[k], order[k + 1].target, value(k + 1))
      <4> HIDE DEF value
      <4>1. QED
        BY <1>3, <1>7, <1>8, <3>1
    <3>4. QED
      BY <3>2, <3>3
  <2>3. Nat \subseteq S
    <3> HIDE DEF S
    <3>1. QED
      BY <2>1, <2>2, Induction
  <2>4. QED
    BY <1>1, <2>3
<1>10. MapFields(m, raw, order) = out[n]
  BY <1>3 DEF MapFields
<1>11. out[n] = Mapped(m, raw, Met(order, n))
  <2> HIDE DEF out
  <2>1. QED
    BY <1>1, <1>3, <1>9
<1>12. QED
  BY <1>4, <1>10, <1>11

\* Hence an event is a function of its line and the mapping.
LEMMA ApplyIsDeterministic ==
    ASSUME NEW m \in Mappings, NEW raw, NEW order \in SetToSeqs(FieldsIn(m, raw))
    PROVE  Apply(m, raw, order) = EventOf(m, raw)
BY OrderIsInvisible DEF Apply, EventOf

-----------------------------------------------------------------------------
(* What a replay returns.                                                  *)

\* The ids of the lines of a corpus up to each line.
IdsOf(m, c) ==
    LET ids[n \in 0..Len(c)] ==
            IF n = 0 THEN <<>>
            ELSE IF c[n] = Blank THEN ids[n - 1]
            ELSE Append(ids[n - 1], NewEvidenceID(EventOf(m, c[n])))
    IN  ids

\* They are built line by line.
LEMMA IdsGrow ==
    ASSUME NEW m, NEW c \in Corpora
    PROVE  /\ IdsOf(m, c)[0] = <<>>
           /\ \A n \in 1..Len(c) :
                 IdsOf(m, c)[n] = IF c[n] = Blank THEN IdsOf(m, c)[n - 1]
                                  ELSE Append(IdsOf(m, c)[n - 1], NewEvidenceID(EventOf(m, c[n])))
<1> DEFINE id(n) == NewEvidenceID(EventOf(m, c[n]))
           V == Seq({id(n) : n \in 1..Len(c)})
           step == [n \in Nat |-> [v \in V |->
                       IF n \in 1..Len(c) /\ c[n] # Blank THEN Append(v, id(n)) ELSE v]]
           Loop(o) == o = [n \in 0..Len(c) |->
                              IF n = 0 THEN <<>>
                              ELSE IF c[n] = Blank THEN o[n - 1]
                              ELSE Append(o[n - 1], id(n))]
<1> HIDE DEF id
<1>1. Len(c) \in Nat
  BY LedgerAssumption
<1>2. <<>> \in V
  OBVIOUS
<1>3. step \in [Nat -> [V -> V]]
  <2>1. \A n \in 1..Len(c) : id(n) \in {id(k) : k \in 1..Len(c)}
    OBVIOUS
  <2>2. \A n \in 1..Len(c), v \in V : Append(v, id(n)) \in V
    BY <2>1, AppendProperties
  <2> HIDE DEF V
  <2>3. \A n \in Nat, v \in V :
           (IF n \in 1..Len(c) /\ c[n] # Blank THEN Append(v, id(n)) ELSE v) \in V
    BY <2>2
  <2>4. QED
    BY <2>3
<1>4. PICK f \in [Nat -> V] : Iterates(f, <<>>, step)
  <2>1. PICK U, first, next : U = V /\ first = <<>> /\ next = step
    OBVIOUS
  <2> HIDE DEF V, step
  <2>2. first \in U /\ next \in [Nat -> [U -> U]]
    BY <1>2, <1>3, <2>1
  <2>3. \E f \in [Nat -> U] : Iterates(f, first, next)
    BY <2>2, Recursion
  <2>4. QED
    BY <2>1, <2>3
<1>5. \A n \in 1..Len(c) : f[n] = IF c[n] = Blank THEN f[n - 1] ELSE Append(f[n - 1], id(n))
  <2> SUFFICES ASSUME NEW n \in 1..Len(c)
               PROVE  f[n] = IF c[n] = Blank THEN f[n - 1] ELSE Append(f[n - 1], id(n))
    OBVIOUS
  <2>1. n - 1 \in Nat /\ (n - 1) + 1 = n /\ n \in Nat
    BY <1>1
  <2> HIDE DEF V
  <2>2. f[n] = step[n][f[n - 1]] /\ f[n - 1] \in V
    BY <1>4, <2>1 DEF Iterates
  <2>3. QED
    BY <2>1, <2>2
<1>6. Loop([n \in 0..Len(c) |-> f[n]])
  <2> DEFINE g == [n \in 0..Len(c) |-> f[n]]
  <2> SUFFICES ASSUME NEW n \in 0..Len(c)
               PROVE  g[n] = IF n = 0 THEN <<>>
                             ELSE IF c[n] = Blank THEN g[n - 1]
                             ELSE Append(g[n - 1], id(n))
    OBVIOUS
  <2>1. CASE n = 0
    BY <1>4, <2>1 DEF Iterates
  <2>2. CASE n # 0
    <3>1. n \in 1..Len(c) /\ n - 1 \in 0..Len(c)
      BY <1>1, <2>2
    <3>2. QED
      BY <1>5, <2>2, <3>1
  <2>3. QED
    BY <2>1, <2>2
<1>7. Loop(CHOOSE o : Loop(o))
  <2> HIDE DEF Loop
  <2> QED
    BY <1>6
<1>8. IdsOf(m, c) = CHOOSE o : Loop(o)
  BY DEF IdsOf, id
<1>9. Loop(IdsOf(m, c))
  BY <1>7, <1>8
<1>10. QED
  <2>1. 0 \in 0..Len(c) /\ \A n \in 1..Len(c) : n \in 0..Len(c) /\ n # 0
    BY <1>1
  <2>2. PICK o : o = IdsOf(m, c) /\ Loop(o)
    BY <1>9
  <2>3. /\ o[0] = <<>>
        /\ \A n \in 1..Len(c) :
              o[n] = IF c[n] = Blank THEN o[n - 1] ELSE Append(o[n - 1], id(n))
    BY <2>1, <2>2
  <2>4. QED
    BY <2>2, <2>3 DEF id

-----------------------------------------------------------------------------
(* The inductive invariant.                                                *)

Running ==
    [running : {TRUE}, mapping : Mappings, corpus : Corpora, line : Nat, ids : Seq(DOMAIN rows)]

Result == [mapping : Mappings, corpus : Corpora, ids : Seq(DOMAIN rows)]

\* Lists are sequences, and the ids a replay holds or has returned are stored.
ShapeOK ==
    /\ replay \in [Workers -> {Idle} \cup Running]
    /\ results \in Seq(Result)
    /\ batches \in Seq(Range(batches))
    /\ epochs \in Seq(Range(epochs))

\* A row has its payload until it is redacted.
RowsAreHonest ==
    \A id \in DOMAIN rows :
        IF id \in erased
        THEN rows[id].redacted = TRUE /\ rows[id].payload = Nil
        ELSE rows[id].redacted = FALSE /\ NewEvidenceID(rows[id].payload) = id

\* A replay holds the ids of the lines behind it, and has returned those of all.
ReplaysFollow ==
    /\ \A w \in Workers : replay[w].running =>
          replay[w].ids = IdsOf(replay[w].mapping, replay[w].corpus)[replay[w].line - 1]
    /\ \A i \in DOMAIN results :
          results[i].ids = IdsOf(results[i].mapping, results[i].corpus)[Len(results[i].corpus)]

\* Each epoch is sealed under the chain hash of the one before it.
EpochsAreChained ==
    \A n \in DOMAIN epochs :
        epochs[n] = Seal(n - 1, epochs[n].Tree,
                         IF n = 1 THEN ZeroHash ELSE ChainHash(epochs[n - 1]), Signer)

\* What is sealed is a list.
SealsAreLists ==
    /\ \A b \in DOMAIN batches : batches[b].ids \in Seq(Range(batches[b].ids))
    /\ \A n \in DOMAIN epochs : epochs[n].Tree \in Seq(Range(epochs[n].Tree))

LedgerInv ==
    /\ TypeOK
    /\ ShapeOK
    /\ RowsAreHonest
    /\ ReplaysFollow
    /\ EpochsAreChained
    /\ SealsAreLists

\* It holds of the empty ledger.
LEMMA InitLedgerInv == Init => LedgerInv
<1> SUFFICES ASSUME Init PROVE LedgerInv
  OBVIOUS
<1>1. /\ DOMAIN rows = {} /\ results = <<>> /\ batches = <<>> /\ epochs = <<>> /\ erased = {}
      /\ \A w \in Workers : replay[w] = Idle /\ replay[w].running = FALSE
  BY DEF Init, Idle
<1>2. DOMAIN results = {} /\ DOMAIN batches = {} /\ DOMAIN epochs = {}
  BY <1>1
<1>3. TypeOK
  <2>1. Len(batches) = 0 /\ Len(epochs) = 0 /\ replays = 0 /\ redactions = 0
    BY <1>1 DEF Init
  <2>2. {MaxReplays, MaxRedactions, MaxBatches, MaxEpochs} \subseteq Nat
    BY LedgerAssumption
  <2>3. QED
    BY <1>1, <1>2, <2>1, <2>2 DEF TypeOK
<1>4. ShapeOK
  BY <1>1 DEF ShapeOK, Init
<1>5. QED
  BY <1>1, <1>2, <1>3, <1>4 DEF LedgerInv, RowsAreHonest, ReplaysFollow, EpochsAreChained, SealsAreLists

\* A step that leaves rows, results, batches and epochs alone keeps the invariant
\* if the replays of all workers stay in order.
LEMMA ReplayStep ==
    ASSUME LedgerInv,
           UNCHANGED <<rows, batches, epochs, results, erased, redactions>>,
           replays' \in 0..MaxReplays,
           replay' \in [Workers -> {Idle} \cup Running],
           \A w \in Workers : replay'[w].running =>
              /\ replay'[w].line \in 1..Len(replay'[w].corpus) + 1
              /\ replay'[w].ids
                   = IdsOf(replay'[w].mapping, replay'[w].corpus)[replay'[w].line - 1]
    PROVE  LedgerInv'
<1>1. Running' = Running /\ Result' = Result /\ Returned' = Returned
  BY DEF Running, Result, Returned
<1>2. ShapeOK'
  BY <1>1 DEF LedgerInv, ShapeOK
<1>3. TypeOK'
  <2>1. \A w \in Workers : replay'[w].running => Range(replay'[w].ids) \subseteq DOMAIN rows
    <3> SUFFICES ASSUME NEW w \in Workers, replay'[w].running
                 PROVE  Range(replay'[w].ids) \subseteq DOMAIN rows
      OBVIOUS
    <3>1. replay'[w] \in Running
      BY DEF Idle
    <3>2. replay'[w].ids \in Seq(DOMAIN rows)
      BY <3>1 DEF Running
    <3>3. QED
      BY <3>2 DEF Range
  <2>2. QED
    BY <1>1, <2>1 DEF LedgerInv, TypeOK
<1>4. RowsAreHonest' /\ EpochsAreChained' /\ ReplaysFollow' /\ SealsAreLists'
  BY DEF LedgerInv, RowsAreHonest, EpochsAreChained, ReplaysFollow, SealsAreLists
<1>5. QED
  BY <1>2, <1>3, <1>4 DEF LedgerInv

\* A replay begins before the first line, with no ids.
LEMMA ReplayCorpusKeepsInv ==
    ASSUME LedgerInv, NEW w \in Workers, NEW m \in Mappings, NEW c \in Corpora,
           ReplayCorpus(w, m, c)
    PROVE  LedgerInv'
<1> DEFINE new == [running |-> TRUE, mapping |-> m, corpus |-> c, line |-> 1, ids |-> <<>>]
<1>1. /\ UNCHANGED <<rows, batches, epochs, results, erased, redactions>>
      /\ replays' \in 0..MaxReplays
      /\ replay' = [replay EXCEPT ![w] = new]
  <2>1. MaxReplays \in Nat /\ replays \in 0..MaxReplays
    BY LedgerAssumption DEF LedgerInv, TypeOK
  <2>2. QED
    BY <2>1 DEF ReplayCorpus
<1>2. new \in Running
  BY DEF Running
<1>3. replay' \in [Workers -> {Idle} \cup Running]
  BY <1>1, <1>2 DEF LedgerInv, ShapeOK
<1>4. \A v \in Workers : replay'[v] = IF v = w THEN new ELSE replay[v]
  BY <1>1 DEF LedgerInv, ShapeOK
<1>5. new.line \in 1..Len(new.corpus) + 1 /\ new.ids = IdsOf(new.mapping, new.corpus)[new.line - 1]
  <2>1. Len(c) \in Nat
    BY LedgerAssumption
  <2>2. IdsOf(m, c)[0] = <<>>
    BY IdsGrow
  <2>3. QED
    BY <2>1, <2>2
<1>6. QED
  <2> HIDE DEF new
  <2>1. \A v \in Workers : replay'[v].running =>
           /\ replay'[v].line \in 1..Len(replay'[v].corpus) + 1
           /\ replay'[v].ids = IdsOf(replay'[v].mapping, replay'[v].corpus)[replay'[v].line - 1]
    BY <1>4, <1>5 DEF LedgerInv, TypeOK, ReplaysFollow
  <2>2. QED
    BY <1>1, <1>3, <2>1, ReplayStep

\* A blank line adds no id.
LEMMA SkipBlankLineKeepsInv ==
    ASSUME LedgerInv, NEW w \in Workers, SkipBlankLine(w)
    PROVE  LedgerInv'
<1>1. PICK old \in Running : old = replay[w]
  BY DEF LedgerInv, ShapeOK, SkipBlankLine, AtLine, Idle
<1> DEFINE new == [old EXCEPT !.line = @ + 1]
<1>2. /\ UNCHANGED <<rows, batches, epochs, results, erased, redactions, replays>>
      /\ replay' = [replay EXCEPT ![w] = new]
      /\ old.line <= Len(old.corpus) /\ old.corpus[old.line] = Blank
  BY <1>1 DEF SkipBlankLine, AtLine, LineOf
<1>3. /\ old.line \in 1..Len(old.corpus) /\ Len(old.corpus) \in Nat
      /\ old.ids = IdsOf(old.mapping, old.corpus)[old.line - 1]
  <2>1. old.line \in 1..Len(old.corpus) + 1 /\ old.ids = IdsOf(old.mapping, old.corpus)[old.line - 1]
    BY <1>1 DEF LedgerInv, TypeOK, ReplaysFollow, Running
  <2>2. Len(old.corpus) \in Nat
    BY LedgerAssumption DEF Running
  <2>3. QED
    BY <1>2, <2>1, <2>2
<1>4. new \in Running
  <2>1. old.line + 1 \in Nat
    BY <1>3
  <2>2. QED
    BY <2>1 DEF Running
<1>5. /\ new.line = old.line + 1 /\ new.corpus = old.corpus
      /\ new.mapping = old.mapping /\ new.ids = old.ids
  BY DEF Running
<1>6. new.line \in 1..Len(new.corpus) + 1 /\ new.ids = IdsOf(new.mapping, new.corpus)[new.line - 1]
  <2>1. IdsOf(old.mapping, old.corpus)[old.line] = IdsOf(old.mapping, old.corpus)[old.line - 1]
    <3>1. old.corpus \in Corpora
      BY DEF Running
    <3>2. QED
      BY <1>2, <1>3, <3>1, IdsGrow
  <2>2. new.line - 1 = old.line /\ new.line \in 1..Len(old.corpus) + 1
    BY <1>3, <1>5
  <2> HIDE DEF new
  <2>3. QED
    BY <1>3, <1>5, <2>1, <2>2
<1>7. QED
  <2> HIDE DEF new
  <2>1. \A v \in Workers : replay'[v] = IF v = w THEN new ELSE replay[v]
    BY <1>2 DEF LedgerInv, ShapeOK
  <2>2. replay' \in [Workers -> {Idle} \cup Running]
    BY <1>2, <1>4 DEF LedgerInv, ShapeOK
  <2>3. \A v \in Workers : replay'[v].running =>
           /\ replay'[v].line \in 1..Len(replay'[v].corpus) + 1
           /\ replay'[v].ids = IdsOf(replay'[v].mapping, replay'[v].corpus)[replay'[v].line - 1]
    BY <1>6, <2>1 DEF LedgerInv, TypeOK, ReplaysFollow
  <2>4. replays' \in 0..MaxReplays
    BY <1>2 DEF LedgerInv, TypeOK
  <2>5. QED
    BY <1>2, <2>2, <2>3, <2>4, ReplayStep

\* A replay that fails leaves its worker idle.
LEMMA LineFailsKeepsInv ==
    ASSUME LedgerInv, NEW w \in Workers, LineFails(w)
    PROVE  LedgerInv'
<1>1. /\ UNCHANGED <<rows, batches, epochs, results, erased, redactions, replays>>
      /\ replay' = [replay EXCEPT ![w] = Idle]
  BY DEF LineFails
<1>2. \A v \in Workers : replay'[v] = IF v = w THEN Idle ELSE replay[v]
  BY <1>1 DEF LedgerInv, ShapeOK
<1>3. replay' \in [Workers -> {Idle} \cup Running]
  BY <1>1 DEF LedgerInv, ShapeOK
<1>4. \A v \in Workers : replay'[v].running =>
         /\ replay'[v].line \in 1..Len(replay'[v].corpus) + 1
         /\ replay'[v].ids = IdsOf(replay'[v].mapping, replay'[v].corpus)[replay'[v].line - 1]
  <2>1. Idle.running = FALSE
    BY DEF Idle
  <2>2. QED
    BY <1>2, <2>1 DEF LedgerInv, TypeOK, ReplaysFollow
<1>5. replays' \in 0..MaxReplays
  BY <1>1 DEF LedgerInv, TypeOK
<1>6. QED
  BY <1>1, <1>3, <1>4, <1>5, ReplayStep

\* Store.Put adds at most the row of the event it is given, and that row exists
\* afterwards.
LEMMA PutAddsRow ==
    ASSUME LedgerInv, NEW event, StorePut(event), erased' = erased
    PROVE  /\ DOMAIN rows' = DOMAIN rows \cup {NewEvidenceID(event)}
           /\ RowsAreHonest'
           /\ \A id \in DOMAIN rows' : id[1] = "id" /\ rows'[id].redacted \in BOOLEAN
<1> DEFINE new == NewEvidenceID(event)
<1>1. \A id \in DOMAIN rows : id[1] = "id" /\ rows[id].redacted \in BOOLEAN
  BY DEF LedgerInv, TypeOK
<1>2. new[1] = "id"
  BY DEF NewEvidenceID
<1>3. CASE new \in DOMAIN rows
  <2>1. rows' = rows
    BY <1>3 DEF StorePut
  <2>2. QED
    BY <1>1, <1>3, <2>1 DEF LedgerInv, RowsAreHonest
<1>4. CASE new \notin DOMAIN rows
  <2>1. rows' = Put(rows, new, [payload |-> event, redacted |-> FALSE])
    BY <1>4 DEF StorePut
  <2>2. /\ DOMAIN rows' = DOMAIN rows \cup {new}
        /\ rows'[new] = [payload |-> event, redacted |-> FALSE]
        /\ \A id \in DOMAIN rows : rows'[id] = rows[id]
    BY <1>4, <2>1 DEF Put
  <2>3. new \notin erased
    BY <1>4 DEF LedgerInv, TypeOK
  <2>4. NewEvidenceID(rows'[new].payload) = new /\ rows'[new].redacted = FALSE
    BY <2>2
  <2>5. RowsAreHonest'
    <3> HIDE DEF new
    <3> QED
      BY <2>2, <2>3, <2>4 DEF LedgerInv, RowsAreHonest
  <2>6. \A id \in DOMAIN rows' : id[1] = "id" /\ rows'[id].redacted \in BOOLEAN
    <3> HIDE DEF new
    <3> QED
      BY <1>1, <1>2, <2>2, <2>4
  <2>7. QED
    BY <2>2, <2>5, <2>6
<1>5. QED
  BY <1>3, <1>4

\* A line that is mapped and stored adds the id of its event.
LEMMA PutLineKeepsInv ==
    ASSUME LedgerInv, NEW w \in Workers, PutLine(w)
    PROVE  LedgerInv'
<1>1. PICK old \in Running : old = replay[w]
  BY DEF LedgerInv, ShapeOK, PutLine, AtLine, Idle
<1>2. PICK event :
         /\ event = EventOf(old.mapping, old.corpus[old.line])
         /\ StorePut(event)
         /\ replay' = [replay EXCEPT ![w].line = @ + 1, ![w].ids = Append(@, NewEvidenceID(event))]
  <2>1. PICK order \in SetToSeqs(FieldsIn(old.mapping, old.corpus[old.line])) :
           LET event == Apply(old.mapping, old.corpus[old.line], order) IN
           /\ StorePut(event)
           /\ replay' = [replay EXCEPT ![w].line = @ + 1,
                                       ![w].ids = Append(@, NewEvidenceID(event))]
    BY <1>1 DEF PutLine, LineOf
  <2>2. old.mapping \in Mappings
    BY DEF Running
  <2>3. Apply(old.mapping, old.corpus[old.line], order) = EventOf(old.mapping, old.corpus[old.line])
    BY <2>2, ApplyIsDeterministic
  <2>4. QED
    BY <2>1, <2>3
<1>3. /\ UNCHANGED <<batches, epochs, results, erased, redactions, replays>>
      /\ old.line <= Len(old.corpus) /\ old.corpus[old.line] # Blank
  BY <1>1 DEF PutLine, AtLine, LineOf
<1> DEFINE id == NewEvidenceID(event)
           new == [old EXCEPT !.line = @ + 1, !.ids = Append(@, id)]
<1> HIDE DEF id
<1>4. /\ DOMAIN rows' = DOMAIN rows \cup {id}
      /\ RowsAreHonest'
      /\ \A x \in DOMAIN rows' : x[1] = "id" /\ rows'[x].redacted \in BOOLEAN
  BY <1>2, <1>3, PutAddsRow DEF id
<1>5. \A s \in Seq(DOMAIN rows) : s \in Seq(DOMAIN rows')
  BY <1>4, SeqMonotonic
<1>6. Running \subseteq Running' /\ Result \subseteq Result' /\ results \in Seq(Result')
  <2>1. Running \subseteq Running' /\ Result \subseteq Result'
    BY <1>5 DEF Running, Result
  <2>2. results \in Seq(Result)
    BY DEF LedgerInv, ShapeOK
  <2>3. QED
    BY <2>1, <2>2, SeqMonotonic
<1>7. /\ old.line \in 1..Len(old.corpus) /\ Len(old.corpus) \in Nat
      /\ old.ids = IdsOf(old.mapping, old.corpus)[old.line - 1]
  <2>1. old.line \in 1..Len(old.corpus) + 1 /\ old.ids = IdsOf(old.mapping, old.corpus)[old.line - 1]
    BY <1>1 DEF LedgerInv, TypeOK, ReplaysFollow, Running
  <2>2. Len(old.corpus) \in Nat
    BY LedgerAssumption DEF Running
  <2>3. QED
    BY <1>3, <2>1, <2>2
<1>8. /\ new.line = old.line + 1 /\ new.corpus = old.corpus
      /\ new.mapping = old.mapping /\ new.ids = Append(old.ids, id)
  BY DEF Running
<1>9. new \in Running'
  <2>1. old.line + 1 \in Nat
    BY <1>7
  <2>2. Append(old.ids, id) \in Seq(DOMAIN rows')
    <3>1. old.ids \in Seq(DOMAIN rows') /\ id \in DOMAIN rows'
      BY <1>4, <1>5 DEF Running
    <3>2. QED
      BY <3>1, AppendProperties
  <2>3. QED
    BY <2>1, <2>2 DEF Running
<1>10. new.line \in 1..Len(new.corpus) + 1 /\ new.ids = IdsOf(new.mapping, new.corpus)[new.line - 1]
  <2>1. IdsOf(old.mapping, old.corpus)[old.line]
          = Append(IdsOf(old.mapping, old.corpus)[old.line - 1], id)
    <3>1. old.corpus \in Corpora
      BY DEF Running
    <3>2. QED
      BY <1>2, <1>3, <1>7, <3>1, IdsGrow DEF id
  <2>2. new.line - 1 = old.line /\ new.line \in 1..Len(old.corpus) + 1
    BY <1>7, <1>8
  <2> HIDE DEF new
  <2>3. QED
    BY <1>7, <1>8, <2>1, <2>2
<1>11. /\ replay' = [replay EXCEPT ![w] = new]
       /\ \A v \in Workers : replay'[v] = IF v = w THEN new ELSE replay[v]
  <2>1. replay' = [replay EXCEPT ![w] = new]
    BY <1>1, <1>2 DEF id
  <2> HIDE DEF new
  <2>2. QED
    BY <2>1 DEF LedgerInv, ShapeOK
<1> HIDE DEF new
<1>12. ShapeOK'
  <2>1. replay' \in [Workers -> {Idle} \cup Running']
    BY <1>6, <1>9, <1>11 DEF LedgerInv, ShapeOK
  <2>2. QED
    BY <1>3, <1>6, <2>1 DEF LedgerInv, ShapeOK, Idle
<1>13. TypeOK'
  <2>1. \A v \in Workers : replay'[v].running =>
           /\ replay'[v].line \in 1..Len(replay'[v].corpus) + 1
           /\ Range(replay'[v].ids) \subseteq DOMAIN rows'
    <3> SUFFICES ASSUME NEW v \in Workers, replay'[v].running
                 PROVE  /\ replay'[v].line \in 1..Len(replay'[v].corpus) + 1
                        /\ Range(replay'[v].ids) \subseteq DOMAIN rows'
      OBVIOUS
    <3>1. replay'[v].line \in 1..Len(replay'[v].corpus) + 1
      BY <1>10, <1>11 DEF LedgerInv, TypeOK
    <3>2. replay'[v] \in Running'
      BY <1>12 DEF ShapeOK, Idle
    <3>3. replay'[v].ids \in Seq(DOMAIN rows')
      BY <3>2 DEF Running
    <3>4. QED
      BY <3>1, <3>3 DEF Range
  <2>2. Returned' = Returned
    BY <1>3 DEF Returned
  <2>3. QED
    BY <1>3, <1>4, <2>1, <2>2 DEF LedgerInv, TypeOK
<1>14. ReplaysFollow' /\ EpochsAreChained' /\ SealsAreLists'
  BY <1>3, <1>10, <1>11 DEF LedgerInv, ReplaysFollow, EpochsAreChained, SealsAreLists
<1>15. QED
  BY <1>4, <1>12, <1>13, <1>14 DEF LedgerInv

\* A replay that is behind the last line returns the ids of all lines.
LEMMA ReplayReturnsKeepsInv ==
    ASSUME LedgerInv, NEW w \in Workers, ReplayReturns(w)
    PROVE  LedgerInv'
<1>1. PICK old \in Running : old = replay[w]
  BY DEF LedgerInv, ShapeOK, ReplayReturns, Idle
<1> DEFINE res == [mapping |-> old.mapping, corpus |-> old.corpus, ids |-> old.ids]
<1>2. /\ UNCHANGED <<rows, batches, epochs, erased, redactions, replays>>
      /\ replay' = [replay EXCEPT ![w] = Idle]
      /\ results' = Append(results, res)
      /\ ~(old.line <= Len(old.corpus))
  BY <1>1 DEF ReplayReturns, AtLine, Running
<1>3. old.ids = IdsOf(old.mapping, old.corpus)[Len(old.corpus)]
  <2>1. /\ old.line \in 1..Len(old.corpus) + 1
        /\ old.ids = IdsOf(old.mapping, old.corpus)[old.line - 1]
    BY <1>1 DEF LedgerInv, TypeOK, ReplaysFollow, Running
  <2>2. Len(old.corpus) \in Nat
    BY LedgerAssumption DEF Running
  <2>3. old.line - 1 = Len(old.corpus)
    BY <1>2, <2>1, <2>2
  <2>4. QED
    BY <2>1, <2>3
<1>4. res \in Result /\ results \in Seq(Result)
  BY DEF LedgerInv, ShapeOK, Running, Result
<1>5. /\ results' \in Seq(Result)
      /\ DOMAIN results = 1..Len(results) /\ Len(results) \in Nat
      /\ DOMAIN results' = 1..Len(results) + 1
      /\ \A i \in 1..Len(results) : results'[i] = results[i]
      /\ results'[Len(results) + 1] = res
  <2> HIDE DEF res
  <2> QED
    BY <1>2, <1>4, AppendProperties, LenProperties
<1>6. Returned \subseteq Returned'
  BY <1>5 DEF Returned
<1>7. \A v \in Workers : replay'[v] = IF v = w THEN Idle ELSE replay[v]
  BY <1>2 DEF LedgerInv, ShapeOK
<1>8. ShapeOK'
  <2>1. Running' = Running /\ Result' = Result
    BY <1>2 DEF Running, Result
  <2>2. replay' \in [Workers -> {Idle} \cup Running]
    BY <1>2 DEF LedgerInv, ShapeOK
  <2>3. QED
    BY <1>2, <1>5, <2>1, <2>2 DEF LedgerInv, ShapeOK
<1>9. Idle.running = FALSE
  BY DEF Idle
<1>10. TypeOK'
  BY <1>2, <1>6, <1>7, <1>9 DEF LedgerInv, TypeOK
<1>11. ReplaysFollow'
  <2>1. \A v \in Workers : replay'[v].running =>
           replay'[v].ids = IdsOf(replay'[v].mapping, replay'[v].corpus)[replay'[v].line - 1]
    BY <1>7, <1>9 DEF LedgerInv, ReplaysFollow
  <2>2. \A i \in DOMAIN results' :
           results'[i].ids = IdsOf(results'[i].mapping, results'[i].corpus)[Len(results'[i].corpus)]
    <3> SUFFICES ASSUME NEW i \in DOMAIN results'
                 PROVE  results'[i].ids
                          = IdsOf(results'[i].mapping, results'[i].corpus)[Len(results'[i].corpus)]
      OBVIOUS
    <3>1. CASE i \in 1..Len(results)
      BY <1>5, <3>1 DEF LedgerInv, ReplaysFollow
    <3>2. CASE i = Len(results) + 1
      BY <1>3, <1>5, <3>2
    <3>3. QED
      BY <1>5, <3>1, <3>2
  <2>3. QED
    BY <2>1, <2>2 DEF ReplaysFollow
<1>12. RowsAreHonest' /\ EpochsAreChained' /\ SealsAreLists'
  BY <1>2 DEF LedgerInv, RowsAreHonest, EpochsAreChained, SealsAreLists
<1>13. QED
  BY <1>8, <1>10, <1>11, <1>12 DEF LedgerInv

\* Redaction takes a payload and leaves every id.
LEMMA RedactKeepsInv ==
    ASSUME LedgerInv, NEW id \in DOMAIN rows, Redact(id)
    PROVE  LedgerInv'
<1>1. /\ UNCHANGED <<replay, batches, epochs, results, replays>>
      /\ rows' = [rows EXCEPT ![id] = [payload |-> Nil, redacted |-> TRUE]]
      /\ erased' = erased \cup {id}
      /\ redactions' \in 0..MaxRedactions
  <2>1. MaxRedactions \in Nat /\ redactions \in 0..MaxRedactions
    BY LedgerAssumption DEF LedgerInv, TypeOK
  <2>2. QED
    BY <2>1 DEF Redact
<1>2. /\ DOMAIN rows' = DOMAIN rows
      /\ rows'[id].payload = Nil /\ rows'[id].redacted = TRUE
      /\ \A x \in DOMAIN rows : x # id => rows'[x] = rows[x]
  BY <1>1
<1>3. RowsAreHonest'
  BY <1>1, <1>2 DEF LedgerInv, RowsAreHonest
<1>4. Running' = Running /\ Result' = Result /\ Returned' = Returned
  BY <1>1, <1>2 DEF Running, Result, Returned
<1>5. ShapeOK'
  BY <1>1, <1>4 DEF LedgerInv, ShapeOK
<1>6. TypeOK'
  <2>1. \A x \in DOMAIN rows' : x[1] = "id" /\ rows'[x].redacted \in BOOLEAN
    BY <1>2 DEF LedgerInv, TypeOK
  <2>2. QED
    BY <1>1, <1>2, <1>4, <2>1 DEF LedgerInv, TypeOK
<1>7. ReplaysFollow' /\ EpochsAreChained' /\ SealsAreLists'
  BY <1>1 DEF LedgerInv, ReplaysFollow, EpochsAreChained, SealsAreLists
<1>8. QED
  BY <1>3, <1>5, <1>6, <1>7 DEF LedgerInv

\* A batch is a list of ids some replay returned.
LEMMA SealBatchKeepsInv ==
    ASSUME LedgerInv, NEW i \in DOMAIN results, SealBatch(results[i].ids)
    PROVE  LedgerInv'
<1> DEFINE batch == [ids |-> results[i].ids, Root |-> Root(BuildMerkleTree(results[i].ids))]
<1>1. /\ UNCHANGED <<rows, replay, epochs, results, erased, replays, redactions>>
      /\ batches' = Append(batches, batch)
      /\ Len(batches) < MaxBatches
  BY DEF SealBatch
<1>2. batch.ids = results[i].ids
  OBVIOUS
<1> HIDE DEF batch
<1>3. /\ batches' \in Seq(Range(batches'))
      /\ Len(batches) \in Nat
      /\ DOMAIN batches = 1..Len(batches)
      /\ Len(batches') = Len(batches) + 1
      /\ DOMAIN batches' = 1..Len(batches) + 1
      /\ \A b \in 1..Len(batches) : batches'[b] = batches[b]
      /\ batches'[Len(batches) + 1] = batch
  <2>1. batches \in Seq(Range(batches))
    BY DEF LedgerInv, ShapeOK
  <2>2. QED
    BY <1>1, <2>1, Appended
<1>4. Running' = Running /\ Result' = Result /\ Returned' = Returned
  BY <1>1 DEF Running, Result, Returned
<1>5. ShapeOK'
  BY <1>1, <1>3, <1>4 DEF LedgerInv, ShapeOK
<1>6. TypeOK'
  <2>1. Range(results[i].ids) \subseteq Returned
    BY DEF Returned
  <2>2. \A b \in DOMAIN batches' : Range(batches'[b].ids) \subseteq Returned
    <3> SUFFICES ASSUME NEW b \in DOMAIN batches' PROVE Range(batches'[b].ids) \subseteq Returned
      OBVIOUS
    <3>1. CASE b \in 1..Len(batches)
      BY <1>3, <3>1 DEF LedgerInv, TypeOK
    <3>2. CASE b = Len(batches) + 1
      BY <1>2, <1>3, <2>1, <3>2
    <3>3. QED
      BY <1>3, <3>1, <3>2
  <2>3. Len(batches') <= MaxBatches
    <3>1. MaxBatches \in Nat
      BY LedgerAssumption
    <3>2. QED
      BY <1>1, <1>3, <3>1
  <2>4. QED
    BY <1>1, <1>4, <2>2, <2>3 DEF LedgerInv, TypeOK
<1>7. RowsAreHonest' /\ ReplaysFollow' /\ EpochsAreChained'
  BY <1>1 DEF LedgerInv, RowsAreHonest, ReplaysFollow, EpochsAreChained
<1>8. SealsAreLists'
  <2>1. results[i].ids \in Seq(Range(results[i].ids))
    <3>1. results[i] \in Result
      BY DEF LedgerInv, ShapeOK
    <3>2. results[i].ids \in Seq(DOMAIN rows)
      BY <3>1 DEF Result
    <3>3. QED
      BY <3>2, ListOfItsElements
  <2>2. \A b \in DOMAIN batches' : batches'[b].ids \in Seq(Range(batches'[b].ids))
    <3> SUFFICES ASSUME NEW b \in DOMAIN batches'
                 PROVE  batches'[b].ids \in Seq(Range(batches'[b].ids))
      OBVIOUS
    <3>1. CASE b \in 1..Len(batches)
      BY <1>3, <3>1 DEF LedgerInv, SealsAreLists
    <3>2. CASE b = Len(batches) + 1
      BY <1>2, <1>3, <2>1, <3>2
    <3>3. QED
      BY <1>3, <3>1, <3>2
  <2>3. QED
    BY <1>1, <2>2 DEF LedgerInv, SealsAreLists
<1>9. QED
  BY <1>5, <1>6, <1>7, <1>8 DEF LedgerInv

\* The window of an epoch is a list of batch roots.
LEMMA WindowIsList ==
    ASSUME LedgerInv
    PROVE  WindowRoots \in Seq(Range(WindowRoots))
<1> DEFINE len(n) == Len(epochs[n].Tree)
           N == Len(epochs)
           step == [n \in Nat |-> [v \in Nat |-> IF n \in 1..N THEN v + len(n) ELSE v]]
           Loop(o) == o = [n \in 0..N |-> IF n = 0 THEN 0 ELSE o[n - 1] + len(n)]
<1>1. N \in Nat /\ DOMAIN epochs = 1..N
  BY LenProperties DEF LedgerInv, ShapeOK
<1>2. \A n \in 1..N : len(n) \in Nat
  <2> SUFFICES ASSUME NEW n \in 1..N PROVE len(n) \in Nat
    OBVIOUS
  <2>1. epochs[n].Tree \in Seq(Range(epochs[n].Tree))
    BY <1>1 DEF LedgerInv, SealsAreLists
  <2>2. QED
    BY <2>1, LenProperties
<1> HIDE DEF len, N
<1>3. step \in [Nat -> [Nat -> Nat]]
  BY <1>2
<1>4. PICK f \in [Nat -> Nat] : Iterates(f, 0, step)
  <2> HIDE DEF step
  <2>1. PICK U, first : U = Nat /\ first = 0
    OBVIOUS
  <2>2. first \in U /\ step \in [Nat -> [U -> U]]
    BY <1>3, <2>1
  <2>3. \E f \in [Nat -> U] : Iterates(f, first, step)
    BY <2>2, Recursion
  <2>4. QED
    BY <2>1, <2>3
<1>5. f \in [Nat -> Nat] /\ f[0] = 0 /\ \A n \in Nat : f[n + 1] = step[n + 1][f[n]]
  <2> HIDE DEF step
  <2> QED
    BY <1>4 DEF Iterates
<1>6. \A n \in 1..N : f[n] = f[n - 1] + len(n)
  <2> SUFFICES ASSUME NEW n \in 1..N PROVE f[n] = f[n - 1] + len(n)
    OBVIOUS
  <2>1. PICK k, v \in Nat : k = n - 1 /\ v = f[k] /\ k + 1 = n
    BY <1>1, <1>5, SMTT(60)
  <2>2. f[n] = step[n][v]
    BY <1>5, <2>1
  <2>3. step[n][v] = v + len(n)
    BY <1>1
  <2>4. QED
    BY <2>1, <2>2, <2>3
<1>7. Loop([n \in 0..N |-> f[n]])
  <2> DEFINE g == [n \in 0..N |-> f[n]]
  <2> SUFFICES ASSUME NEW n \in 0..N PROVE g[n] = IF n = 0 THEN 0 ELSE g[n - 1] + len(n)
    OBVIOUS
  <2>1. n = 0 \/ (n # 0 /\ n \in 1..N /\ n - 1 \in 0..N)
    BY <1>1
  <2>2. QED
    BY <1>5, <1>6, <2>1
<1>8. Loop(CHOOSE o : Loop(o))
  <2> HIDE DEF Loop
  <2> QED
    BY <1>7
<1>9. PICK o : o = (CHOOSE p : Loop(p)) /\ Loop(o)
  BY <1>8
<1>10. \A n \in 0..N : o[n] \in Nat
  <2> DEFINE T == {n \in Nat : n <= N => o[n] \in Nat}
  <2>1. 0 \in T
    <3>1. 0 \in 0..N
      BY <1>1
    <3>2. o[0] = 0
      BY <1>9, <3>1
    <3>3. QED
      BY <3>2
  <2>2. \A n \in Nat : n \in T => n + 1 \in T
    <3> SUFFICES ASSUME NEW n \in Nat, n \in T, n + 1 <= N PROVE o[n + 1] \in Nat
      OBVIOUS
    <3>1. n + 1 \in 0..N /\ n + 1 # 0 /\ (n + 1) - 1 = n /\ n + 1 \in 1..N /\ o[n] \in Nat
      BY <1>1
    <3>2. o[n + 1] = o[n] + len(n + 1) /\ len(n + 1) \in Nat
      BY <1>2, <1>9, <3>1
    <3>3. QED
      BY <3>1, <3>2
  <2>3. Nat \subseteq T
    <3> HIDE DEF T
    <3> QED
      BY <2>1, <2>2, Induction
  <2>4. QED
    BY <1>1, <2>3
<1>11. PICK before \in Nat : before = o[N]
  BY <1>1, <1>10
<1>12. WindowRoots = [i \in 1..Len(batches) - before |-> batches[before + i].Root]
  <2> DEFINE all == CHOOSE p : Loop(p)
  <2>1. WindowRoots = [i \in 1..Len(batches) - all[N] |-> batches[all[N] + i].Root]
    BY DEF WindowRoots, len, N
  <2> HIDE DEF all
  <2>2. all[N] = before
    BY <1>9, <1>11 DEF all
  <2>3. QED
    BY <2>1, <2>2
<1>13. PICK n \in Nat : 1..Len(batches) - before = 1..n
  <2>1. Len(batches) \in Nat
    BY LenProperties DEF LedgerInv, ShapeOK
  <2>2. PICK d \in Int : d = Len(batches) - before
    BY <1>11, <2>1
  <2>3. CASE d >= 0
    <3>1. d \in Nat /\ 1..d = 1..Len(batches) - before
      BY <2>2, <2>3
    <3>2. QED
      BY <3>1
  <2>4. CASE d < 0
    <3>1. 1..d = 1..0 /\ 0 \in Nat
      BY <2>4
    <3>2. QED
      BY <2>2, <3>1
  <2>5. QED
    BY <2>3, <2>4
<1>14. PICK r : r = WindowRoots
  OBVIOUS
<1>15. r \in [1..n -> Range(r)]
  BY <1>12, <1>13, <1>14 DEF Range
<1>16. QED
  BY <1>14, <1>15, SeqDef

\* An epoch is sealed under the chain hash of the last one.
LEMMA SealEpochKeepsInv ==
    ASSUME LedgerInv, SealEpoch
    PROVE  LedgerInv'
<1>1. PICK roots, prev :
         /\ prev = Prev
         /\ roots = WindowRoots
         /\ epochs' = Append(epochs, Seal(Len(epochs), roots, prev, Signer))
  BY DEF SealEpoch
<1>2. /\ UNCHANGED <<rows, replay, batches, results, erased, replays, redactions>>
      /\ Len(epochs) < MaxEpochs
  BY DEF SealEpoch
<1>3. PICK seal : seal = Seal(Len(epochs), roots, prev, Signer)
  OBVIOUS
<1>4. /\ epochs' \in Seq(Range(epochs'))
      /\ Len(epochs) \in Nat
      /\ DOMAIN epochs = 1..Len(epochs)
      /\ Len(epochs') = Len(epochs) + 1
      /\ DOMAIN epochs' = 1..Len(epochs) + 1
      /\ \A n \in 1..Len(epochs) : epochs'[n] = epochs[n]
      /\ epochs'[Len(epochs) + 1] = seal
  <2>1. epochs \in Seq(Range(epochs))
    BY DEF LedgerInv, ShapeOK
  <2>2. epochs' = Append(epochs, seal)
    BY <1>1, <1>3
  <2>3. QED
    BY <2>1, <2>2, Appended
<1>5. Running' = Running /\ Result' = Result /\ Returned' = Returned
  BY <1>2 DEF Running, Result, Returned
<1>6. ShapeOK'
  BY <1>2, <1>4, <1>5 DEF LedgerInv, ShapeOK
<1>7. TypeOK'
  <2>1. Len(epochs') <= MaxEpochs
    <3>1. MaxEpochs \in Nat
      BY LedgerAssumption
    <3>2. QED
      BY <1>2, <1>4, <3>1
  <2>2. QED
    BY <1>2, <1>5, <2>1 DEF LedgerInv, TypeOK
<1>8. EpochsAreChained'
  <2> SUFFICES ASSUME NEW n \in DOMAIN epochs'
               PROVE  epochs'[n] = Seal(n - 1, epochs'[n].Tree,
                         IF n = 1 THEN ZeroHash ELSE ChainHash(epochs'[n - 1]), Signer)
    BY DEF EpochsAreChained
  <2>1. CASE n \in 1..Len(epochs)
    <3>1. n = 1 \/ n - 1 \in 1..Len(epochs)
      BY <1>4, <2>1
    <3>2. QED
      BY <1>4, <2>1, <3>1 DEF LedgerInv, EpochsAreChained
  <2>2. CASE n = Len(epochs) + 1
    <3>1. epochs'[n] = seal /\ n - 1 = Len(epochs)
      BY <1>4, <2>2
    <3>2. seal.Tree = roots
      BY <1>3 DEF Seal
    <3>3. prev = IF n = 1 THEN ZeroHash ELSE ChainHash(epochs'[n - 1])
      <4>1. CASE n = 1
        <5>1. Len(epochs) = 0
          BY <1>4, <2>2, <4>1
        <5>2. epochs = <<>>
          BY <5>1, EmptySeq DEF LedgerInv, ShapeOK
        <5>3. QED
          BY <1>1, <4>1, <5>2 DEF Prev
      <4>2. CASE n # 1
        <5>1. Len(epochs) # 0 /\ n - 1 \in 1..Len(epochs)
          BY <1>4, <2>2, <4>2
        <5>2. epochs # <<>> /\ Last(epochs) = epochs'[n - 1]
          BY <1>4, <3>1, <5>1 DEF Last
        <5>3. QED
          BY <1>1, <4>2, <5>2 DEF Prev
      <4>3. QED
        BY <4>1, <4>2
    <3>4. QED
      BY <1>3, <3>1, <3>2, <3>3
  <2>3. QED
    BY <1>4, <2>1, <2>2
<1>9. RowsAreHonest' /\ ReplaysFollow'
  BY <1>2 DEF LedgerInv, RowsAreHonest, ReplaysFollow
<1>10. SealsAreLists'
  <2>1. seal.Tree \in Seq(Range(seal.Tree))
    <3>1. seal.Tree = roots
      BY <1>3 DEF Seal
    <3>2. QED
      BY <1>1, <3>1, WindowIsList
  <2>2. \A n \in DOMAIN epochs' : epochs'[n].Tree \in Seq(Range(epochs'[n].Tree))
    <3> SUFFICES ASSUME NEW n \in DOMAIN epochs'
                 PROVE  epochs'[n].Tree \in Seq(Range(epochs'[n].Tree))
      OBVIOUS
    <3>1. CASE n \in 1..Len(epochs)
      BY <1>4, <3>1 DEF LedgerInv, SealsAreLists
    <3>2. CASE n = Len(epochs) + 1
      BY <1>4, <2>1, <3>2
    <3>3. QED
      BY <1>4, <3>1, <3>2
  <2>3. QED
    BY <1>2, <2>2 DEF LedgerInv, SealsAreLists
<1>11. QED
  BY <1>6, <1>7, <1>8, <1>9, <1>10 DEF LedgerInv

\* Every step of a replay, redaction and seal keeps the invariant.
LEMMA NextLedgerInv == LedgerInv /\ [Next]_vars => LedgerInv'
<1> SUFFICES ASSUME LedgerInv, [Next]_vars PROVE LedgerInv'
  OBVIOUS
<1>1. CASE UNCHANGED vars
  <2>1. Running' = Running /\ Result' = Result /\ Returned' = Returned
    BY <1>1 DEF vars, Running, Result, Returned
  <2>2. TypeOK' /\ ShapeOK'
    BY <1>1, <2>1 DEF vars, LedgerInv, TypeOK, ShapeOK
  <2>3. RowsAreHonest' /\ ReplaysFollow' /\ EpochsAreChained' /\ SealsAreLists'
    BY <1>1 DEF vars, LedgerInv, RowsAreHonest, ReplaysFollow, EpochsAreChained, SealsAreLists
  <2>4. QED
    BY <2>2, <2>3 DEF LedgerInv
<1>2. ASSUME NEW w \in Workers, NEW m \in Mappings, NEW c \in Corpora, ReplayCorpus(w, m, c)
      PROVE  LedgerInv'
  BY <1>2, ReplayCorpusKeepsInv
<1>3. ASSUME NEW w \in Workers, SkipBlankLine(w)
      PROVE  LedgerInv'
  BY <1>3, SkipBlankLineKeepsInv
<1>4. ASSUME NEW w \in Workers, PutLine(w)
      PROVE  LedgerInv'
  BY <1>4, PutLineKeepsInv
<1>5. ASSUME NEW w \in Workers, LineFails(w)
      PROVE  LedgerInv'
  BY <1>5, LineFailsKeepsInv
<1>6. ASSUME NEW w \in Workers, ReplayReturns(w)
      PROVE  LedgerInv'
  BY <1>6, ReplayReturnsKeepsInv
<1>7. ASSUME NEW id \in DOMAIN rows, Redact(id)
      PROVE  LedgerInv'
  BY <1>7, RedactKeepsInv
<1>8. ASSUME NEW i \in DOMAIN results, SealBatch(results[i].ids)
      PROVE  LedgerInv'
  BY <1>8, SealBatchKeepsInv
<1>9. CASE SealEpoch
  BY <1>9, SealEpochKeepsInv
<1>10. QED
  BY <1>1, <1>2, <1>3, <1>4, <1>5, <1>6, <1>7, <1>8, <1>9 DEF Next

\* LedgerInv holds in every reachable state of the ledger.
THEOREM LedgerInvariant == Spec => []LedgerInv
BY InitLedgerInv, NextLedgerInv, PTL DEF Spec

\* The variables keep their types and the counters their bounds, for any
\* workers, mappings and corpora.
THEOREM LedgerTypeCorrect == Spec => []TypeOK
<1>1. LedgerInv => TypeOK
  BY DEF LedgerInv
<1>2. QED
  BY <1>1, LedgerInvariant, PTL

\* Store.Get tells a redacted id from an unknown one for good, and any other id
\* that was stored or returned has the payload it is the address of
\* (store.go:43-48).
THEOREM StoreIsHonest == Spec => []GetIsHonest
<1>1. LedgerInv => GetIsHonest
  <2> SUFFICES ASSUME LedgerInv PROVE GetIsHonest
    OBVIOUS
  <2>1. Returned \subseteq DOMAIN rows
    <3> SUFFICES ASSUME NEW i \in DOMAIN results PROVE Range(results[i].ids) \subseteq DOMAIN rows
      BY DEF Returned
    <3>1. results[i] \in Result
      BY DEF LedgerInv, ShapeOK
    <3>2. results[i].ids \in Seq(DOMAIN rows)
      BY <3>1 DEF Result
    <3>3. QED
      BY <3>2 DEF Range
  <2>2. QED
    BY <2>1 DEF LedgerInv, TypeOK, RowsAreHonest, GetIsHonest, Get
<1>2. QED
  BY <1>1, LedgerInvariant, PTL

\* Two completed replays of a corpus under a mapping return the same ids,
\* whatever order Go's map iteration visits the fields in and whatever other
\* replays, redactions and failures come between (pipeline.go:15-20).
THEOREM ReplayIsDeterministic == Spec => []ReplaysAgree
<1>1. LedgerInv => ReplaysAgree
  BY DEF LedgerInv, ReplaysFollow, ReplaysAgree
<1>2. QED
  BY <1>1, LedgerInvariant, PTL

\* Equal chain hashes are those of seals that differ at most in the tree.
LEMMA ChainHashIsInjective ==
    ASSUME NEW e, NEW d, Verify(e), Verify(d), ChainHash(e) = ChainHash(d)
    PROVE  /\ e.EpochID = d.EpochID /\ e.Root = d.Root /\ e.Prev = d.Prev
           /\ e.Signature = d.Signature /\ e.PublicKey = d.PublicKey
<1>1. signedHeader(e.EpochID, e.Root, e.Prev) = signedHeader(d.EpochID, d.Root, d.Prev)
      /\ e.Signature = d.Signature
  BY DEF ChainHash
<1>2. e.EpochID = d.EpochID /\ e.Root = d.Root /\ e.Prev = d.Prev
  BY <1>1 DEF signedHeader
<1>3. e.PublicKey = d.PublicKey
  <2>1. Sign(e.PublicKey, signedHeader(e.EpochID, e.Root, e.Prev))
          = Sign(d.PublicKey, signedHeader(d.EpochID, d.Root, d.Prev))
    BY <1>1 DEF Verify
  <2>2. QED
    BY <2>1 DEF Sign
<1>4. QED
  BY <1>1, <1>2, <1>3

\* A seal is the record of its own fields.
IsSeal(s) ==
    s = [EpochID |-> s.EpochID, Root |-> s.Root, Prev |-> s.Prev,
         PublicKey |-> s.PublicKey, Signature |-> s.Signature, Tree |-> s.Tree]

\* A reordered, altered or re-signed epoch shows in the next epoch's Prev alone
\* (epoch.go:85-89): no other seal that verifies has the chain hash it names.
THEOREM ChainShowsBreaks == Spec => []ChainBreaksShow
<1>1. LedgerInv => ChainBreaksShow
  <2> SUFFICES ASSUME LedgerInv PROVE ChainBreaksShow
    OBVIOUS
  <2>1. Len(epochs) \in Nat /\ DOMAIN epochs = 1..Len(epochs)
    BY LenProperties DEF LedgerInv, ShapeOK
  <2>2. \A k \in DOMAIN epochs :
           /\ IsSeal(epochs[k])
           /\ Verify(epochs[k])
           /\ epochs[k].Prev = IF k = 1 THEN ZeroHash ELSE ChainHash(epochs[k - 1])
    <3> SUFFICES ASSUME NEW k \in DOMAIN epochs
                 PROVE  /\ IsSeal(epochs[k])
                        /\ Verify(epochs[k])
                        /\ epochs[k].Prev = IF k = 1 THEN ZeroHash ELSE ChainHash(epochs[k - 1])
      OBVIOUS
    <3>1. PICK tree, prev : /\ epochs[k] = Seal(k - 1, tree, prev, Signer)
                            /\ prev = IF k = 1 THEN ZeroHash ELSE ChainHash(epochs[k - 1])
      BY DEF LedgerInv, EpochsAreChained
    <3>2. PICK s : s = Seal(k - 1, tree, prev, Signer)
      OBVIOUS
    <3>3. s.Prev = prev /\ Verify(s) /\ IsSeal(s)
      BY <3>2 DEF Seal, Verify, IsSeal
    <3>4. QED
      BY <3>1, <3>2, <3>3
  <2>3. \A s : ChainHash(s) # ZeroHash
    BY DEF ChainHash, ZeroHash
  <2>4. ASSUME NEW n \in DOMAIN epochs, n > 1, NEW i \in DOMAIN epochs, NEW id, NEW key, NEW prev,
               Verify(Resealed(epochs[i], id, key, prev)),
               ChainHash(Resealed(epochs[i], id, key, prev)) = epochs[n].Prev
        PROVE  SameSeal(Resealed(epochs[i], id, key, prev), epochs[n - 1])
    <3>1. n - 1 \in DOMAIN epochs /\ n # 1
      BY <2>1, <2>4
    <3>2. PICK d : d = epochs[n - 1] /\ IsSeal(d) /\ Verify(d) /\ ChainHash(d) = epochs[n].Prev
      BY <2>2, <3>1
    <3>3. PICK s : s = Resealed(epochs[i], id, key, prev)
      OBVIOUS
    <3>4. IsSeal(s)
      BY <3>3 DEF IsSeal, Resealed
    <3>5. /\ s.EpochID = d.EpochID /\ s.Root = d.Root /\ s.Prev = d.Prev
          /\ s.Signature = d.Signature /\ s.PublicKey = d.PublicKey
      BY <2>4, <3>2, <3>3, ChainHashIsInjective
    <3>6. SameSeal(s, d)
      BY <3>2, <3>4, <3>5 DEF IsSeal, SameSeal
    <3>7. QED
      BY <3>2, <3>3, <3>6
  <2>5. \A n \in DOMAIN epochs : Verify(epochs[n]) /\ (epochs[n].Prev = ZeroHash <=> n = 1)
    BY <2>2, <2>3
  <2>6. QED
    BY <2>4, <2>5 DEF ChainBreaksShow
<1>2. QED
  BY <1>1, LedgerInvariant, PTL

\* Each id of a batch and each batch root of an epoch proves its inclusion, for
\* batches and epochs of any length, whatever was redacted; and no such proof
\* proves the inclusion of anything else (merkle.go:9-16, 139-146).
THEOREM ProofsConvinceExactly == Spec => []ProofsAreExact
<1>1. LedgerInv => ProofsAreExact
  <2> SUFFICES ASSUME LedgerInv PROVE ProofsAreExact
    OBVIOUS
  <2>1. \A ids \in SealedLists : ids \in Seq(Range(ids))
    BY DEF LedgerInv, SealsAreLists, SealedLists
  <2>2. ProofsVerify
    <3> SUFFICES ASSUME NEW ids \in SealedLists, NEW i \in 1..Len(ids)
                 PROVE  VerifyInclusion(ids[i], Prove(BuildMerkleTree(ids), i - 1),
                                        Root(BuildMerkleTree(ids)))
      BY DEF ProofsVerify
    <3>1. ids \in Seq(Range(ids)) /\ Len(ids) \in Nat
      BY <2>1, LenProperties
    <3>2. PICK j \in 0..Len(ids) - 1 : j = i - 1 /\ j + 1 = i
      BY <3>1
    <3>3. VerifyInclusion(ids[j + 1], Prove(BuildMerkleTree(ids), j), Root(BuildMerkleTree(ids)))
      BY <3>1, InclusionIsComplete
    <3>4. QED
      BY <3>2, <3>3
  <2>3. ProofsAreSound
    <3> SUFFICES ASSUME NEW ids \in SealedLists,
                        NEW i \in 0..Len(ids) - 1, NEW k \in 0..BuildMerkleTree(ids).height,
                        NEW x, x \notin Range(ids)
                 PROVE  ~VerifyInclusion(x,
                           [Prove(BuildMerkleTree(ids), i) EXCEPT
                              !.Steps = SubSeq(@, k + 1, BuildMerkleTree(ids).height)],
                           Root(BuildMerkleTree(ids)))
      BY DEF ProofsAreSound
    <3>1. ids \in Seq(Range(ids))
      BY <2>1
    <3>2. PICK rest : rest = [Prove(BuildMerkleTree(ids), i) EXCEPT
                                !.Steps = SubSeq(@, k + 1, BuildMerkleTree(ids).height)]
      OBVIOUS
    <3>3. rest.Steps = SubSeq(Prove(BuildMerkleTree(ids), i).Steps, k + 1,
                              BuildMerkleTree(ids).height)
      BY <3>2 DEF Prove
    <3>4. QED
      BY <3>1, <3>2, <3>3, InclusionIsSound
  <2>4. QED
    BY <2>2, <2>3 DEF ProofsAreExact
<1>2. QED
  BY <1>1, LedgerInvariant, PTL
=============================================================================
