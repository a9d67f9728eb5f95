----------------------------- MODULE WebMerkle -----------------------------
(***************************************************************************)
(* The hash trees of web/src/lib/kernel/merkle.ts: the browser's and the   *)
(* console server's own copy of ledger/merkle.go, "ported field-for-field" *)
(* (merkle.ts:7), so that all but the padding is HashTree's.                *)
(***************************************************************************)
EXTENDS HashTree, FiniteSets

\* index >>> s: JavaScript takes the distance modulo 32, so the four upper
\* bytes of the eight repeat the four lower ones, where ledger/merkle.go
\* writes zeros.
ShiftRight(index, s) == index \div 2^(s % 32)

padHash(index) == <<"pad", [i \in 0..7 |-> ShiftRight(index, 56 - 8 * i) % 256]>>

paddedLevel(evidenceIds) ==
    [i \in 0..nextPowerOfTwo(Len(evidenceIds)) - 1 |->
        IF i < Len(evidenceIds) THEN leafHash(evidenceIds[i + 1]) ELSE padHash(i)]

\* The tree of a list that is not empty; height is levels.length - 1.
buildMerkleTree(evidenceIds) ==
    LET height == Doublings(Len(evidenceIds))
        levels == Levels(paddedLevel(evidenceIds), height)
    IN  [height |-> height, levels |-> levels, root |-> levels[height][0]]

\* Mutant: the index is not halved on the way up.
proveInclusionMutant(tree, leafIndex) ==
    LET step(l) == Sibling(tree.levels, (leafIndex % 2^(tree.height - l)) * 2^l, l)
    IN  [steps |-> [l \in 1..tree.height |-> step(l - 1)], root |-> tree.root]

proveInclusion(tree, leafIndex) ==
    [steps |-> [l \in 1..tree.height |-> Sibling(tree.levels, leafIndex, l - 1)],
     root  |-> tree.levels[tree.height][0]]

\* Against the root the proof itself brings.
verifyInclusion(evidenceId, proof) == Climbed(evidenceId, proof.steps) = proof.root
=============================================================================
