------------------------------- MODULE Merkle -------------------------------
(***************************************************************************)
(* The hash trees of ledger/merkle.go, over which batches of evidence and  *)
(* epochs of batches are sealed.                                           *)
(***************************************************************************)
EXTENDS HashTree

padHash(index) == <<"pad", index>>

\* The bottom level: the leaves, then padding up to a power of two.
PaddedLeaves(ids) ==
    [i \in 0..nextPowerOfTwo(Len(ids)) - 1 |->
        IF i < Len(ids) THEN leafHash(ids[i + 1]) ELSE padHash(i)]

\* The tree of a list that is not empty; an empty one is an error.
BuildMerkleTree(ids) ==
    [leafCount |-> Len(ids), height |-> Doublings(Len(ids)),
     levels |-> Levels(PaddedLeaves(ids), Doublings(Len(ids)))]

Root(tree) == tree.levels[tree.height][0]

\* i is the position of a leaf that is not padding; others are an error.
Prove(tree, i) ==
    [LeafIndex |-> i, Steps |-> [l \in 1..tree.height |-> Sibling(tree.levels, i, l - 1)]]

\* LeafIndex is carried and not used.
VerifyInclusion(id, proof, root) == Climbed(id, proof.Steps) = root
=============================================================================
