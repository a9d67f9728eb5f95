------------------------------ MODULE HashTree ------------------------------
(***************************************************************************)
(* What the hash trees of ledger/merkle.go and of its copy for the browser *)
(* (web/src/lib/kernel/merkle.ts, see WebMerkle) have in common.  BLAKE3 is *)
(* collision free for our purposes, so a hash is the term it was computed  *)
(* from, with the domain byte in front.  Positions count from 0, as in the *)
(* code.                                                                   *)
(***************************************************************************)
EXTENDS Integers, Sequences, SequencesExt

leafHash(id) == <<"leaf", id>>

internalHash(left, right) == <<"internal", left, right>>

\* 1, doubled k times.
doubled[k \in Nat] == IF k = 0 THEN 1 ELSE 2 * doubled[k - 1]

\* How often the loop of nextPowerOfTwo doubles, until p is not less than n.
Doublings(n) == Min({k \in 0..n : doubled[k] >= n})

nextPowerOfTwo(n) == doubled[Doublings(n)]

\* The levels over a bottom level of doubled[height] nodes: each is half as long
\* as the one below it, and the last has one node.
Levels(bottom, height) ==
    LET level[h \in 0..height] ==
            IF h = 0 THEN bottom
            ELSE [i \in 0..doubled[height - h] - 1 |->
                     internalHash(level[h - 1][2 * i], level[h - 1][2 * i + 1])]
    IN  level

\* idx /= 2: the position, at a level, of the node above leaf i.
Index(i, level) ==
    LET idx[l \in 0..level] == IF l = 0 THEN i ELSE idx[l - 1] \div 2 IN idx[level]

\* Mutant: the side of the sibling is that of the leaf at every level.
SiblingMutant(levels, i, level) ==
    LET index == Index(i, level) IN
    IF index % 2 = 0
    THEN [hash |-> levels[level][index + 1], isLeft |-> i % 2 = 1]
    ELSE [hash |-> levels[level][index - 1], isLeft |-> i % 2 = 1]

\* The sibling, at a level, of the node on the path from leaf i to the root.
Sibling(levels, i, level) ==
    LET index == Index(i, level) IN
    IF index % 2 = 0
    THEN [hash |-> levels[level][index + 1], isLeft |-> FALSE]
    ELSE [hash |-> levels[level][index - 1], isLeft |-> TRUE]

\* The parent of a node with hash h whose sibling is that of step.
Climb(step, h) ==
    IF step.isLeft THEN internalHash(step.hash, h) ELSE internalHash(h, step.hash)

\* The hash a list of steps leads to from a leaf.
Climbed(id, steps) ==
    LET h[k \in 0..Len(steps)] == IF k = 0 THEN leafHash(id) ELSE Climb(steps[k], h[k - 1])
    IN  h[Len(steps)]
=============================================================================
