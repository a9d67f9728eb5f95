------------------------------- MODULE Basics -------------------------------
(***************************************************************************)
(* Facts about numbers, functions, sequences and hash trees, for the       *)
(* proofs of several components.  Induction is stated with a set in the    *)
(* place of a predicate: it follows from the well-founded order of the     *)
(* naturals.                                                               *)
(***************************************************************************)
EXTENDS HashTree, SequenceTheorems, WellFoundedInduction, TLAPS

\* A set of naturals that is not empty has a least element.
LEMMA LeastExists ==
    ASSUME NEW S \in SUBSET Nat, S # {}
    PROVE  \E x \in S : \A y \in S : x <= y
<1>1. PICK x \in S : \A y \in S : ~(<<y, x>> \in OpToRel(<, Nat))
  BY WFMin, NatLessThanWellFounded, Zenon
<1>2. \A y \in S : ~(y < x)
  BY <1>1 DEF OpToRel
<1>3. QED
  BY <1>2

\* Min is that element.
LEMMA MinIsLeast ==
    ASSUME NEW S \in SUBSET Nat, S # {}
    PROVE  Min(S) \in S /\ \A y \in S : Min(S) <= y
BY LeastExists DEF Min

\* An element that is below all others is the minimum.
LEMMA LeastIsMin ==
    ASSUME NEW S \in SUBSET Nat, NEW m \in S, \A y \in S : m <= y
    PROVE  Min(S) = m
<1>1. Min(S) \in S /\ \A y \in S : Min(S) <= y
  BY MinIsLeast
<1>2. PICK x \in S : x = Min(S) /\ \A y \in S : x <= y
  BY <1>1
<1>3. x \in Int /\ m \in Int /\ x <= m /\ m <= x
  BY <1>2
<1>4. QED
  BY <1>2, <1>3

\* An element that is above all others is the maximum.
LEMMA GreatestIsMax ==
    ASSUME NEW S \in SUBSET Int, NEW m \in S, \A y \in S : m >= y
    PROVE  Max(S) = m
<1>1. \E x \in S : \A y \in S : x >= y
  OBVIOUS
<1>2. Max(S) \in S /\ \A y \in S : Max(S) >= y
  BY <1>1 DEF Max
<1>3. Max(S) \in Int /\ m \in Int /\ Max(S) >= m /\ m >= Max(S)
  BY <1>2
<1>4. QED
  BY <1>3

\* A set of naturals with an upper bound has a maximum.
LEMMA MaxIsGreatest ==
    ASSUME NEW n \in Nat, NEW S \in SUBSET (0..n), S # {}
    PROVE  Max(S) \in S /\ \A y \in S : Max(S) >= y
<1> DEFINE T == {n - y : y \in S}
<1>1. T \in SUBSET Nat /\ T # {}
  <2>1. \A y \in S : n - y \in Nat
    OBVIOUS
  <2>2. PICK z \in S : TRUE
    OBVIOUS
  <2>3. n - z \in T
    BY <2>2
  <2>4. QED
    BY <2>1, <2>3
<1>2. PICK x \in T : \A y \in T : x <= y
  <2> HIDE DEF T
  <2> QED
    BY <1>1, LeastExists
<1>3. PICK m \in S : x = n - m
  BY <1>2
<1>4. \A y \in S : m >= y
  BY <1>2, <1>3
<1>5. QED
  BY <1>4 DEF Max

\* Induction on the naturals, for the set of the numbers that have a property.
LEMMA Induction ==
    ASSUME NEW S, 0 \in S, \A n \in Nat : n \in S => n + 1 \in S
    PROVE  Nat \subseteq S
<1> SUFFICES ASSUME Nat \ S # {} PROVE FALSE
  OBVIOUS
<1>1. PICK x \in Nat \ S : \A y \in Nat \ S : x <= y
  <2>1. Nat \ S \in SUBSET Nat
    OBVIOUS
  <2>2. QED
    BY <2>1, LeastExists
<1>2. x - 1 \in Nat /\ x - 1 < x
  BY <1>1
<1>3. x - 1 \in S
  BY <1>1, <1>2
<1>4. QED
  BY <1>2, <1>3

\* A list is one of its own elements.
LEMMA ListOfItsElements ==
    ASSUME NEW S, NEW s \in Seq(S)
    PROVE  s \in Seq(Range(s))
<1>1. Len(s) \in Nat /\ s \in [1..Len(s) -> S]
  BY LenProperties
<1>2. s \in [1..Len(s) -> Range(s)]
  BY <1>1 DEF Range
<1>3. QED
  BY <1>1, <1>2, SeqDef

\* A list that an element is appended to.
LEMMA Appended ==
    ASSUME NEW s, s \in Seq(Range(s)), NEW e
    PROVE  /\ Append(s, e) \in Seq(Range(Append(s, e)))
           /\ Len(s) \in Nat
           /\ DOMAIN s = 1..Len(s)
           /\ Len(Append(s, e)) = Len(s) + 1
           /\ DOMAIN Append(s, e) = 1..Len(s) + 1
           /\ \A i \in 1..Len(s) : Append(s, e)[i] = s[i]
           /\ Append(s, e)[Len(s) + 1] = e
           /\ Range(Append(s, e)) = Range(s) \cup {e}
<1> DEFINE T == Range(s) \cup {e}
<1>1. s \in Seq(T) /\ e \in T
  BY SeqMonotonic
<1>2. /\ Append(s, e) \in Seq(T)
      /\ Len(Append(s, e)) = Len(s) + 1
      /\ \A i \in 1..Len(s) : Append(s, e)[i] = s[i]
      /\ Append(s, e)[Len(s) + 1] = e
  BY <1>1, AppendProperties
<1>3. Len(s) \in Nat /\ DOMAIN s = 1..Len(s) /\ DOMAIN Append(s, e) = 1..Len(s) + 1
  BY <1>1, <1>2, LenProperties
<1>4. Range(Append(s, e)) = T
  BY <1>2, <1>3 DEF Range
<1>5. QED
  BY <1>2, <1>3, <1>4

\* f starts with base and goes from each value to the next by step.
Iterates(f, base, step) == f[0] = base /\ \A n \in Nat : f[n + 1] = step[n + 1][f[n]]

\* A function on the naturals may be defined from its value at 0 and a step from
\* each value to the next.
LEMMA Recursion ==
    ASSUME NEW V, NEW base \in V, NEW step \in [Nat -> [V -> V]]
    PROVE  \E f \in [Nat -> V] : Iterates(f, base, step)
<1> DEFINE Upto(n, f) == /\ f \in [0..n -> V]
                         /\ f[0] = base
                         /\ \A k \in 0..n - 1 : f[k + 1] = step[k + 1][f[k]]
           Some(n) == CHOOSE f : Upto(n, f)
           S == {n \in Nat : \E f : Upto(n, f)}
<1>1. \A n \in Nat : \E f : Upto(n, f)
  <2>1. 0 \in S
    <3>1. Upto(0, [k \in 0..0 |-> base])
      OBVIOUS
    <3>2. QED
      BY <3>1
  <2>2. \A n \in Nat : n \in S => n + 1 \in S
    <3> HIDE DEF Upto
    <3> SUFFICES ASSUME NEW n \in Nat, NEW f, Upto(n, f) PROVE \E g : Upto(n + 1, g)
      OBVIOUS
    <3> USE DEF Upto
    <3> DEFINE g == [k \in 0..n + 1 |-> IF k = n + 1 THEN step[n + 1][f[n]] ELSE f[k]]
    <3>1. f[n] \in V /\ step[n + 1][f[n]] \in V
      OBVIOUS
    <3>2. g \in [0..n + 1 -> V]
      BY <3>1
    <3>3. g[0] = base
      OBVIOUS
    <3>4. \A k \in 0..n : g[k + 1] = step[k + 1][g[k]]
      <4> SUFFICES ASSUME NEW k \in 0..n PROVE g[k + 1] = step[k + 1][g[k]]
        OBVIOUS
      <4>1. CASE k = n
        BY <4>1
      <4>2. CASE k # n
        <5>1. k \in 0..n - 1 /\ k + 1 \in 0..n + 1 /\ k + 1 # n + 1
          BY <4>2
        <5>2. QED
          BY <5>1
      <4>3. QED
        BY <4>1, <4>2
    <3>5. (n + 1) - 1 = n
      OBVIOUS
    <3>6. Upto(n + 1, g)
      <4> HIDE DEF g
      <4> QED
        BY <3>2, <3>3, <3>4, <3>5
    <3>7. QED
      <4> HIDE DEF g, Upto
      <4> QED
        BY <3>6
  <2>3. Nat \subseteq S
    <3> HIDE DEF S
    <3> QED
      BY <2>1, <2>2, Induction
  <2>4. QED
    BY <2>3
<1>2. \A n \in Nat : Upto(n, Some(n))
  <2> HIDE DEF Upto
  <2> QED
    BY <1>1
<1> HIDE DEF Some
<1>3. \A n \in Nat : Some(n + 1)[n] = Some(n)[n]
  <2> SUFFICES ASSUME NEW n \in Nat PROVE Some(n + 1)[n] = Some(n)[n]
    OBVIOUS
  <2> DEFINE T == {k \in Nat : k <= n => Some(n + 1)[k] = Some(n)[k]}
  <2>1. Upto(n, Some(n)) /\ Upto(n + 1, Some(n + 1))
    BY <1>2
  <2>2. 0 \in T
    BY <2>1
  <2>3. \A k \in Nat : k \in T => k + 1 \in T
    <3> SUFFICES ASSUME NEW k \in Nat, k \in T, k + 1 <= n
                 PROVE  Some(n + 1)[k + 1] = Some(n)[k + 1]
      OBVIOUS
    <3>1. k \in 0..n - 1 /\ k \in 0..(n + 1) - 1
      OBVIOUS
    <3>2. QED
      BY <2>1, <3>1
  <2>4. Nat \subseteq T
    <3> HIDE DEF T
    <3> QED
      BY <2>2, <2>3, Induction
  <2>5. QED
    BY <2>4
<1> DEFINE f == [n \in Nat |-> Some(n)[n]]
<1>4. f \in [Nat -> V]
  BY <1>2
<1>5. f[0] = base
  BY <1>2
<1>6. \A n \in Nat : f[n + 1] = step[n + 1][f[n]]
  <2> SUFFICES ASSUME NEW n \in Nat PROVE f[n + 1] = step[n + 1][f[n]]
    OBVIOUS
  <2>1. Upto(n + 1, Some(n + 1)) /\ n \in 0..(n + 1) - 1 /\ n + 1 \in Nat
    BY <1>2
  <2>2. Some(n + 1)[n + 1] = step[n + 1][Some(n + 1)[n]]
    BY <2>1
  <2>3. QED
    BY <1>3, <2>1, <2>2
<1>7. QED
  <2> HIDE DEF f
  <2> QED
    BY <1>4, <1>5, <1>6 DEF Iterates

-----------------------------------------------------------------------------
(* Hash trees: powers of two.                                              *)

\* The loop of nextPowerOfTwo.
LEMMA DoubledSteps ==
    /\ doubled \in [Nat -> Nat]
    /\ doubled[0] = 1
    /\ \A k \in Nat : doubled[k + 1] = 2 * doubled[k]
<1> DEFINE step == [k \in Nat |-> [v \in Nat |-> 2 * v]]
           Loop(d) == d = [k \in Nat |-> IF k = 0 THEN 1 ELSE 2 * d[k - 1]]
<1>1. step \in [Nat -> [Nat -> Nat]]
  OBVIOUS
<1>2. PICK f \in [Nat -> Nat] : Iterates(f, 1, step)
  <2> HIDE DEF step
  <2>1. PICK U, first : U = Nat /\ first = 1
    OBVIOUS
  <2>2. first \in U /\ step \in [Nat -> [U -> U]]
    BY <1>1, <2>1
  <2>3. \E f \in [Nat -> U] : Iterates(f, first, step)
    BY <2>2, Recursion
  <2>4. QED
    BY <2>1, <2>3
<1>3. f[0] = 1 /\ \A k \in Nat : f[k + 1] = 2 * f[k]
  <2>1. f[0] = 1 /\ \A k \in Nat : k + 1 \in Nat /\ f[k] \in Nat /\ f[k + 1] = step[k + 1][f[k]]
    <3> HIDE DEF step
    <3> QED
      BY <1>2 DEF Iterates
  <2>2. \A k, v \in Nat : step[k][v] = 2 * v
    OBVIOUS
  <2> HIDE DEF step
  <2>3. QED
    BY <2>1, <2>2
<1>4. Loop(f)
  <2> SUFFICES ASSUME NEW k \in Nat PROVE f[k] = IF k = 0 THEN 1 ELSE 2 * f[k - 1]
    OBVIOUS
  <2>1. k = 0 \/ (k - 1 \in Nat /\ (k - 1) + 1 = k)
    OBVIOUS
  <2>2. QED
    BY <1>3, <2>1
<1>5. Loop(doubled)
  <2>1. Loop(CHOOSE d : Loop(d))
    <3> HIDE DEF Loop
    <3> QED
      BY <1>4
  <2>2. QED
    BY <2>1 DEF doubled
<1>6. PICK d : d = doubled
  OBVIOUS
<1>7. Loop(d)
  BY <1>5, <1>6
<1>8. d[0] = 1 /\ \A k \in Nat : d[k + 1] = 2 * d[k]
  <2>1. \A k \in Nat : k + 1 \in Nat /\ k + 1 # 0 /\ (k + 1) - 1 = k
    OBVIOUS
  <2>2. QED
    BY <1>7, <2>1
<1>9. \A k \in Nat : d[k] \in Nat
  <2> DEFINE S == {k \in Nat : d[k] \in Nat}
  <2>1. 0 \in S
    BY <1>8
  <2>2. \A k \in Nat : k \in S => k + 1 \in S
    BY <1>8
  <2>3. Nat \subseteq S
    <3> HIDE DEF S
    <3> QED
      BY <2>1, <2>2, Induction
  <2>4. QED
    BY <2>3
<1>10. QED
  BY <1>6, <1>7, <1>8, <1>9

\* It ends: after n doublings at the latest.
LEMMA DoublingsEnough ==
    ASSUME NEW n \in Nat
    PROVE  Doublings(n) \in Nat /\ doubled[Doublings(n)] >= n
<1> DEFINE S == {k \in Nat : doubled[k] >= k + 1}
           T == {k \in 0..n : doubled[k] >= n}
<1>1. \A k \in Nat : doubled[k] \in Nat
  BY DoubledSteps
<1>2. 0 \in S
  BY DoubledSteps
<1>3. \A k \in Nat : k \in S => k + 1 \in S
  BY <1>1, DoubledSteps
<1>4. Nat \subseteq S
  <2> HIDE DEF S
  <2> QED
    BY <1>2, <1>3, Induction
<1>5. T \in SUBSET Nat /\ n \in T
  BY <1>1, <1>4
<1>6. Min(T) \in T
  <2> HIDE DEF T
  <2> QED
    BY <1>5, MinIsLeast
<1>7. QED
  BY <1>5, <1>6 DEF Doublings

-----------------------------------------------------------------------------
(* The recursions over levels and steps.                                   *)

\* Each level is made from the one below it.
LEMMA LevelsStep ==
    ASSUME NEW bottom, NEW H \in Nat
    PROVE  /\ Levels(bottom, H)[0] = bottom
           /\ \A h \in 1..H : Levels(bottom, H)[h]
                 = [i \in 0..doubled[H - h] - 1 |->
                       internalHash(Levels(bottom, H)[h - 1][2 * i],
                                    Levels(bottom, H)[h - 1][2 * i + 1])]
<1> DEFINE above(h, l) == [i \in 0..doubled[H - h] - 1 |->
                              internalHash(l[2 * i], l[2 * i + 1])]
           Upto(n, f) == f = [h \in 0..n |-> IF h = 0 THEN bottom ELSE above(h, f[h - 1])]
           S == {n \in Nat : \E f : Upto(n, f)}
<1> HIDE DEF above
<1>1. 0 \in S
  <2>1. Upto(0, [h \in 0..0 |-> bottom])
    OBVIOUS
  <2>2. QED
    BY <2>1
<1>2. \A n \in Nat : n \in S => n + 1 \in S
  <2> HIDE DEF Upto
  <2> SUFFICES ASSUME NEW n \in Nat, NEW f, Upto(n, f) PROVE \E g : Upto(n + 1, g)
    OBVIOUS
  <2> USE DEF Upto
  <2> DEFINE g == [h \in 0..n + 1 |-> IF h = n + 1 THEN above(n + 1, f[n]) ELSE f[h]]
  <2>1. ASSUME NEW h \in 0..n + 1
        PROVE  g[h] = IF h = 0 THEN bottom ELSE above(h, g[h - 1])
    <3>1. CASE h = 0
      BY <3>1
    <3>2. CASE h = n + 1
      <4>1. h - 1 = n /\ n \in 0..n + 1 /\ n # n + 1 /\ h # 0
        BY <3>2
      <4>2. QED
        BY <3>2, <4>1
    <3>3. CASE h \in 1..n
      <4>1. /\ h \in 0..n /\ h # 0 /\ h # n + 1
            /\ h - 1 \in 0..n + 1 /\ h - 1 # n + 1
        BY <3>3
      <4>2. f[h] = above(h, f[h - 1])
        BY <4>1
      <4>3. QED
        BY <4>1, <4>2
    <3>4. QED
      BY <3>1, <3>2, <3>3
  <2>2. Upto(n + 1, g)
    BY <2>1
  <2>3. QED
    <3> HIDE DEF g, Upto
    <3> QED
      BY <2>2
<1>3. Nat \subseteq S
  <2> HIDE DEF S
  <2> QED
    BY <1>1, <1>2, Induction
<1>4. Upto(H, CHOOSE f : Upto(H, f))
  <2> HIDE DEF Upto
  <2> QED
    BY <1>3
<1>5. Levels(bottom, H) = CHOOSE f : Upto(H, f)
  BY DEF Levels, above
<1>6. PICK l : l = Levels(bottom, H) /\ Upto(H, l)
  BY <1>4, <1>5
<1>7. l[0] = bottom /\ \A h \in 1..H : l[h] = above(h, l[h - 1])
  <2>1. \A h \in 1..H : h \in 0..H /\ h # 0
    OBVIOUS
  <2>2. QED
    BY <1>6, <2>1
<1>8. QED
  BY <1>6, <1>7 DEF above

\* A proof is checked step by step: some function gives the hash before each.
LEMMA ClimbSteps ==
    ASSUME NEW id, NEW steps, Len(steps) \in Nat
    PROVE  \E h : /\ h[0] = leafHash(id)
                  /\ \A k \in 1..Len(steps) : h[k] = Climb(steps[k], h[k - 1])
                  /\ Climbed(id, steps) = h[Len(steps)]
<1> DEFINE Upto(n, f) == f = [k \in 0..n |-> IF k = 0 THEN leafHash(id) ELSE Climb(steps[k], f[k - 1])]
           S == {n \in Nat : \E f : Upto(n, f)}
<1>1. 0 \in S
  <2>1. Upto(0, [k \in 0..0 |-> leafHash(id)])
    OBVIOUS
  <2>2. QED
    BY <2>1
<1>2. \A n \in Nat : n \in S => n + 1 \in S
  <2> HIDE DEF Upto
  <2> SUFFICES ASSUME NEW n \in Nat, NEW f, Upto(n, f) PROVE \E g : Upto(n + 1, g)
    OBVIOUS
  <2> USE DEF Upto
  <2> DEFINE g == [k \in 0..n + 1 |-> IF k = n + 1 THEN Climb(steps[n + 1], f[n]) ELSE f[k]]
  <2>1. ASSUME NEW k \in 0..n + 1
        PROVE  g[k] = IF k = 0 THEN leafHash(id) ELSE Climb(steps[k], g[k - 1])
    <3>1. CASE k = 0
      BY <3>1
    <3>2. CASE k = n + 1
      <4>1. k - 1 = n /\ n \in 0..n + 1 /\ n # n + 1 /\ k # 0
        BY <3>2
      <4>2. QED
        BY <3>2, <4>1
    <3>3. CASE k \in 1..n
      <4>1. /\ k \in 0..n /\ k # 0 /\ k # n + 1
            /\ k - 1 \in 0..n + 1 /\ k - 1 # n + 1
        BY <3>3
      <4>2. f[k] = Climb(steps[k], f[k - 1])
        BY <4>1
      <4>3. QED
        BY <4>1, <4>2
    <3>4. QED
      BY <3>1, <3>2, <3>3
  <2>2. Upto(n + 1, g)
    BY <2>1
  <2>3. QED
    <3> HIDE DEF g, Upto
    <3> QED
      BY <2>2
<1>3. Nat \subseteq S
  <2> HIDE DEF S
  <2> QED
    BY <1>1, <1>2, Induction
<1>4. Upto(Len(steps), CHOOSE f : Upto(Len(steps), f))
  <2> HIDE DEF Upto
  <2> QED
    BY <1>3
<1>5. Climbed(id, steps) = (CHOOSE f : Upto(Len(steps), f))[Len(steps)]
  BY DEF Climbed
<1>6. PICK h : Upto(Len(steps), h) /\ Climbed(id, steps) = h[Len(steps)]
  BY <1>4, <1>5
<1>7. h[0] = leafHash(id) /\ \A k \in 1..Len(steps) : h[k] = Climb(steps[k], h[k - 1])
  <2>1. \A k \in 1..Len(steps) : k \in 0..Len(steps) /\ k # 0
    OBVIOUS
  <2>2. QED
    BY <1>6, <2>1
<1>8. QED
  BY <1>6, <1>7

\* Going up, a position is halved at each level.
LEMMA IndexHalves ==
    ASSUME NEW i \in Nat
    PROVE  /\ Index(i, 0) = i
           /\ \A k \in Nat : Index(i, k) \in Nat /\ Index(i, k + 1) = Index(i, k) \div 2
<1> DEFINE step == [k \in Nat |-> [v \in Nat |-> v \div 2]]
           Upto(n, f) == f = [l \in 0..n |-> IF l = 0 THEN i ELSE f[l - 1] \div 2]
<1>1. step \in [Nat -> [Nat -> Nat]]
  OBVIOUS
<1>2. PICK f \in [Nat -> Nat] : Iterates(f, i, step)
  <2> HIDE DEF step
  <2>1. PICK U : U = Nat
    OBVIOUS
  <2>2. i \in U /\ step \in [Nat -> [U -> U]]
    BY <1>1, <2>1
  <2>3. \E f \in [Nat -> U] : Iterates(f, i, step)
    BY <2>2, Recursion
  <2>4. QED
    BY <2>1, <2>3
<1>3. f[0] = i /\ \A k \in Nat : f[k + 1] = f[k] \div 2
  <2>1. f[0] = i /\ \A k \in Nat : k + 1 \in Nat /\ f[k] \in Nat /\ f[k + 1] = step[k + 1][f[k]]
    <3> HIDE DEF step
    <3> QED
      BY <1>2 DEF Iterates
  <2>2. \A k, v \in Nat : step[k][v] = v \div 2
    OBVIOUS
  <2> HIDE DEF step
  <2>3. ASSUME NEW k \in Nat PROVE f[k + 1] = f[k] \div 2
    <3>1. PICK n, v \in Nat : n = k + 1 /\ v = f[k]
      BY <2>1
    <3>2. f[k + 1] = step[n][v] /\ step[n][v] = v \div 2
      BY <2>1, <2>2, <3>1
    <3>3. QED
      BY <3>1, <3>2
  <2>4. QED
    BY <2>1, <2>3
<1>4. \A n \in Nat : Index(i, n) = f[n]
  <2> SUFFICES ASSUME NEW n \in Nat PROVE Index(i, n) = f[n]
    OBVIOUS
  <2>1. Upto(n, [l \in 0..n |-> f[l]])
    <3> DEFINE g == [l \in 0..n |-> f[l]]
    <3> SUFFICES ASSUME NEW l \in 0..n PROVE g[l] = IF l = 0 THEN i ELSE g[l - 1] \div 2
      OBVIOUS
    <3>1. l = 0 \/ (l # 0 /\ l - 1 \in 0..n /\ l - 1 \in Nat /\ (l - 1) + 1 = l)
      OBVIOUS
    <3>2. QED
      BY <1>3, <3>1
  <2>2. Upto(n, CHOOSE o : Upto(n, o))
    <3> HIDE DEF Upto
    <3> QED
      BY <2>1
  <2>3. Index(i, n) = (CHOOSE o : Upto(n, o))[n]
    BY DEF Index
  <2>4. PICK o : Upto(n, o) /\ Index(i, n) = o[n]
    BY <2>2, <2>3
  <2> DEFINE T == {k \in Nat : k <= n => o[k] = f[k]}
  <2>5. 0 \in T
    BY <1>3, <2>4
  <2>6. \A k \in Nat : k \in T => k + 1 \in T
    <3> SUFFICES ASSUME NEW k \in Nat, k \in T, k + 1 <= n PROVE o[k + 1] = f[k + 1]
      OBVIOUS
    <3>1. k + 1 \in 0..n /\ k + 1 # 0 /\ (k + 1) - 1 = k /\ o[k] = f[k]
      OBVIOUS
    <3>2. QED
      BY <1>3, <2>4, <3>1
  <2>7. Nat \subseteq T
    <3> HIDE DEF T
    <3> QED
      BY <2>5, <2>6, Induction
  <2>8. o[n] = f[n]
    <3>1. n \in T
      <4> HIDE DEF T
      <4> QED
        BY <2>7
    <3>2. QED
      BY <3>1
  <2>9. QED
    <3> HIDE DEF Upto
    <3> QED
      BY <2>4, <2>8
<1>5. ASSUME NEW k \in Nat PROVE Index(i, k) \in Nat /\ Index(i, k + 1) = Index(i, k) \div 2
  <2>1. k + 1 \in Nat /\ f[k] \in Nat /\ f[k + 1] = f[k] \div 2
    <3>1. f \in [Nat -> Nat]
      BY <1>2
    <3>2. f[k] \in Nat
      BY <3>1
    <3>3. f[k + 1] = f[k] \div 2
      BY <1>3
    <3>4. QED
      BY <3>2, <3>3
  <2>2. Index(i, k) = f[k] /\ Index(i, k + 1) = f[k + 1]
    BY <1>4, <2>1
  <2>3. QED
    BY <2>1, <2>2
<1>6. Index(i, 0) = i
  BY <1>3, <1>4
<1>7. QED
  BY <1>5, <1>6

-----------------------------------------------------------------------------
(* The path from a leaf to the root.                                       *)

\* The node above leaf i at level k.
OnPath(levels, i, k) == levels[k][Index(i, k)]

\* The path stays inside the tree and ends at the root, and each node on it is
\* what its sibling and the node below it hash to.
LEMMA PathClimbs ==
    ASSUME NEW bottom, NEW H \in Nat, NEW i \in Nat, i < doubled[H],
           NEW levels, levels = Levels(bottom, H)
    PROVE  /\ OnPath(levels, i, 0) = bottom[i]
           /\ \A k \in 0..H - 1 :
                 OnPath(levels, i, k + 1) = Climb(Sibling(levels, i, k), OnPath(levels, i, k))
           /\ \A k \in 1..H : \E a, b : OnPath(levels, i, k) = internalHash(a, b)
           /\ OnPath(levels, i, H) = levels[H][0]
<1> DEFINE idx(k) == Index(i, k)
<1>1. /\ levels[0] = bottom
      /\ \A h \in 1..H : levels[h]
            = [j \in 0..doubled[H - h] - 1 |->
                  internalHash(levels[h - 1][2 * j], levels[h - 1][2 * j + 1])]
  BY LevelsStep
<1>2. levels[0][i] = bottom[i]
  BY <1>1
<1>4. idx(0) = i /\ \A k \in Nat : idx(k) \in Nat /\ idx(k + 1) = idx(k) \div 2
  BY IndexHalves
<1> HIDE DEF idx
<1>5. \A k \in 0..H : idx(k) < doubled[H - k]
  <2> DEFINE In == {k \in Nat : k <= H => idx(k) < doubled[H - k]}
  <2>1. 0 \in In
    <3>1. PICK d \in Nat : d = doubled[H]
      BY DoubledSteps
    <3>2. H - 0 = H /\ i < d
      BY <3>1
    <3>3. idx(0) < doubled[H - 0]
      BY <1>4, <3>1, <3>2
    <3>4. QED
      BY <3>3
  <2>2. \A k \in Nat : k \in In => k + 1 \in In
    <3> SUFFICES ASSUME NEW k \in Nat, k \in In, k + 1 <= H
                 PROVE  idx(k + 1) < doubled[H - (k + 1)]
      OBVIOUS
    <3>1. PICK d \in Nat : d = H - (k + 1) /\ d + 1 = H - k
      OBVIOUS
    <3>2. idx(k) < doubled[d + 1]
      BY <3>1
    <3>3. doubled[d + 1] = 2 * doubled[d] /\ doubled[d] \in Nat
      BY DoubledSteps
    <3>4. idx(k) \in Nat /\ idx(k + 1) = idx(k) \div 2
      BY <1>4
    <3>5. idx(k + 1) < doubled[d]
      BY <3>2, <3>3, <3>4
    <3>6. QED
      BY <3>1, <3>5
  <2>3. Nat \subseteq In
    <3> HIDE DEF In
    <3> QED
      BY <2>1, <2>2, Induction
  <2>4. QED
    BY <2>3
<1>7. ASSUME NEW k \in 0..H - 1
      PROVE  levels[k + 1][idx(k + 1)]
               = internalHash(levels[k][2 * idx(k + 1)], levels[k][2 * idx(k + 1) + 1])
  <2>1. k + 1 \in 1..H /\ k + 1 \in 0..H /\ (k + 1) - 1 = k /\ k + 1 \in Nat /\ H - (k + 1) \in Nat
    OBVIOUS
  <2>2. PICK d, x \in Nat : d = doubled[H - (k + 1)] /\ x = idx(k + 1)
    BY <1>4, <2>1, DoubledSteps
  <2>3. idx(k + 1) \in 0..doubled[H - (k + 1)] - 1
    <3>1. x < d
      BY <1>5, <2>1, <2>2
    <3>2. x \in 0..d - 1
      BY <3>1
    <3>3. QED
      BY <2>2, <3>2
  <2>4. levels[k + 1] = [j \in 0..doubled[H - (k + 1)] - 1 |->
                              internalHash(levels[k][2 * j], levels[k][2 * j + 1])]
    BY <1>1, <2>1
  <2>5. QED
    BY <2>3, <2>4
<1>8. ASSUME NEW k \in 0..H - 1
      PROVE  levels[k + 1][idx(k + 1)] = Climb(Sibling(levels, i, k), levels[k][idx(k)])
  <2>1. idx(k) \in Nat /\ idx(k + 1) = idx(k) \div 2
    BY <1>4
  <2>2. CASE idx(k) % 2 = 0
    <3>1. 2 * idx(k + 1) = idx(k)
      BY <2>1, <2>2
    <3>2. Sibling(levels, i, k) = [hash |-> levels[k][idx(k) + 1], isLeft |-> FALSE]
      BY <2>2 DEF Sibling, idx
    <3>3. QED
      BY <1>7, <3>1, <3>2 DEF Climb
  <2>3. CASE idx(k) % 2 # 0
    <3>1. 2 * idx(k + 1) + 1 = idx(k) /\ 2 * idx(k + 1) = idx(k) - 1
      BY <2>1, <2>3
    <3>2. Sibling(levels, i, k) = [hash |-> levels[k][idx(k) - 1], isLeft |-> TRUE]
      BY <2>3 DEF Sibling, idx
    <3>3. QED
      BY <1>7, <3>1, <3>2 DEF Climb
  <2>4. QED
    BY <2>2, <2>3
<1>9. levels[H][idx(H)] = levels[H][0]
  <2>1. H - H = 0 /\ H \in 0..H
    OBVIOUS
  <2>2. idx(H) < 1 /\ idx(H) \in Nat
    BY <1>4, <1>5, <2>1, DoubledSteps
  <2>3. idx(H) = 0
    BY <2>2
  <2>4. QED
    BY <2>3
<1>10. ASSUME NEW k \in 1..H
       PROVE  \E a, b : levels[k][idx(k)] = internalHash(a, b)
  <2>1. k - 1 \in 0..H - 1 /\ (k - 1) + 1 = k
    OBVIOUS
  <2>2. QED
    BY <1>7, <2>1
<1>11. QED
  BY <1>2, <1>4, <1>8, <1>9, <1>10 DEF OnPath, idx

\* Nothing but the node below it climbs to a node with the same sibling.
LEMMA ClimbIsInjective ==
    ASSUME NEW step, NEW h, NEW g, Climb(step, h) = Climb(step, g)
    PROVE  h = g
BY DEF Climb, internalHash

\* The siblings of a leaf lead to the root from that leaf and from no other.
LEMMA ProofIsExact ==
    ASSUME NEW bottom, NEW H \in Nat, NEW i \in Nat, i < doubled[H],
           NEW levels, levels = Levels(bottom, H), NEW steps, Len(steps) = H,
           \A l \in 1..H : steps[l] = Sibling(levels, i, l - 1), NEW id
    PROVE  Climbed(id, steps) = levels[H][0] <=> leafHash(id) = bottom[i]
<1>1. /\ OnPath(levels, i, 0) = bottom[i]
      /\ \A k \in 0..H - 1 : OnPath(levels, i, k + 1) = Climb(Sibling(levels, i, k), OnPath(levels, i, k))
      /\ OnPath(levels, i, H) = levels[H][0]
  BY PathClimbs
<1>2. PICK h : /\ h[0] = leafHash(id)
               /\ \A k \in 1..H : h[k] = Climb(steps[k], h[k - 1])
               /\ Climbed(id, steps) = h[H]
  BY ClimbSteps
<1>3. ASSUME NEW k \in 0..H - 1
      PROVE  h[k + 1] = OnPath(levels, i, k + 1) <=> h[k] = OnPath(levels, i, k)
  <2>1. k + 1 \in 1..H /\ (k + 1) - 1 = k
    OBVIOUS
  <2>2. h[k + 1] = Climb(steps[k + 1], h[k]) /\ steps[k + 1] = Sibling(levels, i, k)
    BY <1>2, <2>1
  <2>3. OnPath(levels, i, k + 1) = Climb(steps[k + 1], OnPath(levels, i, k))
    BY <1>1, <2>2
  <2>4. QED
    BY <2>2, <2>3, ClimbIsInjective
<1>4. h[H] = OnPath(levels, i, H) <=> h[0] = OnPath(levels, i, 0)
  <2> DEFINE In == {k \in Nat : k <= H => (h[k] = OnPath(levels, i, k) <=> h[0] = OnPath(levels, i, 0))}
  <2>1. 0 \in In
    OBVIOUS
  <2>2. \A k \in Nat : k \in In => k + 1 \in In
    <3> SUFFICES ASSUME NEW k \in Nat, k \in In, k + 1 <= H
                 PROVE  h[k + 1] = OnPath(levels, i, k + 1) <=> h[0] = OnPath(levels, i, 0)
      OBVIOUS
    <3>1. k \in 0..H - 1 /\ (h[k] = OnPath(levels, i, k) <=> h[0] = OnPath(levels, i, 0))
      OBVIOUS
    <3>2. QED
      BY <1>3, <3>1
  <2>3. Nat \subseteq In
    <3> HIDE DEF In
    <3> QED
      BY <2>1, <2>2, Induction
  <2>4. QED
    BY <2>3
<1>5. QED
  BY <1>1, <1>2, <1>4
=============================================================================
