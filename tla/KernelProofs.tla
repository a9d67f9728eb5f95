---------------------------- MODULE KernelProofs ----------------------------
(***************************************************************************)
(* The adjudication kernel, for requests and policies of any size: the     *)
(* order of arrival does not matter, a supporting claim never lowers a     *)
(* verdict, and the attributed weights explain the score.  The first two   *)
(* rest on the sort: a list has one sorted arrangement, and with one more  *)
(* claim it has that claim inserted somewhere.  The third is a double      *)
(* count: by claims, and by tactics.                                       *)
(***************************************************************************)
EXTENDS Requests, Basics, FiniteSetTheorems

-----------------------------------------------------------------------------
(* The sort.                                                               *)

\* The claims of w are in claim_id order.
InOrder(w, n) == \A k, l \in 1..n : k < l => claim_id(w[k]) <= claim_id(w[l])

\* p takes each place once.
Permutes(p, n) ==
    /\ p \in [1..n -> 1..n]
    /\ \A k, l \in 1..n : p[k] = p[l] => k = l
    /\ \A i \in 1..n : \E k \in 1..n : p[k] = i

\* An injection of a list of places into itself reaches all of them.
LEMMA InjectionPermutes ==
    ASSUME NEW n \in Nat, NEW p \in [1..n -> 1..n], \A k, l \in 1..n : p[k] = p[l] => k = l
    PROVE  Permutes(p, n)
<1>1. IsFiniteSet(1..n)
  BY FS_Interval
<1>2. p \in Injection(1..n, 1..n)
  BY DEF Injection, IsInjective
<1>3. p \in Surjection(1..n, 1..n)
  BY <1>1, <1>2, FS_Injection
<1>4. QED
  BY <1>3 DEF Permutes, Surjection

\* Ordered arranges a list of claims in claim_id order.
LEMMA OrderedArranges ==
    ASSUME NEW D, \A c \in D : claim_id(c) \in Int, NEW s \in Seq(D), NEW n \in Nat, n = Len(s)
    PROVE  \E p : /\ Permutes(p, n)
                  /\ Ordered(s) = [k \in 1..n |-> s[p[k]]]
                  /\ InOrder(Ordered(s), n)
<1> DEFINE id(i) == claim_id(s[i])
           Pre(j, i) == id(j) < id(i) \/ (id(j) = id(i) /\ j < i)
           B(i) == {j \in 1..n : Pre(j, i)}
           rank(i) == Cardinality(B(i))
<1>1. DOMAIN s = 1..n /\ \A i \in 1..n : s[i] \in D
  BY LenProperties
<1>2. \A i \in 1..n : id(i) \in Int
  BY <1>1
<1>3. \A i \in 1..n : SortedBefore(s, i) = B(i)
  BY <1>1 DEF SortedBefore
<1> HIDE DEF id
<1>4. ASSUME NEW i \in 1..n PROVE IsFiniteSet(B(i)) /\ rank(i) \in 0..n - 1
  <2>1. PICK C : C = 1..n /\ IsFiniteSet(C) /\ Cardinality(C) = n
    <3>1. 1 \in Int /\ n \in Int
      OBVIOUS
    <3>2. /\ IsFiniteSet(1..n)
          /\ Cardinality(1..n) = IF 1 > n THEN 0 ELSE n - 1 + 1
      BY <3>1, FS_Interval
    <3>3. QED
      BY <3>2
  <2>2. B(i) \in SUBSET C /\ i \in C /\ i \notin B(i)
    BY <1>2, <2>1
  <2>3. PICK b : b = B(i) /\ b \in SUBSET C /\ b # C
    BY <2>2
  <2>4. IsFiniteSet(b) /\ Cardinality(b) <= n /\ Cardinality(b) # n
    BY <2>1, <2>3, FS_Subset
  <2>5. Cardinality(b) \in Nat
    BY <2>4, FS_CardinalityType
  <2>6. QED
    BY <2>3, <2>4, <2>5
<1>5. ASSUME NEW i \in 1..n, NEW j \in 1..n, Pre(i, j) PROVE rank(i) < rank(j)
  <2>1. B(i) \subseteq B(j)
    BY <1>2, <1>5
  <2>2. i \in B(j) /\ i \notin B(i)
    BY <1>2, <1>5
  <2>3. PICK a, b : a = B(i) /\ b = B(j)
    OBVIOUS
  <2>4. a \in SUBSET b /\ a # b
    BY <2>1, <2>2, <2>3
  <2>5. IsFiniteSet(b) /\ Cardinality(a) \in Nat /\ Cardinality(b) \in Nat
    <3>1. IsFiniteSet(B(i)) /\ IsFiniteSet(B(j))
      BY <1>4
    <3>2. QED
      BY <2>3, <3>1, FS_CardinalityType
  <2>6. Cardinality(a) <= Cardinality(b) /\ Cardinality(a) # Cardinality(b)
    BY <2>4, <2>5, FS_Subset
  <2>7. QED
    BY <2>3, <2>5, <2>6
<1>6. \A i, j \in 1..n : i # j => Pre(i, j) \/ Pre(j, i)
  BY <1>2
<1> HIDE DEF B, Pre
<1> HIDE DEF rank
<1>7. ASSUME NEW i \in 1..n, NEW j \in 1..n, rank(i) = rank(j) PROVE i = j
  <2> SUFFICES ASSUME i # j PROVE FALSE
    OBVIOUS
  <2>1. PICK x \in Int : x = rank(i) /\ x = rank(j)
    BY <1>4, <1>7
  <2>2. CASE Pre(i, j)
    <3>1. rank(i) < rank(j)
      BY <1>5, <2>2
    <3>2. x < x
      BY ONLY <2>1, <3>1
    <3>3. QED
      BY ONLY x \in Int, <3>2
  <2>3. CASE Pre(j, i)
    <3>1. rank(j) < rank(i)
      BY <1>5, <2>3
    <3>2. x < x
      BY ONLY <2>1, <3>1
    <3>3. QED
      BY ONLY x \in Int, <3>2
  <2>4. QED
    BY <1>6, <2>2, <2>3
<1>8. PICK place : place = [i \in 1..n |-> rank(i) + 1]
  OBVIOUS
<1>9. Permutes(place, n)
  <2>1. place \in [1..n -> 1..n]
    BY <1>4, <1>8
  <2>2. \A i, j \in 1..n : place[i] = place[j] => i = j
    BY <1>4, <1>7, <1>8
  <2>3. QED
    BY <2>1, <2>2, InjectionPermutes
<1>10. PICK p : p = [k \in 1..n |-> CHOOSE i \in 1..n : rank(i) = k - 1]
  OBVIOUS
<1>11. ASSUME NEW k \in 1..n PROVE p[k] \in 1..n /\ rank(p[k]) = k - 1
  <2>1. PICK i \in 1..n : place[i] = k
    BY <1>9 DEF Permutes
  <2>2. rank(i) \in Int /\ place[i] = rank(i) + 1
    BY <1>4, <1>8
  <2>3. rank(i) = k - 1
    BY <2>1, <2>2
  <2>4. QED
    BY <1>10, <2>3
<1>12. Permutes(p, n)
  <2>1. p \in [1..n -> 1..n]
    BY <1>10, <1>11
  <2>2. \A k, l \in 1..n : p[k] = p[l] => k = l
    BY <1>11
  <2>3. QED
    BY <2>1, <2>2, InjectionPermutes
<1>13. Ordered(s) = [k \in 1..n |-> s[p[k]]]
  <2>1. \A k \in 1..n : (CHOOSE i \in 1..n : Cardinality(SortedBefore(s, i)) = k - 1)
                          = CHOOSE i \in 1..n : rank(i) = k - 1
    BY <1>3 DEF rank
  <2>2. Ordered(s) = [k \in 1..n |-> s[CHOOSE i \in 1..n : Cardinality(SortedBefore(s, i)) = k - 1]]
    BY <1>1 DEF Ordered
  <2>3. ASSUME NEW k \in 1..n
        PROVE  Ordered(s)[k] = s[p[k]]
    BY <1>10, <2>1, <2>2
  <2>4. DOMAIN Ordered(s) = 1..n /\ Ordered(s) = [k \in 1..n |-> Ordered(s)[k]]
    BY <2>2
  <2>5. QED
    BY <2>3, <2>4
<1>14. InOrder(Ordered(s), n)
  <2> SUFFICES ASSUME NEW k \in 1..n, NEW l \in 1..n, k < l
               PROVE  id(p[k]) <= id(p[l])
    BY <1>13 DEF InOrder, id
  <2>1. PICK i, j \in 1..n : i = p[k] /\ j = p[l] /\ rank(i) = k - 1 /\ rank(j) = l - 1
    BY <1>11
  <2>2. ~(rank(j) < rank(i))
    BY <2>1
  <2>3. ~Pre(j, i)
    BY <1>5, <2>2
  <2>4. PICK x, y \in Int : x = id(i) /\ y = id(j)
    BY <1>2
  <2>5. ~(y < x)
    BY <2>3, <2>4 DEF Pre
  <2>6. x <= y
    BY <2>4, <2>5
  <2>7. QED
    BY <2>1, <2>4, <2>6
<1>15. QED
  BY <1>12, <1>13, <1>14

\* The same for the claims of a request.
LEMMA OrderedSorts ==
    ASSUME NEW s \in Seq(Catalogue), NEW n \in Nat, n = Len(s)
    PROVE  \E p : /\ Permutes(p, n)
                  /\ Ordered(s) = [k \in 1..n |-> s[p[k]]]
                  /\ InOrder(Ordered(s), n)
BY OrderedArranges, RequestsAssumption

\* A list has one arrangement in claim_id order, as claims with one id are one
\* claim.
LEMMA SortedIsUnique ==
    ASSUME NEW n \in Nat, NEW v \in [1..n -> Catalogue], NEW w \in [1..n -> Catalogue],
           InOrder(v, n), InOrder(w, n), NEW f, Permutes(f, n), \A i \in 1..n : v[i] = w[f[i]]
    PROVE  v = w
<1> SUFFICES ASSUME NEW k \in 1..n, v[k] # w[k] PROVE FALSE
  OBVIOUS
<1> DEFINE a(i) == claim_id(v[i])
           b(i) == claim_id(w[i])
<1>1. \A i \in 1..n : a(i) \in Int /\ b(i) \in Int
  BY RequestsAssumption
<1>2. a(k) # b(k)
  BY RequestsAssumption
<1>3. \A i \in 1..n : f[i] \in 1..n /\ a(i) = b(f[i])
  BY DEF Permutes
<1>4. \A i, j \in 1..n : i < j => a(i) <= a(j) /\ b(i) <= b(j)
  BY DEF InOrder
<1>5. \A i, j \in 1..n : f[i] = f[j] => i = j
  BY DEF Permutes
<1> HIDE DEF a, b
<1>6. CASE a(k) < b(k)
  <2>1. \A i \in 1..k : f[i] \in 1..k - 1
    <3> SUFFICES ASSUME NEW i \in 1..k PROVE f[i] < k
      BY <1>3
    <3>1. i \in 1..n /\ (i = k \/ i < k)
      OBVIOUS
    <3>2. PICK j \in 1..n : j = f[i] /\ a(i) = b(j)
      BY <1>3, <3>1
    <3>3. a(i) <= a(k)
      BY <1>1, <1>4, <3>1
    <3>4. b(j) < b(k)
      BY <1>1, <1>6, <3>1, <3>2, <3>3
    <3>5. ~(k < j) /\ j # k
      BY <1>1, <1>4, <3>4
    <3>6. QED
      BY <3>2, <3>5
  <2>2. PICK S, T : S = 1..k /\ T = 1..k - 1
    OBVIOUS
  <2>3. IsFiniteSet(S) /\ IsFiniteSet(T) /\ Cardinality(S) = k /\ Cardinality(T) = k - 1
    BY <2>2, FS_Interval
  <2>4. PICK g : g = [i \in S |-> f[i]]
    OBVIOUS
  <2>5. g \in [S -> T] /\ Cardinality(T) < Cardinality(S)
    BY <2>1, <2>2, <2>3, <2>4
  <2>6. \E i, j \in S : i # j /\ g[i] = g[j]
    BY <2>3, <2>5, FS_PigeonHole
  <2>7. QED
    BY <1>5, <2>2, <2>4, <2>6
<1>7. CASE b(k) < a(k)
  <2>1. \A i \in k..n : f[i] \in k + 1..n
    <3> SUFFICES ASSUME NEW i \in k..n PROVE f[i] > k
      BY <1>3
    <3>1. i \in 1..n /\ (i = k \/ k < i)
      OBVIOUS
    <3>2. PICK j \in 1..n : j = f[i] /\ a(i) = b(j)
      BY <1>3, <3>1
    <3>3. a(k) <= a(i)
      BY <1>1, <1>4, <3>1
    <3>4. b(k) < b(j)
      BY <1>1, <1>7, <3>1, <3>2, <3>3
    <3>5. ~(j < k) /\ j # k
      BY <1>1, <1>4, <3>4
    <3>6. QED
      BY <3>2, <3>5
  <2>2. PICK S, T : S = k..n /\ T = k + 1..n
    OBVIOUS
  <2>3. IsFiniteSet(S) /\ IsFiniteSet(T) /\ Cardinality(S) = n - k + 1 /\ Cardinality(T) = n - k
    <3>1. k \in Int /\ n \in Int /\ k + 1 \in Int /\ k <= n
      OBVIOUS
    <3>2. Cardinality(k..n) = n - k + 1
      BY <3>1, FS_Interval
    <3>3. Cardinality(k + 1..n) = IF k + 1 > n THEN 0 ELSE n - (k + 1) + 1
      BY <3>1, FS_Interval
    <3>4. QED
      BY <2>2, <3>1, <3>2, <3>3, FS_Interval
  <2>4. PICK g : g = [i \in S |-> f[i]]
    OBVIOUS
  <2>5. g \in [S -> T] /\ Cardinality(T) < Cardinality(S)
    BY <2>1, <2>2, <2>3, <2>4
  <2>6. \E i, j \in S : i # j /\ g[i] = g[j]
    BY <2>3, <2>5, FS_PigeonHole
  <2>7. QED
    BY <1>5, <2>2, <2>4, <2>6
<1>8. QED
  BY <1>1, <1>2, <1>6, <1>7

\* Whatever arranges the claims of a request in claim_id order is what the sort
\* gives.
LEMMA SortedIsOrdered ==
    ASSUME NEW s \in Seq(Catalogue), NEW n \in Nat, n = Len(s),
           NEW w, NEW r, Permutes(r, n), w = [k \in 1..n |-> s[r[k]]], InOrder(w, n)
    PROVE  w = Ordered(s)
<1>1. \A i \in 1..n : s[i] \in Catalogue
  BY LenProperties
<1>2. PICK p : /\ Permutes(p, n)
               /\ Ordered(s) = [k \in 1..n |-> s[p[k]]]
               /\ InOrder(Ordered(s), n)
  BY OrderedSorts
<1>3. PICK o : o = Ordered(s)
  OBVIOUS
<1>4. w \in [1..n -> Catalogue] /\ o \in [1..n -> Catalogue]
  <2>1. \A k \in 1..n : r[k] \in 1..n /\ p[k] \in 1..n
    BY <1>2 DEF Permutes
  <2>2. w = [k \in 1..n |-> s[r[k]]] /\ o = [k \in 1..n |-> s[p[k]]]
    BY <1>2, <1>3
  <2>3. QED
    BY <1>1, <2>1, <2>2
<1>5. PICK f : f = [k \in 1..n |-> CHOOSE i \in 1..n : p[i] = r[k]]
  OBVIOUS
<1>6. \A k \in 1..n : f[k] \in 1..n /\ p[f[k]] = r[k]
  <2> SUFFICES ASSUME NEW k \in 1..n PROVE f[k] \in 1..n /\ p[f[k]] = r[k]
    OBVIOUS
  <2>1. \E i \in 1..n : p[i] = r[k]
    BY <1>2 DEF Permutes
  <2>2. QED
    BY <1>5, <2>1
<1>7. Permutes(f, n)
  <2>1. f \in [1..n -> 1..n]
    BY <1>5, <1>6
  <2>2. ASSUME NEW k \in 1..n, NEW l \in 1..n, f[k] = f[l] PROVE k = l
    <3>1. r[k] = r[l]
      BY <1>6, <2>2
    <3>2. QED
      BY <3>1 DEF Permutes
  <2>3. QED
    BY <2>1, <2>2, InjectionPermutes
<1>8. \A k \in 1..n : w[k] = o[f[k]]
  BY <1>2, <1>3, <1>6
<1>9. InOrder(o, n)
  BY <1>2, <1>3
<1>10. w = o
  BY <1>4, <1>7, <1>8, <1>9, SortedIsUnique
<1>11. QED
  BY <1>3, <1>10

\* The same claims in another order are sorted to the same list.
LEMMA ArrivalIsForgotten ==
    ASSUME NEW s \in Seq(Catalogue), NEW n \in Nat, n = Len(s), NEW p, Permutes(p, n),
           NEW u, u = [i \in 1..n |-> s[p[i]]]
    PROVE  u \in Seq(Catalogue) /\ Ordered(u) = Ordered(s)
<1>1. \A i \in 1..n : s[i] \in Catalogue
  BY LenProperties
<1>2. u \in [1..n -> Catalogue]
  BY <1>1 DEF Permutes
<1>3. u \in Seq(Catalogue) /\ Len(u) = n
  <2>1. u \in Seq(Catalogue)
    BY <1>2, SeqDef
  <2>2. QED
    BY <1>2, <2>1, LenProperties
<1>4. PICK q : /\ Permutes(q, n)
               /\ Ordered(u) = [k \in 1..n |-> u[q[k]]]
               /\ InOrder(Ordered(u), n)
  BY <1>3, OrderedSorts
<1>5. PICK r : r = [k \in 1..n |-> p[q[k]]]
  OBVIOUS
<1>6. Permutes(r, n)
  <2>1. r \in [1..n -> 1..n]
    BY <1>4, <1>5 DEF Permutes
  <2>2. ASSUME NEW k \in 1..n, NEW l \in 1..n, r[k] = r[l] PROVE k = l
    <3>1. q[k] \in 1..n /\ q[l] \in 1..n /\ p[q[k]] = p[q[l]]
      BY <1>4, <1>5, <2>2 DEF Permutes
    <3>2. \A i, j \in 1..n : p[i] = p[j] => i = j
      BY DEF Permutes
    <3>3. q[k] = q[l]
      BY <3>1, <3>2
    <3>4. QED
      BY <1>4, <3>3 DEF Permutes
  <2>3. QED
    BY <2>1, <2>2, InjectionPermutes
<1>7. PICK w : w = Ordered(u)
  OBVIOUS
<1>8. w = [k \in 1..n |-> s[r[k]]] /\ InOrder(w, n)
  <2>1. \A k \in 1..n : u[q[k]] = s[r[k]]
    BY <1>4, <1>5 DEF Permutes
  <2>2. QED
    BY <1>4, <1>7, <2>1
<1>9. w = Ordered(s)
  BY <1>6, <1>8, SortedIsOrdered
<1>10. QED
  BY <1>3, <1>7, <1>9

-----------------------------------------------------------------------------
(* Determinism.                                                            *)

\* A verdict reads the claims only through their sorted list.
LEMMA VerdictReadsOrdered ==
    ASSUME NEW s, NEW u, Ordered(s) = Ordered(u)
    PROVE  VerdictOf(s) = VerdictOf(u)
<1>1. Usable(s, Scoring(policy)) = Usable(u, Scoring(policy))
  BY DEF Usable
<1>2. QED
  BY <1>1 DEF VerdictOf, adjudicate, NothingUsable

\* Requests are lists of claims.
THEOREM RequestsTypeCorrect == RequestSpec => []RequestTypeOK
<1>1. RequestInit => RequestTypeOK
  BY RequestsAssumption, EmptySeq DEF RequestInit, RequestTypeOK
<1>2. RequestTypeOK /\ [RequestNext]_requestVars => RequestTypeOK'
  <2> SUFFICES ASSUME RequestTypeOK, [RequestNext]_requestVars PROVE RequestTypeOK'
    OBVIOUS
  <2>1. CASE UNCHANGED requestVars
    BY <2>1 DEF RequestTypeOK, requestVars
  <2>2. ASSUME NEW c \in Catalogue, Submit(c) PROVE RequestTypeOK'
    <3>1. claims' \in Seq(Catalogue) /\ Len(claims') = Len(claims) + 1
      BY <2>2, AppendProperties DEF RequestTypeOK, Submit
    <3>2. Len(claims) \in Nat
      BY LenProperties DEF RequestTypeOK
    <3>3. QED
      BY <2>2, <3>1, <3>2, RequestsAssumption DEF RequestTypeOK, Submit
  <2>3. QED
    BY <2>1, <2>2 DEF RequestNext
<1>3. QED
  BY <1>1, <1>2, PTL DEF RequestSpec

\* Determinism (invariant I1): the verdict on a request of any length is
\* independent of the order its claims arrived in (lib.rs:48-53), whatever the
\* sums do on the way.
THEOREM Determinism == RequestSpec => []OrderIndependent
<1>1. RequestTypeOK => OrderIndependent
  <2> SUFFICES ASSUME RequestTypeOK, NEW p \in Bijection(DOMAIN claims, DOMAIN claims)
               PROVE  VerdictOf([i \in DOMAIN claims |-> claims[p[i]]]) = Verdict
    BY DEF OrderIndependent
  <2>1. PICK s : s = claims
    OBVIOUS
  <2>2. PICK n \in Nat : s \in Seq(Catalogue) /\ n = Len(s) /\ DOMAIN s = 1..n
    BY <2>1, LenProperties DEF RequestTypeOK
  <2>3. Permutes(p, n)
    <3>1. PICK D : D = 1..n
      OBVIOUS
    <3>2. p \in Bijection(D, D)
      BY <2>1, <2>2, <3>1
    <3>3. p \in [D -> D] /\ (\A k, l \in D : p[k] = p[l] => k = l) /\ \A i \in D : \E k \in D : p[k] = i
      BY <3>2, Zenon DEF Bijection, Injection, Surjection, IsInjective
    <3>4. QED
      BY <3>1, <3>3 DEF Permutes
  <2>4. PICK u : u = [i \in 1..n |-> s[p[i]]]
    OBVIOUS
  <2>5. Ordered(u) = Ordered(s)
    BY <2>2, <2>3, <2>4, ArrivalIsForgotten
  <2>6. VerdictOf(u) = VerdictOf(s)
    BY <2>5, VerdictReadsOrdered
  <2>7. QED
    BY <2>1, <2>2, <2>4, <2>6 DEF Verdict
<1>2. QED
  BY <1>1, RequestsTypeCorrect, PTL

-----------------------------------------------------------------------------
(* Saturating sums.                                                        *)

\* The numbers of the score arithmetic.
I64 == MinInt..MaxInt

\* Saturating addition is monotone, and exact where the sum has a place.
LEMMA SatAddFacts ==
    ASSUME NEW x \in Int, NEW y \in Int
    PROVE  /\ SatAdd(x, y) \in I64
           /\ \A u, v \in Int : u <= x /\ v <= y => SatAdd(u, v) <= SatAdd(x, y)
           /\ x \in I64 /\ y >= 0 => SatAdd(x, y) >= x
           /\ x + y \in I64 => SatAdd(x, y) = x + y
BY KernelAssumption DEF SatAdd, Clamp, I64, MinInt

\* The loop of a saturating sum, step by step.
LEMMA SatSumSteps ==
    ASSUME NEW s, NEW n \in Nat, s \in [1..n -> Int]
    PROVE  \E acc \in [0..n -> I64] :
              /\ acc[0] = 0
              /\ \A k \in 1..n : acc[k] = SatAdd(acc[k - 1], s[k])
              /\ SatSum(s) = acc[n]
<1> DEFINE Upto(m, f) == f = [k \in 0..m |-> IF k = 0 THEN 0 ELSE SatAdd(f[k - 1], s[k])]
           S == {m \in Nat : \E f : Upto(m, f)}
<1>1. 0 \in S
  <2>1. Upto(0, [k \in 0..0 |-> 0])
    OBVIOUS
  <2>2. QED
    BY <2>1
<1>2. \A m \in Nat : m \in S => m + 1 \in S
  <2> HIDE DEF Upto
  <2> SUFFICES ASSUME NEW m \in Nat, NEW f, Upto(m, f) PROVE \E g : Upto(m + 1, g)
    OBVIOUS
  <2> USE DEF Upto
  <2> DEFINE g == [k \in 0..m + 1 |-> IF k = m + 1 THEN SatAdd(f[m], s[m + 1]) ELSE f[k]]
  <2>1. ASSUME NEW k \in 0..m + 1
        PROVE  g[k] = IF k = 0 THEN 0 ELSE SatAdd(g[k - 1], s[k])
    <3>1. CASE k = 0
      BY <3>1
    <3>2. CASE k = m + 1
      <4>1. k - 1 = m /\ m \in 0..m + 1 /\ m # m + 1 /\ k # 0
        BY <3>2
      <4>2. QED
        BY <3>2, <4>1
    <3>3. CASE k \in 1..m
      <4>1. /\ k \in 0..m /\ k # 0 /\ k # m + 1
            /\ k - 1 \in 0..m + 1 /\ k - 1 # m + 1
        BY <3>3
      <4>2. f[k] = SatAdd(f[k - 1], s[k])
        BY <4>1
      <4>3. QED
        BY <4>1, <4>2
    <3>4. QED
      BY <3>1, <3>2, <3>3
  <2>2. Upto(m + 1, g)
    BY <2>1
  <2>3. QED
    <3> HIDE DEF g, Upto
    <3> QED
      BY <2>2
<1>3. Nat \subseteq S
  <2> HIDE DEF S
  <2> QED
    BY <1>1, <1>2, Induction
<1>4. Upto(n, CHOOSE f : Upto(n, f))
  <2> HIDE DEF Upto
  <2> QED
    BY <1>3
<1>5. Len(s) = n
  <2>1. s \in Seq(Int)
    BY SeqDef
  <2>2. QED
    BY <2>1, LenProperties
<1>6. SatSum(s) = (CHOOSE f : Upto(n, f))[n]
  BY <1>5 DEF SatSum
<1>7. PICK acc : Upto(n, acc) /\ SatSum(s) = acc[n]
  BY <1>4, <1>6
<1>8. acc[0] = 0 /\ \A k \in 1..n : acc[k] = SatAdd(acc[k - 1], s[k])
  <2>1. \A k \in 1..n : k \in 0..n /\ k # 0
    OBVIOUS
  <2>2. QED
    BY <1>7, <2>1
<1> DEFINE T == {k \in Nat : k <= n => acc[k] \in I64}
<1>9. 0 \in T
  BY <1>8, KernelAssumption DEF I64, MinInt
<1>10. \A k \in Nat : k \in T => k + 1 \in T
  <2> SUFFICES ASSUME NEW k \in Nat, k \in T, k + 1 <= n PROVE acc[k + 1] \in I64
    OBVIOUS
  <2>1. k + 1 \in 1..n /\ (k + 1) - 1 = k /\ acc[k] \in I64
    OBVIOUS
  <2>2. acc[k] \in Int /\ s[k + 1] \in Int
    BY <2>1, KernelAssumption DEF I64, MinInt
  <2>3. QED
    BY <1>8, <2>1, <2>2, SatAddFacts
<1>11. Nat \subseteq T
  <2> HIDE DEF T
  <2> QED
    BY <1>9, <1>10, Induction
<1>12. acc \in [0..n -> I64]
  BY <1>7, <1>11
<1>13. QED
  BY <1>7, <1>8, <1>12

\* Larger numbers have a larger sum.
LEMMA SatSumMonotone ==
    ASSUME NEW n \in Nat, NEW s \in [1..n -> Int], NEW t \in [1..n -> Int],
           \A k \in 1..n : s[k] <= t[k]
    PROVE  SatSum(s) \in I64 /\ SatSum(t) \in I64 /\ SatSum(s) <= SatSum(t)
<1>1. PICK a \in [0..n -> I64] : /\ a[0] = 0
                                 /\ \A k \in 1..n : a[k] = SatAdd(a[k - 1], s[k])
                                 /\ SatSum(s) = a[n]
  BY SatSumSteps
<1>2. PICK b \in [0..n -> I64] : /\ b[0] = 0
                                 /\ \A k \in 1..n : b[k] = SatAdd(b[k - 1], t[k])
                                 /\ SatSum(t) = b[n]
  BY SatSumSteps
<1>3. \A k \in 0..n : a[k] \in Int /\ b[k] \in Int
  BY KernelAssumption DEF I64, MinInt
<1> DEFINE T == {k \in Nat : k <= n => a[k] <= b[k]}
<1>4. 0 \in T
  BY <1>1, <1>2
<1>5. \A k \in Nat : k \in T => k + 1 \in T
  <2> SUFFICES ASSUME NEW k \in Nat, k \in T, k + 1 <= n PROVE a[k + 1] <= b[k + 1]
    OBVIOUS
  <2>1. k + 1 \in 1..n /\ (k + 1) - 1 = k /\ a[k] <= b[k] /\ k \in 0..n
    OBVIOUS
  <2>2. a[k + 1] = SatAdd(a[k], s[k + 1]) /\ b[k + 1] = SatAdd(b[k], t[k + 1])
    BY <1>1, <1>2, <2>1
  <2>3. /\ a[k] \in Int /\ b[k] \in Int /\ s[k + 1] \in Int /\ t[k + 1] \in Int
        /\ s[k + 1] <= t[k + 1]
    BY <1>3, <2>1
  <2>4. QED
    BY <2>1, <2>2, <2>3, SatAddFacts
<1>6. Nat \subseteq T
  <2> HIDE DEF T
  <2> QED
    BY <1>4, <1>5, Induction
<1>7. n \in T /\ n <= n /\ n \in 0..n
  BY <1>6
<1>8. QED
  BY <1>1, <1>2, <1>7

\* t is s with x put in at place q.
Inserts(t, s, n, q, x) ==
    /\ q \in 1..n + 1
    /\ t[q] = x
    /\ \A i \in 1..n : (i < q => t[i] = s[i]) /\ (i >= q => t[i + 1] = s[i])

\* So has a list with one more number that is not negative.
LEMMA SatSumInserts ==
    ASSUME NEW n \in Nat, NEW s \in [1..n -> Int], NEW t \in [1..n + 1 -> Int],
           NEW q, NEW x \in Int, x >= 0, Inserts(t, s, n, q, x)
    PROVE  SatSum(s) \in I64 /\ SatSum(t) \in I64 /\ SatSum(s) <= SatSum(t)
<1>1. PICK a \in [0..n -> I64] : /\ a[0] = 0
                                 /\ \A k \in 1..n : a[k] = SatAdd(a[k - 1], s[k])
                                 /\ SatSum(s) = a[n]
  BY SatSumSteps
<1>2. PICK b \in [0..n + 1 -> I64] : /\ b[0] = 0
                                     /\ \A k \in 1..n + 1 : b[k] = SatAdd(b[k - 1], t[k])
                                     /\ SatSum(t) = b[n + 1]
  <2>1. PICK m \in Nat : m = n + 1
    OBVIOUS
  <2>2. \E b \in [0..m -> I64] : /\ b[0] = 0
                                 /\ \A k \in 1..m : b[k] = SatAdd(b[k - 1], t[k])
                                 /\ SatSum(t) = b[m]
    BY <2>1, SatSumSteps
  <2>3. QED
    BY <2>1, <2>2
<1>3. /\ \A k \in 0..n : a[k] \in Int /\ a[k] \in I64
      /\ \A k \in 0..n + 1 : b[k] \in Int
  BY KernelAssumption DEF I64, MinInt
<1>4. q \in 1..n + 1 /\ t[q] = x
  BY DEF Inserts
<1> DEFINE T == {k \in Nat : k < q => a[k] = b[k]}
<1>5. Nat \subseteq T
  <2>1. 0 \in T
    BY <1>1, <1>2
  <2>2. \A k \in Nat : k \in T => k + 1 \in T
    <3> SUFFICES ASSUME NEW k \in Nat, k \in T, k + 1 < q PROVE a[k + 1] = b[k + 1]
      OBVIOUS
    <3>1. k + 1 \in 1..n /\ k + 1 \in 1..n + 1 /\ (k + 1) - 1 = k /\ a[k] = b[k]
      BY <1>4
    <3>2. t[k + 1] = s[k + 1]
      BY <3>1 DEF Inserts
    <3>3. QED
      BY <1>1, <1>2, <3>1, <3>2
  <2>3. QED
    <3> HIDE DEF T
    <3> QED
      BY <2>1, <2>2, Induction
<1> DEFINE U == {k \in Nat : k <= n /\ q <= k + 1 => a[k] <= b[k + 1]}
<1>6. ASSUME NEW k \in 0..n, q = k + 1 PROVE a[k] <= b[k + 1]
  <2>1. k \in Nat /\ k + 1 \in 1..n + 1 /\ (k + 1) - 1 = k /\ a[k] = b[k] /\ t[k + 1] = x
    BY <1>4, <1>5, <1>6
  <2>2. b[k + 1] = SatAdd(a[k], x)
    BY <1>2, <2>1
  <2>3. a[k] \in Int /\ a[k] \in I64 /\ b[k + 1] \in Int
    BY <1>3, <2>1
  <2>4. SatAdd(a[k], x) >= a[k]
    BY <2>3, SatAddFacts
  <2>5. QED
    BY <2>2, <2>3, <2>4
<1>7. 0 \in U
  <2> SUFFICES ASSUME q <= 0 + 1 PROVE a[0] <= b[0 + 1]
    OBVIOUS
  <2>1. q = 0 + 1 /\ 0 \in 0..n
    BY <1>4
  <2>2. QED
    BY <1>6, <2>1
<1>8. \A k \in Nat : k \in U => k + 1 \in U
  <2> SUFFICES ASSUME NEW k \in Nat, k \in U, k + 1 <= n, q <= (k + 1) + 1
               PROVE  a[k + 1] <= b[(k + 1) + 1]
    <3>1. \A k \in Nat : k + 1 \in Nat
      OBVIOUS
    <3>2. QED
      BY <3>1
  <2>0. (k + 1) + 1 = k + 2
    OBVIOUS
  <2>1. CASE q = k + 2
    <3>1. PICK m \in 0..n : m = k + 1 /\ m + 1 = k + 2
      OBVIOUS
    <3>2. QED
      BY <1>6, <2>0, <2>1, <3>1
  <2>2. CASE q <= k + 1
    <3>1. /\ k + 1 \in 1..n /\ (k + 1) - 1 = k /\ k + 2 \in 1..n + 1 /\ (k + 2) - 1 = k + 1
          /\ a[k] <= b[k + 1] /\ k \in 0..n /\ k + 1 \in 0..n + 1
      BY <2>2
    <3>2. PICK m \in 1..n : m = k + 1
      BY <3>1
    <3>3. m >= q /\ m + 1 = k + 2
      BY <1>4, <2>2, <3>2
    <3>4. t[m + 1] = s[m]
      BY <3>3 DEF Inserts
    <3>5. a[k + 1] = SatAdd(a[k], s[k + 1]) /\ b[k + 2] = SatAdd(b[k + 1], t[k + 2])
      BY <1>1, <1>2, <3>1
    <3>6. t[k + 2] = s[k + 1] /\ s[k + 1] \in Int /\ a[k] \in Int /\ b[k + 1] \in Int
      BY <1>3, <3>1, <3>2, <3>3, <3>4
    <3>7. SatAdd(a[k], s[k + 1]) <= SatAdd(b[k + 1], s[k + 1])
      BY <3>1, <3>6, SatAddFacts
    <3>8. QED
      BY <2>0, <3>5, <3>6, <3>7
  <2>3. QED
    BY <1>4, <2>0, <2>1, <2>2
<1>9. Nat \subseteq U
  <2> HIDE DEF U
  <2> QED
    BY <1>7, <1>8, Induction
<1>10. n \in U /\ n <= n /\ q <= n + 1 /\ n \in 0..n /\ n + 1 \in 0..n + 1
  BY <1>4, <1>9
<1>11. a[n] <= b[n + 1]
  BY <1>10
<1>12. QED
  BY <1>1, <1>2, <1>10, <1>11

\* Nothing adds up to nothing.
LEMMA SatSumOfZeros ==
    ASSUME NEW n \in Nat, NEW s \in [1..n -> Int], \A k \in 1..n : s[k] = 0
    PROVE  SatSum(s) = 0
<1>1. PICK a \in [0..n -> I64] : /\ a[0] = 0
                                 /\ \A k \in 1..n : a[k] = SatAdd(a[k - 1], s[k])
                                 /\ SatSum(s) = a[n]
  BY SatSumSteps
<1>2. SatAdd(0, 0) = 0
  BY SatAddFacts, KernelAssumption DEF I64, MinInt
<1> DEFINE T == {k \in Nat : k <= n => a[k] = 0}
<1>3. 0 \in T
  BY <1>1
<1>4. \A k \in Nat : k \in T => k + 1 \in T
  <2> SUFFICES ASSUME NEW k \in Nat, k \in T, k + 1 <= n PROVE a[k + 1] = 0
    OBVIOUS
  <2>1. k + 1 \in 1..n /\ (k + 1) - 1 = k /\ a[k] = 0 /\ s[k + 1] = 0
    OBVIOUS
  <2>2. QED
    BY <1>1, <1>2, <2>1
<1>5. Nat \subseteq T
  <2> HIDE DEF T
  <2> QED
    BY <1>3, <1>4, Induction
<1>6. QED
  BY <1>1, <1>5

-----------------------------------------------------------------------------
(* One more claim.                                                         *)

\* The sort puts one more claim somewhere, and leaves the others as they were.
LEMMA OrderedInserts ==
    ASSUME NEW s \in Seq(Catalogue), NEW n \in Nat, n = Len(s), NEW c \in Catalogue
    PROVE  /\ Append(s, c) \in Seq(Catalogue) /\ Len(Append(s, c)) = n + 1
           /\ Ordered(s) \in [1..n -> Catalogue]
           /\ Ordered(Append(s, c)) \in [1..n + 1 -> Catalogue]
           /\ \E q : Inserts(Ordered(Append(s, c)), Ordered(s), n, q, c)
<1>1. PICK t : t = Append(s, c)
  OBVIOUS
<1>2. /\ t \in Seq(Catalogue) /\ Len(t) = n + 1
      /\ \A i \in 1..n : t[i] = s[i] /\ s[i] \in Catalogue
      /\ t[n + 1] = c
  BY <1>1, AppendProperties, LenProperties
<1>3. PICK p : /\ Permutes(p, n)
               /\ Ordered(s) = [k \in 1..n |-> s[p[k]]]
               /\ InOrder(Ordered(s), n)
  BY OrderedSorts
<1>4. PICK o : o = Ordered(s)
  OBVIOUS
<1>5. /\ \A k \in 1..n : p[k] \in 1..n /\ o[k] = s[p[k]] /\ o[k] \in Catalogue
      /\ \A k, l \in 1..n : p[k] = p[l] => k = l
      /\ \A k, l \in 1..n : k < l => claim_id(o[k]) <= claim_id(o[l])
  <2>1. \A k \in 1..n : p[k] \in 1..n
    BY <1>3 DEF Permutes
  <2>2. \A k \in 1..n : o[k] = s[p[k]] /\ s[p[k]] \in Catalogue
    BY <1>2, <1>3, <1>4, <2>1
  <2>3. QED
    BY <1>3, <1>4, <2>1, <2>2 DEF Permutes, InOrder
<1>6. claim_id(c) \in Int /\ \A k \in 1..n : claim_id(o[k]) \in Int
  BY <1>5, RequestsAssumption
<1> DEFINE K == {k \in 1..n + 1 : k = n + 1 \/ claim_id(o[k]) > claim_id(c)}
<1>7. PICK q \in 1..n + 1 : /\ q = n + 1 \/ claim_id(o[q]) > claim_id(c)
                            /\ \A k \in 1..n : k < q => claim_id(o[k]) <= claim_id(c)
  <2>1. K \in SUBSET Nat /\ n + 1 \in K
    OBVIOUS
  <2>2. PICK q \in K : \A k \in K : q <= k
    <3> HIDE DEF K
    <3> QED
      BY <2>1, LeastExists
  <2>3. \A k \in 1..n : k < q => claim_id(o[k]) <= claim_id(c)
    BY <1>6, <2>2
  <2>4. QED
    BY <2>2, <2>3
<1>8. \A k \in 1..n : q <= k => claim_id(o[k]) >= claim_id(c)
  <2> SUFFICES ASSUME NEW k \in 1..n, q <= k PROVE claim_id(o[k]) >= claim_id(c)
    OBVIOUS
  <2>1. q \in 1..n /\ claim_id(o[q]) > claim_id(c) /\ (q = k \/ q < k)
    BY <1>7
  <2>2. q < k => claim_id(o[q]) <= claim_id(o[k])
    BY <1>5, <2>1
  <2>3. QED
    BY <1>6, <2>1, <2>2
<1>9. PICK w, r : /\ w = [i \in 1..n + 1 |-> IF i < q THEN o[i] ELSE IF i = q THEN c ELSE o[i - 1]]
                  /\ r = [i \in 1..n + 1 |-> IF i < q THEN p[i] ELSE IF i = q THEN n + 1 ELSE p[i - 1]]
  OBVIOUS
<1>10. ASSUME NEW i \in 1..n + 1
       PROVE  \/ i < q /\ i \in 1..n /\ w[i] = o[i] /\ r[i] = p[i]
              \/ i = q /\ w[i] = c /\ r[i] = n + 1
              \/ i > q /\ i - 1 \in 1..n /\ q <= i - 1 /\ w[i] = o[i - 1] /\ r[i] = p[i - 1]
  <2>1. \/ i < q /\ i \in 1..n
        \/ i = q
        \/ i > q /\ ~(i < q) /\ i # q /\ i - 1 \in 1..n /\ q <= i - 1
    OBVIOUS
  <2>2. QED
    BY <1>9, <2>1
<1>11. \A i \in 1..n + 1 : r[i] \in 1..n + 1 /\ w[i] = t[r[i]] /\ w[i] \in Catalogue
  <2> SUFFICES ASSUME NEW i \in 1..n + 1
               PROVE  r[i] \in 1..n + 1 /\ w[i] = t[r[i]] /\ w[i] \in Catalogue
    OBVIOUS
  <2>1. \A k \in 1..n : p[k] \in 1..n + 1 /\ t[p[k]] = o[k] /\ o[k] \in Catalogue
    BY <1>2, <1>5
  <2>2. CASE i < q /\ i \in 1..n /\ w[i] = o[i] /\ r[i] = p[i]
    BY <2>1, <2>2
  <2>3. CASE i = q /\ w[i] = c /\ r[i] = n + 1
    <3>1. n + 1 \in 1..n + 1
      OBVIOUS
    <3>2. t[n + 1] = c /\ c \in Catalogue
      BY <1>2
    <3>3. QED
      BY <2>3, <3>1, <3>2
  <2>4. CASE i > q /\ i - 1 \in 1..n /\ q <= i - 1 /\ w[i] = o[i - 1] /\ r[i] = p[i - 1]
    <3>1. PICK k \in 1..n : k = i - 1
      BY <2>4
    <3>2. w[i] = o[k] /\ r[i] = p[k]
      BY <2>4, <3>1
    <3>3. QED
      BY <2>1, <3>2
  <2>5. QED
    BY <1>10, <2>2, <2>3, <2>4
<1>12. ASSUME NEW i \in 1..n + 1, NEW j \in 1..n + 1, i < j
       PROVE  r[i] # r[j] /\ claim_id(w[i]) <= claim_id(w[j])
  <2>1. CASE j < q
    <3>1. i < q
      BY <1>12, <2>1
    <3>2. i \in 1..n /\ j \in 1..n /\ w[i] = o[i] /\ w[j] = o[j] /\ r[i] = p[i] /\ r[j] = p[j]
      BY <1>10, <2>1, <3>1
    <3>3. QED
      BY <1>5, <1>12, <3>2
  <2>2. CASE j = q
    <3>1. i < q
      BY <1>12, <2>2
    <3>2. i \in 1..n /\ w[i] = o[i] /\ w[j] = c /\ r[i] = p[i] /\ r[j] = n + 1
      BY <1>10, <2>2, <3>1
    <3>3. p[i] # n + 1
      BY <1>5, <3>2
    <3>4. QED
      BY <1>7, <3>1, <3>2, <3>3
  <2>3. CASE j > q
    <3>1. PICK l \in 1..n : l = j - 1 /\ q <= l /\ w[j] = o[l] /\ r[j] = p[l]
      BY <1>10, <2>3
    <3>2. CASE i < q
      <4>1. i \in 1..n /\ w[i] = o[i] /\ r[i] = p[i] /\ i < l
        BY <1>10, <3>1, <3>2
      <4>2. QED
        BY <1>5, <3>1, <4>1
    <3>3. CASE i = q
      <4>1. w[i] = c /\ r[i] = n + 1 /\ p[l] # n + 1 /\ claim_id(o[l]) >= claim_id(c)
        BY <1>5, <1>8, <1>10, <3>1, <3>3
      <4>2. QED
        BY <1>6, <3>1, <4>1
    <3>4. CASE i > q
      <4>1. PICK k \in 1..n : k = i - 1 /\ w[i] = o[k] /\ r[i] = p[k]
        BY <1>10, <3>4
      <4>2. k < l
        BY <1>12, <3>1, <4>1
      <4>3. QED
        BY <1>5, <3>1, <4>1, <4>2
    <3>5. QED
      BY <3>2, <3>3, <3>4
  <2>4. QED
    BY <2>1, <2>2, <2>3
<1>13. PICK m \in Nat : m = n + 1
  OBVIOUS
<1>14. Permutes(r, m)
  <2>1. r \in [1..m -> 1..m]
    BY <1>9, <1>11, <1>13
  <2>2. ASSUME NEW i \in 1..m, NEW j \in 1..m, r[i] = r[j] PROVE i = j
    <3>1. i < j \/ j < i \/ i = j
      OBVIOUS
    <3>2. QED
      BY <1>12, <1>13, <2>2, <3>1
  <2>3. QED
    BY <2>1, <2>2, InjectionPermutes
<1>15. w = [i \in 1..m |-> t[r[i]]]
  BY <1>9, <1>11, <1>13
<1>16. InOrder(w, m)
  BY <1>12, <1>13 DEF InOrder
<1>17. w = Ordered(t)
  BY <1>2, <1>13, <1>14, <1>15, <1>16, SortedIsOrdered
<1>18. Inserts(w, o, n, q, c)
  <2>1. w[q] = c
    BY <1>10
  <2>2. ASSUME NEW i \in 1..n PROVE (i < q => w[i] = o[i]) /\ (i >= q => w[i + 1] = o[i])
    <3>1. i < q => w[i] = o[i]
      <4>1. i \in 1..n + 1
        OBVIOUS
      <4>2. QED
        BY <1>10, <4>1
    <3>2. i >= q => w[i + 1] = o[i]
      <4>1. i + 1 \in 1..n + 1 /\ (i + 1) - 1 = i
        OBVIOUS
      <4>2. i >= q => ~(i + 1 < q) /\ i + 1 # q
        OBVIOUS
      <4>3. QED
        BY <1>9, <4>1, <4>2
    <3>3. QED
      BY <3>1, <3>2
  <2>3. QED
    BY <2>1, <2>2 DEF Inserts
<1>19. o \in [1..n -> Catalogue] /\ w \in [1..n + 1 -> Catalogue]
  BY <1>3, <1>4, <1>5, <1>9, <1>11
<1>20. QED
  BY <1>1, <1>2, <1>4, <1>17, <1>18, <1>19

\* The claims of D that the loop of adjudicate does not skip.
Counted(D, P) == {c \in D : Counts(c, P)}

\* f[k] is `contributing` after k of the n sorted claims o, which are of D.
PushedFrom(D, f, o, n, P) ==
    /\ f \in [0..n -> Seq(Counted(D, P))]
    /\ f[0] = <<>>
    /\ \A k \in 1..n : f[k] = IF Counts(o[k], P) THEN Append(f[k - 1], o[k]) ELSE f[k - 1]

\* The loop of adjudicate over the sorted claims, step by step.
LEMMA UsableUnfolds ==
    ASSUME NEW D, NEW s, NEW P, NEW n \in Nat, Ordered(s) \in [1..n -> D]
    PROVE  \E f : PushedFrom(D, f, Ordered(s), n, P) /\ Usable(s, P) = f[n]
<1>0. PICK o \in [1..n -> D] : o = Ordered(s)
  OBVIOUS
<1> DEFINE Push(k, l) == IF Counts(o[k], P) THEN Append(l, o[k]) ELSE l
           Upto(m, f) == f = [k \in 0..m |-> IF k = 0 THEN <<>> ELSE Push(k, f[k - 1])]
           S == {m \in Nat : \E f : Upto(m, f)}
<1> HIDE DEF Push
<1>1. 0 \in S
  <2>1. Upto(0, [k \in 0..0 |-> <<>>])
    OBVIOUS
  <2>2. QED
    BY <2>1
<1>2. \A m \in Nat : m \in S => m + 1 \in S
  <2> HIDE DEF Upto
  <2> SUFFICES ASSUME NEW m \in Nat, NEW f, Upto(m, f) PROVE \E g : Upto(m + 1, g)
    OBVIOUS
  <2> USE DEF Upto
  <2> DEFINE g == [k \in 0..m + 1 |-> IF k = m + 1 THEN Push(m + 1, f[m]) ELSE f[k]]
  <2>1. ASSUME NEW k \in 0..m + 1
        PROVE  g[k] = IF k = 0 THEN <<>> ELSE Push(k, g[k - 1])
    <3>1. CASE k = 0
      BY <3>1
    <3>2. CASE k = m + 1
      <4>1. k - 1 = m /\ m \in 0..m + 1 /\ m # m + 1 /\ k # 0
        BY <3>2
      <4>2. QED
        BY <3>2, <4>1
    <3>3. CASE k \in 1..m
      <4>1. /\ k \in 0..m /\ k # 0 /\ k # m + 1
            /\ k - 1 \in 0..m + 1 /\ k - 1 # m + 1
        BY <3>3
      <4>2. f[k] = Push(k, f[k - 1])
        BY <4>1
      <4>3. QED
        BY <4>1, <4>2
    <3>4. QED
      BY <3>1, <3>2, <3>3
  <2>2. Upto(m + 1, g)
    BY <2>1
  <2>3. QED
    <3> HIDE DEF g, Upto
    <3> QED
      BY <2>2
<1>3. Nat \subseteq S
  <2> HIDE DEF S
  <2> QED
    BY <1>1, <1>2, Induction
<1>4. Upto(n, CHOOSE f : Upto(n, f))
  <2> HIDE DEF Upto
  <2> QED
    BY <1>3
<1>5. Len(o) = n
  <2>1. o \in Seq(D)
    BY SeqDef
  <2>2. QED
    BY <2>1, LenProperties
<1>6. Usable(s, P) = (CHOOSE f : Upto(n, f))[n]
  BY <1>0, <1>5 DEF Usable, Push
<1>7. PICK f : Upto(n, f) /\ Usable(s, P) = f[n]
  BY <1>4, <1>6
<1>8. f[0] = <<>> /\ \A k \in 1..n : f[k] = Push(k, f[k - 1])
  <2>1. \A k \in 1..n : k \in 0..n /\ k # 0
    OBVIOUS
  <2>2. QED
    BY <1>7, <2>1
<1> DEFINE T == {k \in Nat : k <= n => f[k] \in Seq(Counted(D, P))}
<1>9. 0 \in T
  BY <1>8, EmptySeq
<1>10. \A k \in Nat : k \in T => k + 1 \in T
  <2> SUFFICES ASSUME NEW k \in Nat, k \in T, k + 1 <= n PROVE f[k + 1] \in Seq(Counted(D, P))
    OBVIOUS
  <2>1. k + 1 \in 1..n /\ (k + 1) - 1 = k /\ f[k] \in Seq(Counted(D, P))
    OBVIOUS
  <2>2. f[k + 1] = Push(k + 1, f[k])
    BY <1>8, <2>1
  <2>3. CASE Counts(o[k + 1], P)
    <3>1. o[k + 1] \in Counted(D, P)
      BY <2>1, <2>3 DEF Counted
    <3>2. f[k + 1] = Append(f[k], o[k + 1])
      BY <2>2, <2>3 DEF Push
    <3>3. QED
      BY <2>1, <3>1, <3>2, AppendProperties
  <2>4. CASE ~Counts(o[k + 1], P)
    BY <2>1, <2>2, <2>4 DEF Push
  <2>5. QED
    BY <2>3, <2>4
<1>11. Nat \subseteq T
  <2> HIDE DEF T
  <2> QED
    BY <1>9, <1>10, Induction
<1>12. f \in [0..n -> Seq(Counted(D, P))]
  BY <1>7, <1>11
<1>13. PushedFrom(D, f, o, n, P)
  BY <1>8, <1>12 DEF Push, PushedFrom
<1>14. QED
  BY <1>0, <1>7, <1>13

\* The same for the claims of a request.
Countable(P) == Counted(Catalogue, P)
Pushes(f, o, n, P) == PushedFrom(Catalogue, f, o, n, P)

LEMMA UsableSteps ==
    ASSUME NEW s, NEW P, NEW n \in Nat, Ordered(s) \in [1..n -> Catalogue]
    PROVE  \E f : Pushes(f, Ordered(s), n, P) /\ Usable(s, P) = f[n]
BY UsableUnfolds DEF Pushes

\* Two lists that differ in an inserted element still do when one more is
\* appended to both.
LEMMA InsertsAppended ==
    ASSUME NEW S, NEW a \in Seq(S), NEW b \in Seq(S), Len(b) = Len(a) + 1,
           NEW m, NEW x, Inserts(b, a, Len(a), m, x), NEW e \in S
    PROVE  /\ Len(Append(b, e)) = Len(Append(a, e)) + 1
           /\ Inserts(Append(b, e), Append(a, e), Len(Append(a, e)), m, x)
<1>1. PICK n \in Nat : n = Len(a)
  BY LenProperties
<1>2. PICK c, d : c = Append(a, e) /\ d = Append(b, e)
  OBVIOUS
<1>3. /\ Len(c) = n + 1 /\ Len(d) = n + 2
      /\ \A i \in 1..n : c[i] = a[i]
      /\ \A i \in 1..n + 1 : d[i] = b[i]
      /\ c[n + 1] = e /\ d[n + 2] = e
  BY <1>1, <1>2, AppendProperties
<1>4. /\ m \in 1..n + 1 /\ b[m] = x
      /\ \A i \in 1..n : (i < m => b[i] = a[i]) /\ (i >= m => b[i + 1] = a[i])
  BY <1>1 DEF Inserts
<1>5. ASSUME NEW i \in 1..n + 1 PROVE (i < m => d[i] = c[i]) /\ (i >= m => d[i + 1] = c[i])
  <2>1. CASE i \in 1..n
    <3>1. c[i] = a[i] /\ d[i] = b[i] /\ d[i + 1] = b[i + 1]
      BY <1>3, <2>1
    <3>2. QED
      BY <1>4, <2>1, <3>1
  <2>2. CASE i = n + 1
    <3>1. ~(i < m) /\ i + 1 = n + 2
      BY <1>4, <2>2
    <3>2. QED
      BY <1>3, <2>2, <3>1
  <2>3. QED
    BY <2>1, <2>2
<1>6. m \in 1..(n + 1) + 1 /\ d[m] = x
  BY <1>3, <1>4
<1>7. Inserts(d, c, n + 1, m, x)
  BY <1>5, <1>6 DEF Inserts
<1>8. QED
  BY <1>2, <1>3, <1>7

\* One more claim that counts is inserted among the claims that contribute.
LEMMA UsableInserts ==
    ASSUME NEW s \in Seq(Catalogue), NEW P, NEW c \in Countable(P)
    PROVE  /\ Usable(s, P) \in Seq(Countable(P))
           /\ Usable(Append(s, c), P) \in Seq(Countable(P))
           /\ Len(Usable(Append(s, c), P)) = Len(Usable(s, P)) + 1
           /\ \E m : Inserts(Usable(Append(s, c), P), Usable(s, P), Len(Usable(s, P)), m, c)
<1>1. PICK n \in Nat : n = Len(s)
  BY LenProperties
<1>2. PICK t, o, w : t = Append(s, c) /\ o = Ordered(s) /\ w = Ordered(t)
  OBVIOUS
<1>3. c \in Catalogue /\ Counts(c, P)
  BY DEF Countable, Counted
<1>4. o \in [1..n -> Catalogue] /\ w \in [1..n + 1 -> Catalogue] /\ \E q : Inserts(w, o, n, q, c)
  BY <1>1, <1>2, <1>3, OrderedInserts
<1>5. PICK q : Inserts(w, o, n, q, c)
  BY <1>4
<1>6. /\ q \in 1..n + 1 /\ w[q] = c
      /\ \A i \in 1..n : (i < q => w[i] = o[i]) /\ (i >= q => w[i + 1] = o[i])
  BY <1>5 DEF Inserts
<1>7. PICK f : /\ f \in [0..n -> Seq(Countable(P))]
               /\ f[0] = <<>>
               /\ \A k \in 1..n : f[k] = IF Counts(o[k], P) THEN Append(f[k - 1], o[k]) ELSE f[k - 1]
               /\ Usable(s, P) = f[n]
  <2>1. \E f : Pushes(f, Ordered(s), n, P) /\ Usable(s, P) = f[n]
    BY <1>2, <1>4, UsableSteps
  <2>2. QED
    BY <1>2, <2>1 DEF Pushes, PushedFrom, Countable
<1>8. PICK g : /\ g \in [0..n + 1 -> Seq(Countable(P))]
               /\ g[0] = <<>>
               /\ \A k \in 1..n + 1 : g[k] = IF Counts(w[k], P) THEN Append(g[k - 1], w[k]) ELSE g[k - 1]
               /\ Usable(t, P) = g[n + 1]
  <2>1. PICK m \in Nat : m = n + 1
    OBVIOUS
  <2>2. \E h : Pushes(h, Ordered(t), m, P) /\ Usable(t, P) = h[m]
    BY <1>2, <1>4, <2>1, UsableSteps, ZenonT(60)
  <2>3. QED
    BY <1>2, <2>1, <2>2 DEF Pushes, PushedFrom, Countable
<1> DEFINE T == {k \in Nat : k < q => f[k] = g[k]}
<1>9. Nat \subseteq T
  <2>1. 0 \in T
    BY <1>7, <1>8
  <2>2. \A k \in Nat : k \in T => k + 1 \in T
    <3> SUFFICES ASSUME NEW k \in Nat, k \in T, k + 1 < q PROVE f[k + 1] = g[k + 1]
      OBVIOUS
    <3>1. k + 1 \in 1..n /\ k + 1 \in 1..n + 1 /\ (k + 1) - 1 = k /\ f[k] = g[k]
      BY <1>6
    <3>2. w[k + 1] = o[k + 1]
      BY <1>6, <3>1
    <3>3. QED
      BY <1>7, <1>8, <3>1, <3>2
  <2>3. QED
    <3> HIDE DEF T
    <3> QED
      BY <2>1, <2>2, Induction
<1>10. PICK p \in 0..n : p = q - 1
  BY <1>6
<1>11. PICK m \in Nat : m = Len(f[p]) + 1
  <2>1. f[p] \in Seq(Countable(P))
    BY <1>7
  <2>2. Len(f[p]) \in Nat
    BY <2>1, LenProperties
  <2>3. QED
    BY <2>2
<1> DEFINE Good(k) == /\ Len(g[k + 1]) = Len(f[k]) + 1
                      /\ Inserts(g[k + 1], f[k], Len(f[k]), m, c)
           U == {k \in Nat : p <= k /\ k <= n => Good(k)}
<1>12. Good(p)
  <2>1. PICK a : a = f[p] /\ a \in Seq(Countable(P)) /\ a = g[p]
    <3>1. p \in Nat /\ p < q
      BY <1>6, <1>10
    <3>2. f[p] = g[p] /\ f[p] \in Seq(Countable(P))
      BY <1>7, <1>9, <3>1
    <3>3. QED
      BY <3>2
  <2>2. PICK b : b = g[p + 1]
    OBVIOUS
  <2>3. b = Append(a, c)
    <3>1. p + 1 = q /\ p + 1 \in 1..n + 1 /\ (p + 1) - 1 = p
      BY <1>6, <1>10
    <3>2. QED
      BY <1>3, <1>6, <1>8, <2>1, <2>2, <3>1
  <2>4. PICK l \in Nat : l = Len(a)
    BY <2>1, LenProperties
  <2>5. /\ Len(b) = l + 1 /\ b[l + 1] = c
        /\ \A i \in 1..l : b[i] = a[i]
    BY <2>1, <2>3, <2>4, AppendProperties
  <2>6. m = l + 1
    BY <1>11, <2>1, <2>4
  <2>7. Inserts(b, a, l, m, c)
    <3>1. \A i \in 1..l : i < m /\ ~(i >= m)
      BY <2>6
    <3>2. QED
      BY <2>5, <2>6, <3>1 DEF Inserts
  <2>8. QED
    BY <2>1, <2>2, <2>4, <2>5, <2>7
<1>13. ASSUME NEW k \in Nat, p <= k, k + 1 <= n, Good(k) PROVE Good(k + 1)
  <2>1. PICK a, b : a = f[k] /\ b = g[k + 1]
    OBVIOUS
  <2>2. a \in Seq(Countable(P)) /\ b \in Seq(Countable(P))
    <3>1. k \in 0..n /\ k + 1 \in 0..n + 1
      BY <1>13
    <3>2. QED
      BY <1>7, <1>8, <2>1, <3>1
  <2>3. Len(b) = Len(a) + 1 /\ Inserts(b, a, Len(a), m, c)
    BY <1>13, <2>1
  <2>4. PICK j \in 1..n : j = k + 1 /\ j - 1 = k /\ j + 1 = (k + 1) + 1 /\ (j + 1) - 1 = j /\ j >= q
    BY <1>6, <1>10, <1>13
  <2>5. PICK e \in Catalogue : e = o[j] /\ e = w[j + 1]
    BY <1>4, <1>6, <2>4
  <2>6. f[j] = IF Counts(e, P) THEN Append(a, e) ELSE a
    BY <1>7, <2>1, <2>4, <2>5
  <2>7. g[j + 1] = IF Counts(e, P) THEN Append(b, e) ELSE b
    <3>1. j + 1 \in 1..n + 1
      OBVIOUS
    <3>2. g[j + 1] = IF Counts(w[j + 1], P) THEN Append(g[(j + 1) - 1], w[j + 1]) ELSE g[(j + 1) - 1]
      BY <1>8, <3>1
    <3>3. g[(j + 1) - 1] = b
      BY <2>1, <2>4
    <3>4. QED
      BY <2>5, <3>2, <3>3
  <2>8. CASE Counts(e, P)
    <3>1. e \in Countable(P)
      BY <2>8 DEF Countable, Counted
    <3>2. /\ Len(Append(b, e)) = Len(Append(a, e)) + 1
          /\ Inserts(Append(b, e), Append(a, e), Len(Append(a, e)), m, c)
      BY <2>2, <2>3, <3>1, InsertsAppended
    <3>3. f[k + 1] = Append(a, e) /\ g[(k + 1) + 1] = Append(b, e)
      BY <2>4, <2>6, <2>7, <2>8
    <3>4. QED
      BY <3>2, <3>3
  <2>9. CASE ~Counts(e, P)
    <3>1. f[k + 1] = a /\ g[(k + 1) + 1] = b
      BY <2>4, <2>6, <2>7, <2>9
    <3>2. QED
      BY <2>3, <3>1
  <2>10. QED
    BY <2>8, <2>9
<1> HIDE DEF Good
<1>14. 0 \in U
  <2>1. p \in Nat
    BY <1>10
  <2>2. p <= 0 => p = 0
    BY <2>1
  <2>3. QED
    BY <1>12, <2>2
<1>15. \A k \in Nat : k \in U => k + 1 \in U
  <2> SUFFICES ASSUME NEW k \in Nat, k \in U, p <= k + 1, k + 1 <= n PROVE Good(k + 1)
    <3>1. \A k \in Nat : k + 1 \in Nat
      OBVIOUS
    <3>2. QED
      BY <3>1
  <2>1. CASE p = k + 1
    BY <1>12, <2>1
  <2>2. CASE p <= k
    <3>1. Good(k)
      BY <2>2
    <3>2. QED
      BY <1>13, <2>2, <3>1
  <2>3. QED
    BY <2>1, <2>2
<1>16. Nat \subseteq U
  <2> HIDE DEF U
  <2> QED
    BY <1>14, <1>15, Induction
<1>17. Good(n)
  <2>1. n \in U /\ p <= n /\ n <= n
    BY <1>10, <1>16
  <2>2. QED
    BY <2>1
<1>18. g[n + 1] \in Seq(Countable(P)) /\ f[n] \in Seq(Countable(P))
  BY <1>7, <1>8
<1>19. QED
  BY <1>2, <1>7, <1>8, <1>17, <1>18 DEF Good

-----------------------------------------------------------------------------
(* What one more supporting claim does to the sums.                        *)

\* What the score needs of a policy: tactics, and numbers of 64 bits.
Priced(P) ==
    /\ \A w \in DOMAIN P.weights : P.weights[w].tactic \in Tactics /\ P.weights[w].weight \in Int
    /\ \A pair \in DOMAIN P.chain : P.chain[pair] \in Int

\* A contribution has 64 bits, and that of a support that is not priced below
\* zero is not negative.
LEMMA ContributionFacts ==
    ASSUME NEW D, NEW P, Priced(P), NEW c \in Counted(D, P)
    PROVE  /\ tactic(c, P) \in Tactics
           /\ contribution(c, P) \in I64
           /\ c.polarity = "supports" /\ P.weights[c.predicate].weight >= 0 => contribution(c, P) >= 0
<1>1. c.predicate \in DOMAIN P.weights
  BY DEF Counted, Counts
<1>2. PICK w \in Int : w = P.weights[c.predicate].weight
  BY <1>1 DEF Priced
<1>3. contribution(c, P) = SatMul(w, Sign(c))
  BY <1>2 DEF contribution
<1>4. SatMul(w, 1) = Clamp(MinInt, MaxInt, w) /\ SatMul(w, -1) = Clamp(MinInt, MaxInt, -w)
  BY <1>2 DEF SatMul
<1>5. Sign(c) = (IF c.polarity = "supports" THEN 1 ELSE -1)
  BY DEF Sign
<1>6. Clamp(MinInt, MaxInt, w) \in I64 /\ Clamp(MinInt, MaxInt, -w) \in I64
  BY <1>2, KernelAssumption DEF Clamp, I64, MinInt
<1>7. w >= 0 => Clamp(MinInt, MaxInt, w) >= 0
  BY <1>2, KernelAssumption DEF Clamp, MinInt
<1>8. tactic(c, P) \in Tactics
  BY <1>1 DEF tactic, Priced
<1>9. contribution(c, P) \in I64
  BY <1>3, <1>4, <1>5, <1>6
<1>10. ASSUME c.polarity = "supports", P.weights[c.predicate].weight >= 0 PROVE contribution(c, P) >= 0
  BY <1>2, <1>3, <1>4, <1>5, <1>7, <1>10
<1>11. QED
  BY <1>8, <1>9, <1>10

\* What the claims add to one tactic is a list of numbers.
LEMMA EntriesAreNumbers ==
    ASSUME NEW D, NEW P, Priced(P), NEW u \in Seq(Counted(D, P)), NEW t
    PROVE  Entries(u, P, t) \in [1..Len(u) -> Int]
<1>1. DOMAIN u = 1..Len(u) /\ \A k \in 1..Len(u) : u[k] \in Counted(D, P)
  BY LenProperties
<1>2. \A k \in 1..Len(u) : contribution(u[k], P) \in Int
  BY <1>1, ContributionFacts, KernelAssumption DEF I64, MinInt
<1>3. QED
  BY <1>1, <1>2 DEF Entries

\* The score of a tactic does not go down when a claim that adds something is
\* inserted among those that contribute.
LEMMA TacticNeverLowers ==
    ASSUME NEW P, Priced(P), NEW u \in Seq(Countable(P)), NEW v \in Seq(Countable(P)),
           Len(v) = Len(u) + 1, NEW c \in Countable(P), contribution(c, P) >= 0,
           NEW m, Inserts(v, u, Len(u), m, c), NEW t
    PROVE  /\ SatSum(Entries(u, P, t)) \in I64
           /\ SatSum(Entries(v, P, t)) \in I64
           /\ SatSum(Entries(u, P, t)) <= SatSum(Entries(v, P, t))
<1>1. PICK n \in Nat : n = Len(u)
  BY LenProperties
<1>2. PICK a, b : a = Entries(u, P, t) /\ b = Entries(v, P, t)
  OBVIOUS
<1>3. a \in [1..n -> Int] /\ b \in [1..n + 1 -> Int]
  BY <1>1, <1>2, EntriesAreNumbers DEF Countable
<1>4. DOMAIN u = 1..n /\ DOMAIN v = 1..n + 1
  BY <1>1, LenProperties
<1>5. PICK x : x = IF tactic(c, P) = t THEN contribution(c, P) ELSE 0
  OBVIOUS
<1>6. x \in Int /\ x >= 0
  BY <1>5, ContributionFacts, KernelAssumption DEF I64, MinInt, Countable
<1>7. /\ m \in 1..n + 1 /\ v[m] = c
      /\ \A i \in 1..n : (i < m => v[i] = u[i]) /\ (i >= m => v[i + 1] = u[i])
  BY <1>1 DEF Inserts
<1>8. b[m] = x
  BY <1>2, <1>4, <1>5, <1>7 DEF Entries
<1>9. ASSUME NEW i \in 1..n PROVE (i < m => b[i] = a[i]) /\ (i >= m => b[i + 1] = a[i])
  <2>1. i \in DOMAIN u /\ i \in DOMAIN v /\ i + 1 \in DOMAIN v
    BY <1>4
  <2>2. QED
    BY <1>2, <1>7, <2>1 DEF Entries
<1>10. Inserts(b, a, n, m, x)
  BY <1>7, <1>8, <1>9 DEF Inserts
<1>11. QED
  BY <1>2, <1>3, <1>6, <1>10, SatSumInserts

\* The tactics are summed in kill-chain order; one without claims adds 0.
LEMMA BaseTotalSums ==
    ASSUME NEW D, NEW P, Priced(P), NEW u \in Seq(Counted(D, P))
    PROVE  base_total(u, P) = SatSum([t \in 1..12 |-> SatSum(Entries(u, P, t))])
<1>1. PICK n \in Nat : n = Len(u) /\ DOMAIN u = 1..n
  BY LenProperties
<1>2. ASSUME NEW t \in Tactics, t \notin Present(u, P)
      PROVE  SatSum(Entries(u, P, t)) = 0
  <2>1. \A k \in 1..n : tactic(u[k], P) # t
    BY <1>1, <1>2 DEF Present, Range
  <2>2. \A k \in 1..n : Entries(u, P, t)[k] = 0
    BY <1>1, <2>1 DEF Entries
  <2>3. Entries(u, P, t) \in [1..n -> Int]
    BY <1>1, EntriesAreNumbers
  <2>4. QED
    BY <2>2, <2>3, SatSumOfZeros
<1>3. PICK scores : scores = tactic_scores(u, P)
  OBVIOUS
<1>4. /\ DOMAIN scores = Present(u, P)
      /\ \A t \in Present(u, P) : scores[t] = SatSum(Entries(u, P, t))
  BY <1>3 DEF tactic_scores
<1>5. \A t \in Tactics : (IF t \in DOMAIN scores THEN scores[t] ELSE 0) = SatSum(Entries(u, P, t))
  BY <1>2, <1>4
<1>6. [t \in Tactics |-> IF t \in DOMAIN scores THEN scores[t] ELSE 0]
        = [t \in 1..12 |-> SatSum(Entries(u, P, t))]
  BY <1>5 DEF Tactics
<1>7. base_total(u, P) = SatSum([t \in Tactics |-> IF t \in DOMAIN scores THEN scores[t] ELSE 0])
  BY <1>3 DEF base_total
<1>8. QED
  BY <1>6, <1>7

\* So one more claim does not lower their sum.
LEMMA BaseNeverLowers ==
    ASSUME NEW P, Priced(P), NEW u \in Seq(Countable(P)), NEW v \in Seq(Countable(P)),
           Len(v) = Len(u) + 1, NEW c \in Countable(P), contribution(c, P) >= 0,
           NEW m, Inserts(v, u, Len(u), m, c)
    PROVE  base_total(u, P) \in I64 /\ base_total(v, P) \in I64 /\ base_total(u, P) <= base_total(v, P)
<1>1. PICK a, b : /\ a = [t \in 1..12 |-> SatSum(Entries(u, P, t))]
                  /\ b = [t \in 1..12 |-> SatSum(Entries(v, P, t))]
  OBVIOUS
<1>2. \A t : /\ SatSum(Entries(u, P, t)) \in I64
             /\ SatSum(Entries(v, P, t)) \in I64
             /\ SatSum(Entries(u, P, t)) <= SatSum(Entries(v, P, t))
  BY TacticNeverLowers
<1>3. \A i \in I64 : i \in Int
  BY KernelAssumption DEF I64, MinInt
<1>4. /\ a \in [1..12 -> Int] /\ b \in [1..12 -> Int]
      /\ \A t \in 1..12 : a[t] <= b[t]
  BY <1>1, <1>2, <1>3
<1>5. 12 \in Nat
  OBVIOUS
<1>6. SatSum(a) \in I64 /\ SatSum(b) \in I64 /\ SatSum(a) <= SatSum(b)
  BY <1>4, <1>5, SatSumMonotone
<1>7. QED
  BY <1>1, <1>6, BaseTotalSums DEF Countable

-----------------------------------------------------------------------------
(* And to the bonuses, and to the severity.                                *)

\* What the window that starts with tactic t adds, when `present` are present.
WindowBonus(present, P, t) ==
    IF t \in DOMAIN Windows(present) THEN Bonus(Windows(present)[t], P) ELSE 0

\* A window pays exactly when it starts with the two tactics of a step of the
\* kill chain that the policy rewards: a new tactic may part two neighbours,
\* but never two adjacent ones.
LEMMA WindowPays ==
    ASSUME NEW P, NEW A \in SUBSET Tactics, NEW t \in Tactics
    PROVE  WindowBonus(A, P, t) = IF t \in A /\ t + 1 \in A /\ <<t, t + 1>> \in DOMAIN P.chain
                                  THEN P.chain[<<t, t + 1>>] ELSE 0
<1>1. \A x \in A : x \in Nat
  BY DEF Tactics
<1>2. t \in Nat
  BY DEF Tactics
<1> DEFINE S == {v \in A : v > t}
<1>3. S \in SUBSET Nat
  BY <1>1
<1>4. CASE ~(t \in A /\ S # {})
  <2>1. t \notin DOMAIN Windows(A)
    BY <1>4 DEF Windows
  <2>2. ~(t \in A /\ t + 1 \in A)
    <3>1. t + 1 > t
      BY <1>2
    <3>2. QED
      BY <1>4, <3>1
  <2>3. QED
    BY <2>1, <2>2 DEF WindowBonus
<1>5. CASE t \in A /\ S # {}
  <2>1. PICK n : n = Min(S)
    OBVIOUS
  <2>2. t \in DOMAIN Windows(A) /\ Windows(A)[t] = <<t, n>>
    <3>1. t \in {u \in A : \E v \in A : v > u}
      BY <1>5
    <3>2. QED
      BY <2>1, <3>1 DEF Windows
  <2>3. n \in A /\ n > t /\ n \in Nat
    <3>1. n \in S
      <4> HIDE DEF S
      <4> QED
        BY <1>3, <1>5, <2>1, MinIsLeast
    <3>2. QED
      BY <1>1, <3>1
  <2>4. t + 1 \in A => n = t + 1
    <3> SUFFICES ASSUME t + 1 \in A PROVE n = t + 1
      OBVIOUS
    <3>1. t + 1 \in S
      BY <1>2
    <3>2. \A y \in S : t + 1 <= y
      BY <1>1, <1>2
    <3>3. QED
      <4> HIDE DEF S
      <4> QED
        BY <1>3, <2>1, <3>1, <3>2, LeastIsMin
  <2>5. is_adjacent(t, n) <=> n = t + 1
    BY <1>2, <2>3 DEF is_adjacent
  <2>6. is_adjacent(t, n) <=> t + 1 \in A
    BY <2>3, <2>4, <2>5
  <2>7. WindowBonus(A, P, t) = IF is_adjacent(t, n) /\ <<t, n>> \in DOMAIN P.chain
                               THEN P.chain[<<t, n>>] ELSE 0
    BY <2>2 DEF WindowBonus, Bonus
  <2>8. CASE t + 1 \in A
    BY <1>5, <2>4, <2>6, <2>7, <2>8
  <2>9. CASE t + 1 \notin A
    BY <2>6, <2>7, <2>9
  <2>10. QED
    BY <2>8, <2>9
<1>6. QED
  BY <1>4, <1>5

\* So a tactic more takes no bonus away.
LEMMA WindowNeverLowers ==
    ASSUME NEW P, Priced(P), \A pair \in DOMAIN P.chain : P.chain[pair] >= 0,
           NEW A \in SUBSET Tactics, NEW B \in SUBSET Tactics, A \subseteq B, NEW t \in Tactics
    PROVE  /\ WindowBonus(A, P, t) \in Int /\ WindowBonus(B, P, t) \in Int
           /\ WindowBonus(A, P, t) <= WindowBonus(B, P, t)
<1>1. PICK e : e = <<t, t + 1>>
  OBVIOUS
<1>2. /\ WindowBonus(A, P, t) = IF t \in A /\ t + 1 \in A /\ e \in DOMAIN P.chain THEN P.chain[e] ELSE 0
      /\ WindowBonus(B, P, t) = IF t \in B /\ t + 1 \in B /\ e \in DOMAIN P.chain THEN P.chain[e] ELSE 0
  BY <1>1, WindowPays
<1>3. e \in DOMAIN P.chain => P.chain[e] \in Int /\ P.chain[e] >= 0
  BY DEF Priced
<1>4. QED
  BY <1>2, <1>3

\* So one more claim does not lower the sum of the bonuses.
LEMMA ChainNeverLowers ==
    ASSUME NEW P, Priced(P), \A pair \in DOMAIN P.chain : P.chain[pair] >= 0,
           NEW u \in Seq(Countable(P)), NEW v \in Seq(Countable(P)),
           Len(v) = Len(u) + 1, NEW c, NEW m, Inserts(v, u, Len(u), m, c)
    PROVE  chain_bonus(u, P) \in I64 /\ chain_bonus(v, P) \in I64 /\ chain_bonus(u, P) <= chain_bonus(v, P)
<1>1. PICK n \in Nat : n = Len(u)
  BY LenProperties
<1>2. /\ DOMAIN u = 1..n /\ DOMAIN v = 1..n + 1
      /\ \A i \in 1..n : u[i] \in Countable(P)
      /\ \A i \in 1..n + 1 : v[i] \in Countable(P)
  BY <1>1, LenProperties
<1>3. /\ m \in 1..n + 1
      /\ \A i \in 1..n : (i < m => v[i] = u[i]) /\ (i >= m => v[i + 1] = u[i])
  BY <1>1 DEF Inserts
<1>4. \A i \in 1..n : \E j \in 1..n + 1 : v[j] = u[i]
  BY <1>3
<1>5. PICK A, B : A = Present(u, P) /\ B = Present(v, P)
  OBVIOUS
<1>6. A \subseteq B
  BY <1>2, <1>4, <1>5 DEF Present, Range
<1>7. A \in SUBSET Tactics /\ B \in SUBSET Tactics
  BY <1>2, <1>5, ContributionFacts DEF Present, Range, Countable
<1>8. PICK a, b : /\ a = [t \in 1..12 |-> WindowBonus(A, P, t)]
                  /\ b = [t \in 1..12 |-> WindowBonus(B, P, t)]
  OBVIOUS
<1>9. /\ a \in [1..12 -> Int] /\ b \in [1..12 -> Int]
      /\ \A t \in 1..12 : a[t] <= b[t]
  <2>1. \A t \in 1..12 : t \in Tactics
    BY DEF Tactics
  <2>2. QED
    BY <1>6, <1>7, <1>8, <2>1, WindowNeverLowers
<1>10. 12 \in Nat
  OBVIOUS
<1>11. SatSum(a) \in I64 /\ SatSum(b) \in I64 /\ SatSum(a) <= SatSum(b)
  BY <1>9, <1>10, SatSumMonotone
<1>12. chain_bonus(u, P) = SatSum(a) /\ chain_bonus(v, P) = SatSum(b)
  BY <1>5, <1>8 DEF chain_bonus, WindowBonus, Tactics
<1>13. QED
  BY <1>11, <1>12

\* A higher score is of no lower severity.
LEMMA SeverityNeverLowers ==
    ASSUME NEW p, PolicyBundle(p), Ascending(p), NEW x \in Int, NEW y \in Int, x <= y
    PROVE  /\ classify(p, x) \in Severities /\ classify(p, y) \in Severities
           /\ classify(p, x) <= classify(p, y)
<1>1. PICK n \in Nat : n = Len(p.thresholds)
  BY LenProperties DEF PolicyBundle
<1>2. /\ DOMAIN p.thresholds = 1..n /\ n >= 1
      /\ \A i \in 1..n : p.thresholds[i][1] \in Int /\ p.thresholds[i][2] \in Severities
  <2>1. p.thresholds \in Seq((MinInt..MaxInt) \X Severities) /\ p.thresholds # <<>>
    BY DEF PolicyBundle, ValidPolicy
  <2>2. DOMAIN p.thresholds = 1..n /\ \A i \in 1..n : p.thresholds[i] \in (MinInt..MaxInt) \X Severities
    BY <1>1, <2>1, LenProperties
  <2>3. n # 0
    BY <1>1, <2>1, EmptySeq
  <2>4. \A e \in (MinInt..MaxInt) \X Severities : e[1] \in Int /\ e[2] \in Severities
    BY KernelAssumption DEF MinInt
  <2>5. QED
    BY <2>2, <2>3, <2>4
<1> DEFINE Met(z) == {i \in 1..n : z >= p.thresholds[i][1]} \cup {1}
<1>3. ASSUME NEW z \in Int
      PROVE  /\ Max(Met(z)) \in Met(z) /\ Max(Met(z)) \in 1..n
             /\ \A i \in Met(z) : Max(Met(z)) >= i
             /\ classify(p, z) = p.thresholds[Max(Met(z))][2]
  <2>1. Met(z) \in SUBSET (0..n) /\ Met(z) # {} /\ Met(z) \subseteq 1..n
    BY <1>2
  <2>2. Max(Met(z)) \in Met(z) /\ \A i \in Met(z) : Max(Met(z)) >= i
    <3> HIDE DEF Met
    <3> QED
      BY <2>1, MaxIsGreatest
  <2>3. classify(p, z) = p.thresholds[Max(Met(z))][2]
    BY <1>2 DEF classify
  <2>4. QED
    BY <2>1, <2>2, <2>3
<1>4. Met(x) \subseteq Met(y)
  BY <1>2
<1> HIDE DEF Met
<1>5. PICK i \in 1..n, j \in 1..n : i = Max(Met(x)) /\ j = Max(Met(y))
  BY <1>3
<1>6. i <= j
  BY <1>3, <1>4, <1>5
<1>7. p.thresholds[i][2] <= p.thresholds[j][2]
  <2>1. CASE i = j
    <3>1. p.thresholds[i][2] \in Int
      BY <1>2 DEF Severities, Info, Critical
    <3>2. QED
      BY <2>1, <3>1
  <2>2. CASE i < j
    BY <1>2, <2>2 DEF Ascending
  <2>3. QED
    BY <1>6, <2>1, <2>2
<1>8. QED
  BY <1>2, <1>3, <1>5, <1>7

\* Without claims the sums are empty.
LEMMA NothingScoresNothing ==
    ASSUME NEW P, Priced(P)
    PROVE  base_total(<<>>, P) = 0 /\ chain_bonus(<<>>, P) = 0
<1>1. PICK u : u = <<>> /\ u \in Seq(Countable(P)) /\ DOMAIN u = {} /\ Len(u) = 0
  <2>1. <<>> \in Seq(Countable(P)) /\ Len(<<>>) = 0
    BY EmptySeq
  <2>2. DOMAIN <<>> = 1..0
    BY <2>1, LenProperties
  <2>3. 1..0 = {}
    OBVIOUS
  <2>4. QED
    BY <2>1, <2>2, <2>3
<1>2. 12 \in Nat /\ 0 \in Nat
  OBVIOUS
<1>3. ASSUME NEW t PROVE SatSum(Entries(u, P, t)) = 0
  <2>1. Entries(u, P, t) \in [1..0 -> Int]
    BY <1>1, EntriesAreNumbers DEF Countable
  <2>2. \A k \in 1..0 : Entries(u, P, t)[k] = 0
    OBVIOUS
  <2>3. QED
    BY <1>2, <2>1, <2>2, SatSumOfZeros
<1>4. base_total(u, P) = 0
  <2>1. PICK a : a = [t \in 1..12 |-> SatSum(Entries(u, P, t))]
    OBVIOUS
  <2>2. a \in [1..12 -> Int] /\ \A k \in 1..12 : a[k] = 0
    BY <1>3, <2>1
  <2>3. SatSum(a) = 0
    BY <1>2, <2>2, SatSumOfZeros
  <2>4. QED
    <3>1. u \in Seq(Counted(Catalogue, P))
      BY <1>1 DEF Countable
    <3>2. base_total(u, P) = SatSum(a)
      BY <2>1, <3>1, BaseTotalSums
    <3>3. QED
      BY <2>3, <3>2
<1>5. chain_bonus(u, P) = 0
  <2>1. PICK a : a = [t \in 1..12 |-> WindowBonus(Present(u, P), P, t)]
    OBVIOUS
  <2>2. Present(u, P) = {}
    BY <1>1 DEF Present, Range
  <2>3. \A t : WindowBonus({}, P, t) = 0
    BY DEF WindowBonus, Windows
  <2>4. a \in [1..12 -> Int] /\ \A k \in 1..12 : a[k] = 0
    BY <2>1, <2>2, <2>3
  <2>5. SatSum(a) = 0
    BY <1>2, <2>4, SatSumOfZeros
  <2>6. chain_bonus(u, P) = SatSum(a)
    BY <2>1 DEF chain_bonus, WindowBonus, Tactics
  <2>7. QED
    BY <2>5, <2>6
<1>6. QED
  BY <1>1, <1>4, <1>5

\* What a verdict says is a function of the score.
LEMMA VerdictFollowsScore ==
    ASSUME NEW r, NEW u, u = Usable(r, Scoring(policy))
    PROVE  /\ u = <<>> => /\ ScoreOf(r) = 0 /\ VerdictOf(r).severity = Info
                          /\ VerdictOf(r).confidence = 0
           /\ u # <<>> => /\ ScoreOf(r) = total_score(u, Scoring(policy))
                          /\ VerdictOf(r).severity = classify(policy, ScoreOf(r))
                          /\ VerdictOf(r).confidence = confidence(ScoreOf(r))
BY DEF ScoreOf, VerdictOf, adjudicate, NothingUsable

\* What a policy bundle gives the score to read.
LEMMA ScoringFacts ==
    ASSUME NEW p, PolicyBundle(p), NEW P, P = Scoring(p)
    PROVE  /\ Priced(P)
           /\ P.chain = p.chain
           /\ DOMAIN P.weights = DOMAIN p.weights
           /\ \A w \in DOMAIN p.weights : /\ P.weights[w].weight = p.weights[w].weight
                                          /\ P.weights[w].tactic = p.weights[w].tactic
<1>1. /\ P.chain = p.chain
      /\ P.weights = [w \in DOMAIN p.weights |-> [tactic |-> p.weights[w].tactic,
                                                  weight |-> p.weights[w].weight]]
  BY DEF Scoring
<1>2. /\ DOMAIN P.weights = DOMAIN p.weights
      /\ \A w \in DOMAIN p.weights : /\ P.weights[w].weight = p.weights[w].weight
                                     /\ P.weights[w].tactic = p.weights[w].tactic
  BY <1>1
<1>3. \A i \in MinInt..MaxInt : i \in Int
  BY KernelAssumption DEF MinInt
<1>4. Priced(P)
  BY <1>1, <1>2, <1>3 DEF Priced, PolicyBundle
<1>5. QED
  BY <1>1, <1>2, <1>4

\* One more supporting claim never lowers the score, the confidence or the
\* severity of a case (lib.rs:84-133), wherever its claim_id sorts it and
\* although saturating sums are not associative.
THEOREM SupportIsMonotone == RequestSpec => []SupportNeverLowers
<1>1. ASSUME RequestTypeOK PROVE SupportNeverLowers
  <2> SUFFICES ASSUME NEW c \in Catalogue, Ascending(policy), c.polarity = "supports", Weighs(c),
                      NEW more, more = Append(claims, c)
               PROVE  /\ ScoreOf(more) >= ScoreOf(claims)
                      /\ VerdictOf(more).confidence >= VerdictOf(claims).confidence
                      /\ VerdictOf(more).severity >= VerdictOf(claims).severity
    BY DEF SupportNeverLowers, Score, Verdict
  <2>1. PolicyBundle(policy) /\ claims \in Seq(Catalogue)
    BY <1>1, RequestsAssumption DEF RequestTypeOK
  <2>2. PICK P : P = Scoring(policy)
    OBVIOUS
  <2>3. /\ Priced(P)
        /\ P.chain = policy.chain
        /\ DOMAIN P.weights = DOMAIN policy.weights
        /\ \A w \in DOMAIN policy.weights : P.weights[w].weight = policy.weights[w].weight
    BY <2>1, <2>2, ScoringFacts
  <2>4. c.predicate \in DOMAIN policy.weights /\ P.weights[c.predicate].weight >= 0 /\ c \in Countable(P)
    BY <2>3 DEF Weighs, Counts, Countable, Counted
  <2>5. contribution(c, P) >= 0
    BY <2>3, <2>4, ContributionFacts DEF Countable
  <2>6. \A pair \in DOMAIN P.chain : P.chain[pair] >= 0
    BY <2>3 DEF Ascending
  <2>7. PICK u, v : u = Usable(claims, P) /\ v = Usable(more, P)
    OBVIOUS
  <2>8. /\ u \in Seq(Countable(P)) /\ v \in Seq(Countable(P))
        /\ Len(v) = Len(u) + 1
        /\ \E m : Inserts(v, u, Len(u), m, c)
    BY <2>1, <2>4, <2>7, UsableInserts
  <2>9. PICK m : Inserts(v, u, Len(u), m, c)
    BY <2>8
  <2>10. base_total(u, P) \in I64 /\ base_total(v, P) \in I64 /\ base_total(u, P) <= base_total(v, P)
    BY <2>3, <2>4, <2>5, <2>8, <2>9, BaseNeverLowers
  <2>11. chain_bonus(u, P) \in I64 /\ chain_bonus(v, P) \in I64 /\ chain_bonus(u, P) <= chain_bonus(v, P)
    BY <2>3, <2>6, <2>8, <2>9, ChainNeverLowers
  <2>12. \A i \in I64 : i \in Int
    BY KernelAssumption DEF I64, MinInt
  <2>13. PICK x, y : x = total_score(u, P) /\ y = total_score(v, P)
    OBVIOUS
  <2>14. x \in Int /\ y \in Int /\ x <= y
    <3>1. PICK a, b \in Int : a = base_total(u, P) /\ b = base_total(v, P)
      BY <2>10, <2>12
    <3>2. PICK d, e \in Int : d = chain_bonus(u, P) /\ e = chain_bonus(v, P)
      BY <2>11, <2>12
    <3>3. x = SatAdd(a, d) /\ y = SatAdd(b, e)
      BY <2>13, <3>1, <3>2 DEF total_score
    <3>4. QED
      BY <2>10, <2>11, <2>12, <3>1, <3>2, <3>3, SatAddFacts
  <2>15. v # <<>>
    <3>1. Len(u) \in Nat
      BY <2>8, LenProperties
    <3>2. Len(v) # 0
      BY <2>8, <3>1
    <3>3. QED
      BY <3>2, EmptySeq
  <2>16. /\ ScoreOf(more) = y
         /\ VerdictOf(more).severity = classify(policy, y)
         /\ VerdictOf(more).confidence = confidence(y)
    BY <2>2, <2>7, <2>13, <2>15, VerdictFollowsScore
  <2>17. CASE u # <<>>
    <3>1. /\ ScoreOf(claims) = x
          /\ VerdictOf(claims).severity = classify(policy, x)
          /\ VerdictOf(claims).confidence = confidence(x)
      BY <2>2, <2>7, <2>13, <2>17, VerdictFollowsScore
    <3>2. confidence(x) <= confidence(y)
      BY <2>14, KernelAssumption DEF confidence, Clamp
    <3>3. confidence(x) \in Int /\ confidence(y) \in Int
      BY <2>14, KernelAssumption DEF confidence, Clamp
    <3>4. /\ classify(policy, x) \in Severities /\ classify(policy, y) \in Severities
          /\ classify(policy, x) <= classify(policy, y)
      BY <2>1, <2>14, SeverityNeverLowers
    <3>5. classify(policy, x) \in Int /\ classify(policy, y) \in Int
      BY <3>4 DEF Severities, Info, Critical
    <3>6. QED
      BY <2>14, <2>16, <3>1, <3>2, <3>3, <3>4, <3>5
  <2>18. CASE u = <<>>
    <3>1. /\ ScoreOf(claims) = 0
          /\ VerdictOf(claims).severity = Info
          /\ VerdictOf(claims).confidence = 0
      BY <2>2, <2>7, <2>18, VerdictFollowsScore
    <3>2. x >= 0
      <4>1. PICK a, d \in Int : a = base_total(u, P) /\ d = chain_bonus(u, P)
        BY <2>10, <2>11, <2>12
      <4>2. a >= 0 /\ d >= 0
        BY <2>3, <2>18, <4>1, NothingScoresNothing
      <4>3. x = SatAdd(a, d)
        BY <2>13, <4>1 DEF total_score
      <4>4. QED
        BY <4>1, <4>2, <4>3, KernelAssumption DEF SatAdd, Clamp, MinInt
    <3>3. y >= 0
      BY <2>14, <3>2
    <3>4. confidence(y) >= 0
      BY <2>14, KernelAssumption DEF confidence, Clamp
    <3>5. classify(policy, y) \in Severities
      BY <2>1, <2>14, SeverityNeverLowers
    <3>6. classify(policy, y) >= Info
      BY <3>5 DEF Severities, Info, Critical
    <3>7. QED
      BY <2>16, <3>1, <3>3, <3>4, <3>6
  <2>19. QED
    BY <2>17, <2>18
<1>2. QED
  BY <1>1, RequestsTypeCorrect, PTL

-----------------------------------------------------------------------------
(* Sums with no width.                                                     *)

\* acc[k] is the sum of the first k of n numbers.
PartialSums(acc, s, n) ==
    /\ acc \in [0..n -> Int]
    /\ acc[0] = 0
    /\ \A k \in 1..n : acc[k] = acc[k - 1] + s[k]

\* A sum, step by step.
LEMMA SumSteps ==
    ASSUME NEW s, NEW n \in Nat, s \in [1..n -> Int]
    PROVE  \E acc : PartialSums(acc, s, n) /\ Sum(s) = acc[n]
<1> DEFINE Upto(m, f) == f = [k \in 0..m |-> IF k = 0 THEN 0 ELSE f[k - 1] + s[k]]
           S == {m \in Nat : \E f : Upto(m, f)}
<1>1. 0 \in S
  <2>1. Upto(0, [k \in 0..0 |-> 0])
    OBVIOUS
  <2>2. QED
    BY <2>1
<1>2. \A m \in Nat : m \in S => m + 1 \in S
  <2> HIDE DEF Upto
  <2> SUFFICES ASSUME NEW m \in Nat, NEW f, Upto(m, f) PROVE \E g : Upto(m + 1, g)
    OBVIOUS
  <2> USE DEF Upto
  <2> DEFINE g == [k \in 0..m + 1 |-> IF k = m + 1 THEN f[m] + s[m + 1] ELSE f[k]]
  <2>1. ASSUME NEW k \in 0..m + 1
        PROVE  g[k] = IF k = 0 THEN 0 ELSE g[k - 1] + s[k]
    <3>1. CASE k = 0
      BY <3>1
    <3>2. CASE k = m + 1
      <4>1. k - 1 = m /\ m \in 0..m + 1 /\ m # m + 1 /\ k # 0
        BY <3>2
      <4>2. QED
        BY <3>2, <4>1
    <3>3. CASE k \in 1..m
      <4>1. /\ k \in 0..m /\ k # 0 /\ k # m + 1
            /\ k - 1 \in 0..m + 1 /\ k - 1 # m + 1
        BY <3>3
      <4>2. f[k] = f[k - 1] + s[k]
        BY <4>1
      <4>3. QED
        BY <4>1, <4>2
    <3>4. QED
      BY <3>1, <3>2, <3>3
  <2>2. Upto(m + 1, g)
    BY <2>1
  <2>3. QED
    <3> HIDE DEF g, Upto
    <3> QED
      BY <2>2
<1>3. Nat \subseteq S
  <2> HIDE DEF S
  <2> QED
    BY <1>1, <1>2, Induction
<1>4. Upto(n, CHOOSE f : Upto(n, f))
  <2> HIDE DEF Upto
  <2> QED
    BY <1>3
<1>5. Len(s) = n
  <2>1. s \in Seq(Int)
    BY SeqDef
  <2>2. QED
    BY <2>1, LenProperties
<1>6. Sum(s) = (CHOOSE f : Upto(n, f))[n]
  BY <1>5 DEF Sum
<1>7. PICK acc : Upto(n, acc) /\ Sum(s) = acc[n]
  BY <1>4, <1>6
<1>8. acc[0] = 0 /\ \A k \in 1..n : acc[k] = acc[k - 1] + s[k]
  <2>1. \A k \in 1..n : k \in 0..n /\ k # 0
    OBVIOUS
  <2>2. QED
    BY <1>7, <2>1
<1> DEFINE T == {k \in Nat : k <= n => acc[k] \in Int}
<1>9. 0 \in T
  BY <1>8
<1>10. \A k \in Nat : k \in T => k + 1 \in T
  <2> SUFFICES ASSUME NEW k \in Nat, k \in T, k + 1 <= n PROVE acc[k + 1] \in Int
    OBVIOUS
  <2>1. k + 1 \in 1..n /\ (k + 1) - 1 = k /\ acc[k] \in Int
    OBVIOUS
  <2>2. s[k + 1] \in Int
    BY <2>1
  <2>3. QED
    BY <1>8, <2>1, <2>2
<1>11. Nat \subseteq T
  <2> HIDE DEF T
  <2> QED
    BY <1>9, <1>10, Induction
<1>12. acc \in [0..n -> Int]
  <2>1. ASSUME NEW k \in 0..n PROVE acc[k] \in Int
    <3>1. k \in Nat /\ k <= n
      OBVIOUS
    <3>2. k \in T
      <4> HIDE DEF T
      <4> QED
        BY <1>11, <3>1
    <3>3. QED
      BY <3>1, <3>2
  <2>2. acc = [k \in 0..n |-> acc[k]]
    <3>1. PICK h : h = [k \in 0..n |-> IF k = 0 THEN 0 ELSE acc[k - 1] + s[k]]
      OBVIOUS
    <3>2. h = [k \in 0..n |-> h[k]]
      BY <3>1
    <3>3. QED
      BY <1>7, <3>1, <3>2
  <2>3. QED
    <3> HIDE DEF Upto, T
    <3> QED
      BY <2>1, <2>2
<1>13. QED
  BY <1>7, <1>8, <1>12 DEF PartialSums

\* Whatever is summed up step by step is the sum.
LEMMA SumIs ==
    ASSUME NEW s, NEW n \in Nat, s \in [1..n -> Int], NEW b, PartialSums(b, s, n)
    PROVE  Sum(s) = b[n]
<1>1. PICK a : PartialSums(a, s, n) /\ Sum(s) = a[n]
  BY SumSteps
<1>2. /\ a[0] = 0 /\ \A k \in 1..n : a[k] = a[k - 1] + s[k]
      /\ b[0] = 0 /\ \A k \in 1..n : b[k] = b[k - 1] + s[k]
  BY <1>1 DEF PartialSums
<1> DEFINE T == {k \in Nat : k <= n => a[k] = b[k]}
<1>3. 0 \in T
  BY <1>2
<1>4. \A k \in Nat : k \in T => k + 1 \in T
  <2> SUFFICES ASSUME NEW k \in Nat, k \in T, k + 1 <= n PROVE a[k + 1] = b[k + 1]
    OBVIOUS
  <2>1. k + 1 \in 1..n /\ (k + 1) - 1 = k /\ a[k] = b[k]
    OBVIOUS
  <2>2. QED
    BY <1>2, <2>1
<1>5. Nat \subseteq T
  <2> HIDE DEF T
  <2> QED
    BY <1>3, <1>4, Induction
<1>6. QED
  BY <1>1, <1>5

\* A sum of numbers is a number, 0 when all of them are, and larger for
\* larger ones.
LEMMA SumFacts ==
    ASSUME NEW n \in Nat, NEW s \in [1..n -> Int], NEW t \in [1..n -> Int]
    PROVE  /\ Sum(s) \in Int
           /\ (\A k \in 1..n : s[k] = 0) => Sum(s) = 0
           /\ (\A k \in 1..n : s[k] <= t[k]) => Sum(s) <= Sum(t)
<1>1. PICK a : PartialSums(a, s, n) /\ Sum(s) = a[n]
  BY SumSteps
<1>2. PICK b : PartialSums(b, t, n) /\ Sum(t) = b[n]
  BY SumSteps
<1>3. /\ a \in [0..n -> Int] /\ a[0] = 0 /\ \A k \in 1..n : a[k] = a[k - 1] + s[k]
      /\ b \in [0..n -> Int] /\ b[0] = 0 /\ \A k \in 1..n : b[k] = b[k - 1] + t[k]
  BY <1>1, <1>2 DEF PartialSums
<1>4. Sum(s) \in Int
  BY <1>1, <1>3
<1>5. ASSUME \A k \in 1..n : s[k] = 0 PROVE Sum(s) = 0
  <2>1. PartialSums([k \in 0..n |-> 0], s, n)
    <3>1. \A k \in 1..n : k \in 0..n /\ k - 1 \in 0..n
      OBVIOUS
    <3>2. QED
      BY <1>5, <3>1 DEF PartialSums
  <2>2. Sum(s) = [k \in 0..n |-> 0][n]
    BY <2>1, SumIs
  <2>3. QED
    BY <2>2
<1>6. ASSUME \A k \in 1..n : s[k] <= t[k] PROVE Sum(s) <= Sum(t)
  <2> DEFINE T == {k \in Nat : k <= n => a[k] <= b[k]}
  <2>1. 0 \in T
    BY <1>3
  <2>2. \A k \in Nat : k \in T => k + 1 \in T
    <3> SUFFICES ASSUME NEW k \in Nat, k \in T, k + 1 <= n PROVE a[k + 1] <= b[k + 1]
      OBVIOUS
    <3>1. k + 1 \in 1..n /\ (k + 1) - 1 = k /\ a[k] <= b[k] /\ k \in 0..n
      OBVIOUS
    <3>2. a[k + 1] = a[k] + s[k + 1] /\ b[k + 1] = b[k] + t[k + 1]
      BY <1>3, <3>1
    <3>3. /\ a[k] \in Int /\ b[k] \in Int /\ s[k + 1] \in Int /\ t[k + 1] \in Int
          /\ s[k + 1] <= t[k + 1]
      BY <1>3, <1>6, <3>1
    <3>4. QED
      BY <3>1, <3>2, <3>3
  <2>3. Nat \subseteq T
    <3> HIDE DEF T
    <3> QED
      BY <2>1, <2>2, Induction
  <2>4. QED
    BY <1>1, <1>2, <2>3
<1>7. QED
  BY <1>4, <1>5, <1>6

\* A larger number at one place makes the sum larger by as much.
LEMMA SumBumped ==
    ASSUME NEW n \in Nat, NEW s \in [1..n -> Int], NEW t \in [1..n -> Int],
           NEW j \in 1..n, NEW x \in Int, t[j] = s[j] + x, \A k \in 1..n : k # j => t[k] = s[k]
    PROVE  Sum(t) = Sum(s) + x
<1>1. PICK a : PartialSums(a, s, n) /\ Sum(s) = a[n]
  BY SumSteps
<1>2. a \in [0..n -> Int] /\ a[0] = 0 /\ \A k \in 1..n : a[k] = a[k - 1] + s[k]
  BY <1>1 DEF PartialSums
<1> DEFINE b == [k \in 0..n |-> IF k >= j THEN a[k] + x ELSE a[k]]
<1>3. ASSUME NEW k \in 1..n PROVE b[k] = b[k - 1] + t[k]
  <2>1. k \in 0..n /\ k - 1 \in 0..n
    OBVIOUS
  <2>2. a[k] = a[k - 1] + s[k] /\ a[k - 1] \in Int /\ s[k] \in Int
    <3> HIDE DEF b
    <3> QED
      BY <1>2, <2>1
  <2>3. CASE k < j
    <3>1. k - 1 < j /\ ~(k >= j) /\ ~(k - 1 >= j) /\ t[k] = s[k]
      BY <2>3
    <3>2. b[k] = a[k] /\ b[k - 1] = a[k - 1]
      BY <2>1, <3>1
    <3>3. QED
      BY <2>2, <3>1, <3>2
  <2>4. CASE k = j
    <3>1. k >= j /\ ~(k - 1 >= j) /\ t[k] = s[k] + x
      BY <2>4
    <3>2. b[k] = a[k] + x /\ b[k - 1] = a[k - 1]
      BY <2>1, <3>1
    <3>3. QED
      <4> HIDE DEF b
      <4> QED
        BY <2>2, <3>1, <3>2
  <2>5. CASE k > j
    <3>1. k >= j /\ k - 1 >= j /\ t[k] = s[k]
      BY <2>5
    <3>2. b[k] = a[k] + x /\ b[k - 1] = a[k - 1] + x
      BY <2>1, <3>1
    <3>3. QED
      <4> HIDE DEF b
      <4> QED
        BY <2>2, <3>1, <3>2
  <2>6. QED
    BY <2>3, <2>4, <2>5
<1>4. b \in [0..n -> Int] /\ b[0] = 0 /\ b[n] = a[n] + x
  <2>1. ASSUME NEW k \in 0..n PROVE a[k] \in Int /\ a[k] + x \in Int
    <3>1. a[k] \in Int
      BY <1>2
    <3>2. QED
      BY <3>1
  <2>2. 0 \in 0..n /\ n \in 0..n /\ ~(0 >= j) /\ n >= j
    OBVIOUS
  <2>3. b \in [0..n -> Int]
    BY <2>1
  <2>4. QED
    BY <1>2, <2>2, <2>3
<1>5. PartialSums(b, t, n)
  BY <1>3, <1>4 DEF PartialSums
<1>6. Sum(t) = b[n]
  <2> HIDE DEF b
  <2> QED
    BY <1>5, SumIs
<1>7. QED
  BY <1>1, <1>4, <1>6

\* The last number of a list is what it adds to the sum.
LEMMA SumExtended ==
    ASSUME NEW n \in Nat, NEW s \in [1..n -> Int], NEW t \in [1..n + 1 -> Int],
           \A k \in 1..n : t[k] = s[k]
    PROVE  Sum(t) = Sum(s) + t[n + 1]
<1>1. PICK a : PartialSums(a, s, n) /\ Sum(s) = a[n]
  BY SumSteps
<1>2. a \in [0..n -> Int] /\ a[0] = 0 /\ \A k \in 1..n : a[k] = a[k - 1] + s[k]
  BY <1>1 DEF PartialSums
<1>3. PICK m \in Nat : m = n + 1
  OBVIOUS
<1> DEFINE b == [k \in 0..m |-> IF k = m THEN a[n] + t[m] ELSE a[k]]
<1>4. ASSUME NEW k \in 1..m PROVE b[k] = b[k - 1] + t[k]
  <2>1. CASE k = m
    <3>1. k - 1 = n /\ n \in 0..m /\ n # m
      BY <1>3, <2>1
    <3>2. QED
      BY <2>1, <3>1
  <2>2. CASE k # m
    <3>1. k \in 1..n /\ k \in 0..m /\ k - 1 \in 0..m /\ k - 1 # m
      BY <1>3, <2>2
    <3>2. QED
      BY <1>2, <2>2, <3>1
  <2>3. QED
    BY <2>1, <2>2
<1>5. b \in [0..m -> Int] /\ b[0] = 0 /\ b[m] = a[n] + t[m]
  <2>1. \A k \in 0..m : k # m => k \in 0..n
    BY <1>3
  <2>2. t[m] \in Int /\ 0 \in 0..m /\ 0 # m /\ m \in 0..m
    BY <1>3
  <2>3. a[n] + t[m] \in Int /\ \A k \in 0..m : k # m => a[k] \in Int
    <3>1. \A k \in 0..n : a[k] \in Int
      BY <1>2
    <3>2. n \in 0..n
      OBVIOUS
    <3>3. QED
      BY <2>1, <2>2, <3>1, <3>2
  <2>4. b \in [0..m -> Int]
    BY <2>3
  <2>5. QED
    BY <1>2, <2>2, <2>4
<1>6. PartialSums(b, t, m)
  BY <1>4, <1>5 DEF PartialSums
<1>7. Sum(t) = b[m]
  <2> HIDE DEF b
  <2> QED
    BY <1>3, <1>6, SumIs
<1>8. QED
  BY <1>1, <1>3, <1>5, <1>7

\* The absolute values of a list.
Absolutes(s, n) == [k \in 1..n |-> Abs(s[k])]

\* The volume is their sum, and bounds the sum.
LEMMA VolumeFacts ==
    ASSUME NEW n \in Nat, NEW s \in [1..n -> Int]
    PROVE  /\ Absolutes(s, n) \in [1..n -> Int]
           /\ Volume(s) = Sum(Absolutes(s, n))
           /\ Volume(s) \in Int /\ Volume(s) >= 0
           /\ -Volume(s) <= Sum(s) /\ Sum(s) <= Volume(s)
<1>1. \A i \in Int : Abs(i) \in Int /\ Abs(i) >= 0 /\ -Abs(i) <= i /\ i <= Abs(i)
  BY DEF Abs
<1>2. \A k \in 1..n : s[k] \in Int
  OBVIOUS
<1>3. PICK v \in [1..n -> Int] : v = Absolutes(s, n)
  BY <1>1, <1>2 DEF Absolutes
<1>4. \A k \in 1..n : v[k] >= 0 /\ -v[k] <= s[k] /\ s[k] <= v[k]
  BY <1>1, <1>2, <1>3 DEF Absolutes
<1>5. Volume(s) = Sum(v)
  BY <1>3 DEF Volume, Absolutes
<1>6. Sum(s) \in Int /\ Sum(v) \in Int /\ Sum(s) <= Sum(v)
  BY <1>4, SumFacts
<1>7. PICK z : z = [k \in 1..n |-> 0] /\ z \in [1..n -> Int]
  <2>1. [k \in 1..n |-> 0] \in [1..n -> Int]
    OBVIOUS
  <2>2. QED
    BY <2>1
<1>8. Sum(z) = 0 /\ Sum(z) <= Sum(v)
  BY <1>4, <1>7, SumFacts
<1>9. -Sum(v) <= Sum(s)
  <2>1. PICK a : PartialSums(a, v, n) /\ Sum(v) = a[n]
    BY SumSteps
  <2>2. a \in [0..n -> Int] /\ a[0] = 0 /\ \A k \in 1..n : a[k] = a[k - 1] + v[k]
    BY <2>1 DEF PartialSums
  <2>3. \A k \in 0..n : a[k] \in Int
    BY <2>2
  <2>4. PICK b : b = [k \in 0..n |-> -a[k]] /\ b \in [0..n -> Int]
    <3>1. \A k \in 0..n : -a[k] \in Int
      BY <2>3
    <3>2. [k \in 0..n |-> -a[k]] \in [0..n -> Int]
      BY <3>1
    <3>3. QED
      BY <3>2
  <2>5. PICK w : w = [k \in 1..n |-> -v[k]] /\ w \in [1..n -> Int]
    <3>1. \A k \in 1..n : -v[k] \in Int
      BY <1>3
    <3>2. [k \in 1..n |-> -v[k]] \in [1..n -> Int]
      BY <3>1
    <3>3. QED
      BY <3>2
  <2>6. ASSUME NEW k \in 1..n PROVE b[k] = b[k - 1] + w[k]
    <3>1. k \in 0..n /\ k - 1 \in 0..n /\ a[k] \in Int /\ a[k - 1] \in Int /\ v[k] \in Int
      BY <2>3
    <3>2. b[k] = -a[k] /\ b[k - 1] = -a[k - 1] /\ w[k] = -v[k]
      BY <2>4, <2>5, <3>1
    <3>3. a[k] = a[k - 1] + v[k]
      BY <2>2
    <3>4. QED
      BY <3>1, <3>2, <3>3
  <2>7. b[0] = 0 /\ b[n] = -a[n]
    BY <2>2, <2>4
  <2>8. PartialSums(b, w, n)
    BY <2>4, <2>6, <2>7 DEF PartialSums
  <2>9. Sum(w) = -Sum(v)
    BY <2>1, <2>5, <2>7, <2>8, SumIs
  <2>10. \A k \in 1..n : w[k] <= s[k]
    BY <1>4, <2>5
  <2>11. Sum(w) <= Sum(s)
    BY <2>5, <2>10, SumFacts
  <2>12. QED
    BY <2>9, <2>11
<1>10. QED
  BY <1>3, <1>5, <1>6, <1>8, <1>9

\* A saturating sum whose volume has a place never saturates on the way.
LEMMA SatSumIsExact ==
    ASSUME NEW n \in Nat, NEW s \in [1..n -> Int], Volume(s) <= MaxInt
    PROVE  SatSum(s) = Sum(s)
<1>1. PICK v \in [1..n -> Int] : v = Absolutes(s, n) /\ Volume(s) = Sum(v)
  BY VolumeFacts
<1>2. \A k \in 1..n : v[k] >= 0 /\ -v[k] <= s[k] /\ s[k] <= v[k] /\ s[k] \in Int /\ v[k] \in Int
  BY <1>1 DEF Absolutes, Abs
<1>3. PICK a : PartialSums(a, s, n) /\ Sum(s) = a[n]
  BY SumSteps
<1>4. PICK b : PartialSums(b, v, n) /\ Sum(v) = b[n]
  BY SumSteps
<1>5. PICK e \in [0..n -> I64] : /\ e[0] = 0
                                 /\ \A k \in 1..n : e[k] = SatAdd(e[k - 1], s[k])
                                 /\ SatSum(s) = e[n]
  BY SatSumSteps
<1>6. /\ a \in [0..n -> Int] /\ a[0] = 0 /\ \A k \in 1..n : a[k] = a[k - 1] + s[k]
      /\ b \in [0..n -> Int] /\ b[0] = 0 /\ \A k \in 1..n : b[k] = b[k - 1] + v[k]
  BY <1>3, <1>4 DEF PartialSums
<1>7. \A k \in 0..n : a[k] \in Int /\ b[k] \in Int
  BY <1>6
<1> DEFINE D == {k \in Nat : k <= n => b[n - k] <= b[n]}
<1>8. Nat \subseteq D
  <2>1. 0 \in D
    <3>1. n - 0 = n /\ b[n] \in Int
      BY <1>7
    <3>2. QED
      BY <3>1
  <2>2. \A k \in Nat : k \in D => k + 1 \in D
    <3> SUFFICES ASSUME NEW k \in Nat, k \in D, k + 1 <= n PROVE b[n - (k + 1)] <= b[n]
      OBVIOUS
    <3>1. PICK i \in 1..n : i = n - k
      OBVIOUS
    <3>2. b[i] <= b[n]
      BY <3>1
    <3>3. i - 1 \in 0..n /\ i \in 0..n /\ n \in 0..n
      OBVIOUS
    <3>4. b[i] = b[i - 1] + v[i]
      BY <1>6
    <3>5. v[i] >= 0 /\ v[i] \in Int /\ b[i - 1] \in Int /\ b[n] \in Int /\ b[i] \in Int
      BY <1>2, <1>7, <3>3
    <3>6. b[i - 1] <= b[n]
      BY <3>2, <3>4, <3>5
    <3>7. n - (k + 1) = i - 1
      BY <3>1
    <3>8. QED
      BY <3>6, <3>7
  <2>3. QED
    <3> HIDE DEF D
    <3> QED
      BY <2>1, <2>2, Induction
<1>9. ASSUME NEW k \in 0..n PROVE b[k] <= MaxInt
  <2>1. n - k \in D /\ n - k <= n /\ n - (n - k) = k
    <3>1. n - k \in Nat /\ n - k <= n /\ n - (n - k) = k
      OBVIOUS
    <3>2. QED
      BY <1>8, <3>1
  <2>2. b[k] <= b[n]
    BY <2>1
  <2>3. b[n] <= MaxInt /\ b[n] \in Int /\ b[k] \in Int
    BY <1>1, <1>4, <1>7
  <2>4. QED
    BY <2>2, <2>3, KernelAssumption
<1> DEFINE T == {k \in Nat : k <= n => -b[k] <= a[k] /\ a[k] <= b[k] /\ e[k] = a[k]}
<1>10. Nat \subseteq T
  <2>1. 0 \in T
    BY <1>5, <1>6
  <2>2. \A k \in Nat : k \in T => k + 1 \in T
    <3> SUFFICES ASSUME NEW k \in Nat, k \in T, k + 1 <= n
                 PROVE  -b[k + 1] <= a[k + 1] /\ a[k + 1] <= b[k + 1] /\ e[k + 1] = a[k + 1]
      OBVIOUS
    <3>1. PICK i \in 1..n : i = k + 1
      OBVIOUS
    <3>2. /\ i - 1 = k /\ k \in 0..n /\ i \in 0..n
          /\ -b[k] <= a[k] /\ a[k] <= b[k] /\ e[k] = a[k]
      BY <3>1
    <3>3. a[i] = a[k] + s[i] /\ b[i] = b[k] + v[i] /\ e[i] = SatAdd(e[k], s[i])
      BY <1>5, <1>6, <3>2
    <3>4. PICK x, y, p, q \in Int : x = a[k] /\ y = b[k] /\ p = s[i] /\ q = v[i]
      BY <1>2, <1>7, <3>2
    <3>5. -y <= x /\ x <= y /\ q >= 0 /\ -q <= p /\ p <= q
      BY <1>2, <3>2, <3>4
    <3>6. -(y + q) <= x + p /\ x + p <= y + q
      BY <3>5
    <3>7. y + q <= MaxInt
      BY <1>9, <3>2, <3>3, <3>4
    <3>8. x + p \in I64
      BY <3>6, <3>7, KernelAssumption DEF I64, MinInt
    <3>9. SatAdd(x, p) = x + p
      BY <3>8, SatAddFacts
    <3>10. QED
      BY <3>1, <3>2, <3>3, <3>4, <3>6, <3>9
  <2>3. QED
    <3> HIDE DEF T
    <3> QED
      BY <2>1, <2>2, Induction
<1>11. n \in T /\ n <= n
  BY <1>10
<1>12. QED
  BY <1>3, <1>5, <1>11

\* The first k of the numbers c that belong to t, and 0 in place of the others.
Part(c, tau, k, t) == [i \in 1..k |-> IF tau[i] = t THEN c[i] ELSE 0]

\* Their sums, for each t of 1..m, as the twelve tactics.
PartSums(c, tau, m, k) == [t \in 1..m |-> Sum(Part(c, tau, k, t))]

\* From k to i numbers the part of t grows by the last, if that belongs to t.
Grows(c, tau, k, i, t) ==
    /\ Sum(Part(c, tau, k, t)) \in Int
    /\ Sum(Part(c, tau, i, t)) = Sum(Part(c, tau, k, t)) + (IF tau[i] = t THEN c[i] ELSE 0)

\* It does with the next number.
LEMMA PartGrows ==
    ASSUME NEW n \in Nat, NEW c \in [1..n -> Int], NEW tau,
           NEW k \in Nat, NEW i \in 1..n, i = k + 1, NEW t
    PROVE  Grows(c, tau, k, i, t)
<1>1. PICK p, q : p = Part(c, tau, k, t) /\ q = Part(c, tau, i, t)
  OBVIOUS
<1>2. \A l \in 1..i : l \in 1..n /\ c[l] \in Int
  OBVIOUS
<1>3. q \in [1..k + 1 -> Int]
  BY <1>1, <1>2 DEF Part
<1>4. \A l \in 1..k : l \in 1..i
  OBVIOUS
<1>5. p \in [1..k -> Int]
  BY <1>1, <1>2, <1>4 DEF Part
<1>6. \A l \in 1..k : q[l] = p[l]
  BY <1>1, <1>4 DEF Part
<1>7. Sum(q) = Sum(p) + q[k + 1]
  BY <1>3, <1>5, <1>6, SumExtended
<1>8. q[k + 1] = IF tau[i] = t THEN c[i] ELSE 0
  <2>1. k + 1 \in 1..i
    OBVIOUS
  <2>2. QED
    BY <1>1, <2>1 DEF Part
<1>9. Sum(p) \in Int
  BY <1>5, SumFacts
<1>10. QED
  BY <1>1, <1>7, <1>8, <1>9 DEF Grows

\* Numbers that are added up part by part have the same sum, and no larger a
\* volume.
LEMMA EachIsCountedOnce ==
    ASSUME NEW n \in Nat, NEW m \in Nat, NEW c \in [1..n -> Int], NEW tau \in [1..n -> 1..m]
    PROVE  /\ PartSums(c, tau, m, n) \in [1..m -> Int]
           /\ Sum(PartSums(c, tau, m, n)) = Sum(c)
           /\ Volume(PartSums(c, tau, m, n)) <= Volume(c)
<1> DEFINE v == Absolutes(c, n)
           W(k) == PartSums(c, tau, m, k)
<1>1. v \in [1..n -> Int] /\ Volume(c) = Sum(v) /\ \A i \in 1..n : v[i] = Abs(c[i])
  BY VolumeFacts DEF Absolutes
<1>2. PICK a : PartialSums(a, c, n) /\ Sum(c) = a[n]
  BY SumSteps
<1> HIDE DEF v
<1>3. PICK b : PartialSums(b, v, n) /\ Sum(v) = b[n]
  BY <1>1, SumSteps
<1>4. /\ a \in [0..n -> Int] /\ a[0] = 0 /\ \A k \in 1..n : a[k] = a[k - 1] + c[k]
      /\ b \in [0..n -> Int] /\ b[0] = 0 /\ \A k \in 1..n : b[k] = b[k - 1] + v[k]
  BY <1>2, <1>3 DEF PartialSums
<1> DEFINE Good(k) == W(k) \in [1..m -> Int] /\ Sum(W(k)) = a[k] /\ Volume(W(k)) <= b[k]
           T == {k \in Nat : k <= n => Good(k)}
<1>5. m \in Nat /\ 0 \in Nat
  OBVIOUS
<1>6. Good(0)
  <2>1. ASSUME NEW t PROVE Sum(Part(c, tau, 0, t)) = 0
    <3>1. PICK p : p = Part(c, tau, 0, t)
      OBVIOUS
    <3>2. p \in [1..0 -> Int] /\ \A k \in 1..0 : p[k] = 0
      BY <3>1 DEF Part
    <3>3. QED
      BY <1>5, <3>1, <3>2, SumFacts
  <2>2. PICK w : w = W(0)
    OBVIOUS
  <2>3. w \in [1..m -> Int] /\ \A t \in 1..m : w[t] = 0
    BY <2>1, <2>2 DEF PartSums
  <2>4. Sum(w) = 0
    BY <1>5, <2>3, SumFacts
  <2>5. PICK z : z = Absolutes(w, m)
    OBVIOUS
  <2>6. z \in [1..m -> Int] /\ Volume(w) = Sum(z)
    BY <1>5, <2>3, <2>5, VolumeFacts
  <2>7. \A t \in 1..m : z[t] = 0
    BY <2>3, <2>5 DEF Absolutes, Abs
  <2>8. Sum(z) = 0
    BY <1>5, <2>6, <2>7, SumFacts
  <2>9. QED
    BY <1>4, <2>2, <2>3, <2>4, <2>6, <2>8
<1>7. ASSUME NEW k \in Nat, k + 1 <= n, Good(k) PROVE Good(k + 1)
  <2>1. PICK i \in 1..n : i = k + 1
    BY <1>7
  <2>2. PICK w, u : w = W(k) /\ u = W(i)
    OBVIOUS
  <2>3. w \in [1..m -> Int] /\ Sum(w) = a[k] /\ Volume(w) <= b[k]
    BY <1>7, <2>2
  <2>4. PICK j \in 1..m, x \in Int : j = tau[i] /\ x = c[i]
    OBVIOUS
  <2>5. ASSUME NEW t \in 1..m PROVE w[t] \in Int /\ u[t] = w[t] + (IF j = t THEN x ELSE 0)
    <3>1. w[t] = Sum(Part(c, tau, k, t)) /\ u[t] = Sum(Part(c, tau, i, t))
      BY <2>2 DEF PartSums
    <3>2. /\ Sum(Part(c, tau, k, t)) \in Int
          /\ Sum(Part(c, tau, i, t)) = Sum(Part(c, tau, k, t)) + (IF tau[i] = t THEN c[i] ELSE 0)
      <4>1. Grows(c, tau, k, i, t)
        BY <2>1, PartGrows
      <4>2. QED
        BY <4>1 DEF Grows
    <3>3. QED
      BY <2>4, <3>1, <3>2
  <2>6. u \in [1..m -> Int] /\ u[j] = w[j] + x /\ \A t \in 1..m : t # j => u[t] = w[t]
    <3>1. ASSUME NEW t \in 1..m PROVE u[t] \in Int /\ (t # j => u[t] = w[t])
      <4>1. PICK g \in Int : g = w[t]
        BY <2>5
      <4>2. u[t] = g + (IF j = t THEN x ELSE 0)
        BY <2>5, <4>1
      <4>3. QED
        BY <4>1, <4>2
    <3>2. u[j] = w[j] + x
      BY <2>5
    <3>3. DOMAIN u = 1..m /\ u = [t \in 1..m |-> u[t]]
      BY <2>2 DEF PartSums
    <3>4. QED
      BY <3>1, <3>2, <3>3
  <2>7. Sum(u) = Sum(w) + x
    BY <1>5, <2>3, <2>4, <2>6, SumBumped
  <2>8. PICK y, z : y = Absolutes(w, m) /\ z = Absolutes(u, m)
    OBVIOUS
  <2>9. /\ y \in [1..m -> Int] /\ Volume(w) = Sum(y) /\ Volume(w) \in Int
        /\ z \in [1..m -> Int] /\ Volume(u) = Sum(z)
    BY <1>5, <2>3, <2>6, <2>8, VolumeFacts
  <2>10. PICK d \in Int : d = z[j] - y[j]
    <3>1. z[j] \in Int /\ y[j] \in Int
      BY <2>9
    <3>2. z[j] - y[j] \in Int
      BY <3>1
    <3>3. QED
      BY <3>2
  <2>11. z[j] = y[j] + d /\ \A t \in 1..m : t # j => z[t] = y[t]
    <3>1. z[j] = y[j] + d
      <4>1. z[j] \in Int /\ y[j] \in Int
        BY <2>9
      <4>2. QED
        BY <2>10, <4>1
    <3>2. \A t \in 1..m : t # j => z[t] = y[t]
      BY <2>6, <2>8 DEF Absolutes
    <3>3. QED
      BY <3>1, <3>2
  <2>12. Volume(u) = Volume(w) + d
    <3>1. y \in [1..m -> Int] /\ z \in [1..m -> Int]
      BY <2>9
    <3>2. Sum(z) = Sum(y) + d
      BY <1>5, <2>11, <3>1, SumBumped
    <3>3. QED
      BY <2>9, <3>2
  <2>13. d <= Abs(x)
    <3>1. PICK g \in Int : g = w[j]
      BY <2>3
    <3>2. y[j] = Abs(g) /\ z[j] = Abs(g + x)
      BY <2>6, <2>8, <3>1 DEF Absolutes
    <3>3. d = Abs(g + x) - Abs(g)
      BY <2>10, <3>2
    <3>4. Abs(g + x) - Abs(g) <= Abs(x)
      BY DEF Abs
    <3>5. QED
      BY <3>3, <3>4
  <2>14. i - 1 = k /\ k \in 0..n
    BY <2>1
  <2>15. a[i] = a[k] + x /\ b[i] = b[k] + Abs(x) /\ b[k] \in Int
    BY <1>1, <1>4, <2>4, <2>14
  <2>16. Abs(x) \in Int
    BY <2>4 DEF Abs
  <2>17. Volume(u) <= b[i]
    <3>1. PICK g, h, l \in Int : g = Volume(w) /\ h = b[k] /\ l = Abs(x)
      BY <2>9, <2>15, <2>16
    <3>2. g <= h /\ d <= l
      BY <2>3, <2>13, <3>1
    <3>3. g + d <= h + l
      BY <3>2
    <3>4. QED
      BY <2>12, <2>15, <3>1, <3>3
  <2>18. QED
    BY <2>1, <2>2, <2>3, <2>6, <2>7, <2>15, <2>17
<1> HIDE DEF Good
<1>8. 0 \in T
  BY <1>6
<1>9. \A k \in Nat : k \in T => k + 1 \in T
  <2> SUFFICES ASSUME NEW k \in Nat, k \in T, k + 1 <= n PROVE Good(k + 1)
    OBVIOUS
  <2>1. k <= n
    OBVIOUS
  <2>2. QED
    BY <1>7, <2>1
<1>10. Nat \subseteq T
  <2> HIDE DEF T
  <2> QED
    BY <1>8, <1>9, Induction
<1>11. Good(n)
  <2>1. n \in T /\ n <= n
    BY <1>10
  <2>2. QED
    BY <2>1
<1>12. QED
  BY <1>1, <1>2, <1>3, <1>11 DEF Good

\* f takes each of 1..n to another one of 1..m, and misses none.
Pairs(f, n, m) ==
    /\ f \in [1..n -> 1..m]
    /\ \A i, j \in 1..n : f[i] = f[j] => i = j
    /\ \A t \in 1..m : \E i \in 1..n : f[i] = t

\* f takes the numbers c to the same numbers at other places of d.
Rearranges(f, c, n, d, m) ==
    /\ c \in [1..n -> Int] /\ d \in [1..m -> Int]
    /\ Pairs(f, n, m)
    /\ \A i \in 1..n : d[f[i]] = c[i]

\* The sum of a list does not depend on the order of its numbers.
LEMMA SumRearranged ==
    ASSUME NEW n \in Nat, NEW m \in Nat, NEW c, NEW d, NEW f, Rearranges(f, c, n, d, m)
    PROVE  Sum(d) = Sum(c)
<1> c \in [1..n -> Int] /\ d \in [1..m -> Int] /\ Pairs(f, n, m) /\ \A i \in 1..n : d[f[i]] = c[i]
  BY DEF Rearranges
<1>1. f \in [1..n -> 1..m]
  BY DEF Pairs
<1>2. PICK w : w = PartSums(c, f, m, n)
  OBVIOUS
<1>3. w \in [1..m -> Int] /\ Sum(w) = Sum(c)
  BY <1>1, <1>2, EachIsCountedOnce
<1>4. ASSUME NEW t \in 1..m PROVE w[t] = d[t]
  <2>1. PICK j \in 1..n : f[j] = t
    BY DEF Pairs
  <2>2. PICK p, z : p = Part(c, f, n, t) /\ z = [i \in 1..n |-> 0]
    OBVIOUS
  <2>3. PICK x \in Int : x = c[j] /\ x = d[t]
    BY <2>1
  <2>4. p \in [1..n -> Int] /\ z \in [1..n -> Int]
    BY <2>2 DEF Part
  <2>5. p[j] = z[j] + x
    <3>1. p[j] = x /\ z[j] = 0
      BY <2>1, <2>2, <2>3 DEF Part
    <3>2. QED
      BY <3>1
  <2>6. \A k \in 1..n : k # j => p[k] = z[k]
    <3>1. \A k \in 1..n : k # j => f[k] # t
      BY <2>1 DEF Pairs
    <3>2. QED
      BY <2>2, <3>1 DEF Part
  <2>7. Sum(p) = Sum(z) + x
    BY <2>3, <2>4, <2>5, <2>6, SumBumped
  <2>8. Sum(z) = 0
    <3>1. \A k \in 1..n : z[k] = 0
      BY <2>2
    <3>2. QED
      BY <2>4, <3>1, SumFacts
  <2>9. w[t] = Sum(p)
    BY <1>2, <2>2 DEF PartSums
  <2>10. QED
    BY <2>3, <2>7, <2>8, <2>9
<1>5. w = d
  BY <1>3, <1>4
<1>6. QED
  BY <1>3, <1>5

\* Nor does its volume.
LEMMA VolumeRearranged ==
    ASSUME NEW n \in Nat, NEW m \in Nat, NEW c, NEW d, NEW f, Rearranges(f, c, n, d, m)
    PROVE  Volume(d) = Volume(c)
<1>0. c \in [1..n -> Int] /\ d \in [1..m -> Int] /\ Pairs(f, n, m) /\ \A i \in 1..n : d[f[i]] = c[i]
  BY DEF Rearranges
<1>1. PICK a, b : a = Absolutes(c, n) /\ b = Absolutes(d, m)
  OBVIOUS
<1>2. /\ a \in [1..n -> Int] /\ Volume(c) = Sum(a)
      /\ b \in [1..m -> Int] /\ Volume(d) = Sum(b)
  BY <1>0, <1>1, VolumeFacts
<1>3. \A i \in 1..n : b[f[i]] = a[i]
  BY <1>0, <1>1 DEF Absolutes, Pairs
<1>4. Sum(b) = Sum(a)
  <2>1. Rearranges(f, a, n, b, m)
    BY <1>0, <1>2, <1>3 DEF Rearranges
  <2>2. QED
    BY <2>1, SumRearranged
<1>5. QED
  BY <1>2, <1>4

-----------------------------------------------------------------------------
(* The score, explained.                                                   *)

\* The claims that contribute are those of the list that count.
LEMMA UsableHoldsCounted ==
    ASSUME NEW D, \A c \in D : claim_id(c) \in Int, NEW s \in Seq(D), NEW P, NEW u, u = Usable(s, P)
    PROVE  /\ u \in Seq(Counted(D, P))
           /\ \A i \in DOMAIN u : \E j \in DOMAIN s : s[j] = u[i] /\ Counts(s[j], P)
           /\ \A j \in DOMAIN s : Counts(s[j], P) => \E i \in DOMAIN u : u[i] = s[j]
<1>1. PICK n \in Nat : n = Len(s) /\ DOMAIN s = 1..n
  BY LenProperties
<1>2. PICK p : /\ Permutes(p, n)
               /\ Ordered(s) = [k \in 1..n |-> s[p[k]]]
               /\ InOrder(Ordered(s), n)
  BY <1>1, OrderedArranges
<1>3. PICK o : o = Ordered(s)
  OBVIOUS
<1>4. o \in [1..n -> D] /\ \A k \in 1..n : p[k] \in 1..n /\ o[k] = s[p[k]]
  <2>1. \A k \in 1..n : s[k] \in D
    BY <1>1, ElementOfSeq
  <2>2. \A k \in 1..n : p[k] \in 1..n
    BY <1>2 DEF Permutes
  <2>3. QED
    BY <1>2, <1>3, <2>1, <2>2
<1>5. PICK f : PushedFrom(D, f, o, n, P) /\ u = f[n]
  <2>1. Ordered(s) \in [1..n -> D]
    BY <1>3, <1>4
  <2>2. \E f : PushedFrom(D, f, Ordered(s), n, P) /\ Usable(s, P) = f[n]
    BY <2>1, UsableUnfolds, Zenon
  <2>3. QED
    BY <1>3, <2>2
<1>6. /\ f \in [0..n -> Seq(Counted(D, P))] /\ f[0] = <<>>
      /\ \A k \in 1..n : f[k] = IF Counts(o[k], P) THEN Append(f[k - 1], o[k]) ELSE f[k - 1]
  BY <1>5 DEF PushedFrom
<1> DEFINE From(k) == \A i \in DOMAIN f[k] : \E l \in 1..k : o[l] = f[k][i] /\ Counts(o[l], P)
           Into(k) == \A l \in 1..k : Counts(o[l], P) => \E i \in DOMAIN f[k] : f[k][i] = o[l]
           T == {k \in Nat : k <= n => From(k) /\ Into(k)}
<1>7. From(0) /\ Into(0)
  <2>1. DOMAIN f[0] = {}
    <3>1. Len(<<>>) = 0 /\ <<>> \in Seq(D)
      BY EmptySeq
    <3>2. DOMAIN <<>> = 1..0
      BY <3>1, LenProperties
    <3>3. 1..0 = {}
      OBVIOUS
    <3>4. QED
      BY <1>6, <3>2, <3>3
  <2>2. QED
    BY <2>1
<1>8. ASSUME NEW k \in Nat, k + 1 <= n, From(k), Into(k) PROVE From(k + 1) /\ Into(k + 1)
  <2>1. PICK j \in 1..n : j = k + 1 /\ j - 1 = k
    BY <1>8
  <2>2. PICK g, h, e : g = f[k] /\ h = f[j] /\ e = o[j]
    OBVIOUS
  <2>3. g \in Seq(Counted(D, P)) /\ h = IF Counts(e, P) THEN Append(g, e) ELSE g
    BY <1>6, <2>1, <2>2
  <2>4. \A l \in 1..j : l \in 1..k \/ l = j
    BY <2>1
  <2>5. \A l \in 1..k : l \in 1..j
    BY <2>1
  <2>6. j \in 1..j
    OBVIOUS
  <2>7. /\ \A i \in DOMAIN g : \E l \in 1..k : o[l] = g[i] /\ Counts(o[l], P)
        /\ \A l \in 1..k : Counts(o[l], P) => \E i \in DOMAIN g : g[i] = o[l]
    BY <1>8, <2>2
  <2>8. CASE ~Counts(e, P)
    <3>1. h = g
      BY <2>3, <2>8
    <3>2. From(j)
      <4>1. f[j] = g
        BY <2>2, <3>1
      <4>2. \A i \in DOMAIN g : \E l \in 1..j : o[l] = g[i] /\ Counts(o[l], P)
        BY <2>5, <2>7
      <4>3. QED
        BY <4>1, <4>2
    <3>3. Into(j)
      BY <2>2, <2>4, <2>7, <2>8, <3>1
    <3>4. QED
      BY <2>1, <3>2, <3>3
  <2>9. CASE Counts(e, P)
    <3>1. e \in Counted(D, P)
      BY <1>4, <2>2, <2>9 DEF Counted
    <3>2. h = Append(g, e)
      BY <2>3, <2>9
    <3>3. PICK m \in Nat : m = Len(g) /\ DOMAIN g = 1..m
      BY <2>3, LenProperties
    <3>4. /\ DOMAIN h = 1..m + 1 /\ h[m + 1] = e
          /\ \A i \in 1..m : h[i] = g[i]
      <4>1. h \in Seq(Counted(D, P)) /\ Len(h) = m + 1
        BY <2>3, <3>1, <3>2, <3>3, AppendProperties
      <4>2. QED
        BY <2>3, <3>1, <3>2, <3>3, <4>1, AppendProperties, LenProperties
    <3>5. \A i \in DOMAIN h : i \in 1..m \/ i = m + 1
      BY <3>4
    <3>6. m + 1 \in DOMAIN h /\ \A i \in 1..m : i \in DOMAIN h
      BY <3>4
    <3>7. ASSUME NEW i \in DOMAIN h PROVE \E l \in 1..j : o[l] = h[i] /\ Counts(o[l], P)
      <4>1. CASE i = m + 1
        BY <2>2, <2>6, <2>9, <3>4, <4>1
      <4>2. CASE i \in 1..m
        BY <2>5, <2>7, <3>3, <3>4, <4>2
      <4>3. QED
        BY <3>5, <4>1, <4>2
    <3>8. ASSUME NEW l \in 1..j, Counts(o[l], P) PROVE \E i \in DOMAIN h : h[i] = o[l]
      <4>1. CASE l = j
        BY <2>2, <3>4, <3>6, <4>1
      <4>2. CASE l \in 1..k
        BY <2>7, <3>3, <3>4, <3>6, <3>8, <4>2
      <4>3. QED
        BY <2>4, <4>1, <4>2
    <3>9. QED
      BY <2>1, <2>2, <3>7, <3>8
  <2>10. QED
    BY <2>8, <2>9
<1> HIDE DEF From, Into
<1>9. 0 \in T
  BY <1>7
<1>10. \A k \in Nat : k \in T => k + 1 \in T
  <2> SUFFICES ASSUME NEW k \in Nat, k \in T, k + 1 <= n PROVE From(k + 1) /\ Into(k + 1)
    OBVIOUS
  <2>1. k <= n
    OBVIOUS
  <2>2. QED
    BY <1>8, <2>1
<1>11. Nat \subseteq T
  <2> HIDE DEF T
  <2> QED
    BY <1>9, <1>10, Induction
<1>12. From(n) /\ Into(n)
  <2>1. n \in T /\ n <= n
    BY <1>11
  <2>2. QED
    BY <2>1
<1>13. u \in Seq(Counted(D, P))
  BY <1>5, <1>6
<1>14. ASSUME NEW i \in DOMAIN u PROVE \E j \in DOMAIN s : s[j] = u[i] /\ Counts(s[j], P)
  <2>1. PICK l \in 1..n : o[l] = u[i] /\ Counts(o[l], P)
    BY <1>5, <1>12 DEF From
  <2>2. QED
    BY <1>1, <1>4, <2>1
<1>15. ASSUME NEW j \in DOMAIN s, Counts(s[j], P) PROVE \E i \in DOMAIN u : u[i] = s[j]
  <2>1. PICK l \in 1..n : p[l] = j
    BY <1>1, <1>2 DEF Permutes
  <2>2. o[l] = s[j]
    BY <1>4, <2>1
  <2>3. QED
    BY <1>5, <1>12, <1>15, <2>2 DEF Into
<1>16. QED
  BY <1>13, <1>14, <1>15

LEMMA UsableAreCounted ==
    ASSUME NEW s \in Seq(Catalogue), NEW P, NEW u, u = Usable(s, P)
    PROVE  /\ u \in Seq(Countable(P))
           /\ \A i \in DOMAIN u : \E j \in DOMAIN s : s[j] = u[i] /\ Counts(s[j], P)
           /\ \A j \in DOMAIN s : Counts(s[j], P) => \E i \in DOMAIN u : u[i] = s[j]
BY UsableHoldsCounted, RequestsAssumption DEF Countable

\* What each claim contributes.
Contributions(u, P) == [i \in DOMAIN u |-> contribution(u[i], P)]

\* Without saturation the score of the tactics is their sum.
LEMMA BaseIsExplained ==
    ASSUME NEW D, NEW P, Priced(P), NEW u \in Seq(Counted(D, P))
    PROVE  /\ Contributions(u, P) \in [1..Len(u) -> Int]
           /\ Volume(Contributions(u, P)) <= MaxInt => base_total(u, P) = Sum(Contributions(u, P))
<1>0. PICK n \in Nat : n = Len(u) /\ DOMAIN u = 1..n
  BY LenProperties
<1>1. DOMAIN u = 1..n /\ \A i \in 1..n : u[i] \in Counted(D, P)
  BY <1>0, LenProperties
<1> PICK c : c = Contributions(u, P)
  OBVIOUS
<1>2. c \in [1..n -> Int]
  <2>1. \A i \in 1..n : contribution(u[i], P) \in Int
    BY <1>1, ContributionFacts, KernelAssumption DEF I64, MinInt
  <2>2. QED
    BY <1>1, <2>1 DEF Contributions
<1>3. PICK tau : tau = [i \in 1..n |-> tactic(u[i], P)] /\ tau \in [1..n -> 1..12]
  <2>1. \A i \in 1..n : tactic(u[i], P) \in 1..12
    BY <1>1, ContributionFacts DEF Tactics
  <2>2. [i \in 1..n |-> tactic(u[i], P)] \in [1..n -> 1..12]
    BY <2>1
  <2>3. QED
    BY <2>2
<1>4. ASSUME Volume(c) <= MaxInt PROVE base_total(u, P) = Sum(c)
  <2>1. Volume(c) \in Int /\ Absolutes(c, n) \in [1..n -> Int] /\ Volume(c) = Sum(Absolutes(c, n))
    BY <1>2, VolumeFacts
  <2>2. ASSUME NEW t PROVE SatSum(Entries(u, P, t)) = Sum(Part(c, tau, n, t))
    <3>1. PICK e : e = Entries(u, P, t)
      OBVIOUS
    <3>2. e = Part(c, tau, n, t)
      <4>1. \A i \in 1..n : tau[i] = tactic(u[i], P) /\ c[i] = contribution(u[i], P)
        BY <1>1, <1>3 DEF Contributions
      <4>2. QED
        BY <1>1, <3>1, <4>1 DEF Entries, Part
    <3>3. e \in [1..n -> Int] /\ \A i \in 1..n : e[i] = c[i] \/ e[i] = 0
      BY <1>2, <3>2 DEF Part
    <3>4. PICK y, z : y = Absolutes(e, n) /\ z = Absolutes(c, n)
      OBVIOUS
    <3>5. /\ y \in [1..n -> Int] /\ Volume(e) = Sum(y) /\ Volume(e) \in Int
          /\ z \in [1..n -> Int] /\ Volume(c) = Sum(z)
      BY <1>2, <3>3, <3>4, VolumeFacts
    <3>6. \A i \in 1..n : y[i] <= z[i]
      <4>1. \A i \in 1..n : y[i] = Abs(e[i]) /\ z[i] = Abs(c[i])
        BY <3>4 DEF Absolutes
      <4>2. \A i \in Int : Abs(0) <= Abs(i) /\ Abs(i) <= Abs(i)
        BY DEF Abs
      <4>3. \A i \in 1..n : c[i] \in Int
        BY <1>2
      <4>4. QED
        BY <3>3, <4>1, <4>2, <4>3
    <3>7. Volume(e) <= Volume(c)
      <4>1. y \in [1..n -> Int] /\ z \in [1..n -> Int]
        BY <3>5
      <4>2. Sum(y) <= Sum(z)
        BY <3>6, <4>1, SumFacts
      <4>3. QED
        BY <3>5, <4>2
    <3>8. Volume(e) <= MaxInt
      BY <1>4, <2>1, <3>5, <3>7, KernelAssumption
    <3>9. SatSum(e) = Sum(e)
      BY <3>3, <3>8, SatSumIsExact
    <3>10. QED
      BY <3>1, <3>2, <3>9
  <2>3. PICK w : w = PartSums(c, tau, 12, n)
    OBVIOUS
  <2>4. w \in [1..12 -> Int] /\ Sum(w) = Sum(c) /\ Volume(w) <= Volume(c)
    <3>1. PICK m \in Nat : m = 12
      OBVIOUS
    <3>2. tau \in [1..n -> 1..m] /\ w = PartSums(c, tau, m, n)
      BY <1>3, <2>3, <3>1
    <3>3. w \in [1..m -> Int] /\ Sum(w) = Sum(c) /\ Volume(w) <= Volume(c)
      BY <1>2, <3>2, EachIsCountedOnce
    <3>4. QED
      BY <3>1, <3>3
  <2>5. 12 \in Nat
    OBVIOUS
  <2>6. Volume(w) <= MaxInt
    <3>1. Volume(w) \in Int
      BY <2>4, <2>5, VolumeFacts
    <3>2. PICK x, y \in Int : x = Volume(w) /\ y = Volume(c)
      BY <2>1, <3>1
    <3>3. x <= y /\ y <= MaxInt
      BY <1>4, <2>4, <3>2
    <3>4. QED
      BY <3>2, <3>3, KernelAssumption
  <2>7. SatSum(w) = Sum(w)
    BY <2>4, <2>5, <2>6, SatSumIsExact
  <2>8. [t \in 1..12 |-> SatSum(Entries(u, P, t))] = w
    BY <2>2, <2>3 DEF PartSums
  <2>9. base_total(u, P) = SatSum(w)
    BY <2>8, BaseTotalSums
  <2>10. QED
    BY <2>4, <2>7, <2>9
<1>5. QED
  BY <1>0, <1>2, <1>4

\* The attributed weights and the bonuses explain the score (verdict.rs:79-81),
\* as long as no sum on the way can saturate: each contributing claim is counted
\* once, and a bonus is paid for each step of the kill chain that the claims
\* show and for nothing else (lib.rs:113-131).
THEOREM ScoreExplained == RequestSpec => []ScoreIsExplained
<1>1. ASSUME RequestTypeOK PROVE ScoreIsExplained
  <2> SUFFICES ASSUME Volume(Attributed) + Volume(Bonuses) <= MaxInt
               PROVE  ScoreOf(claims) = Sum(Attributed) + Sum(Bonuses)
    BY DEF ScoreIsExplained, Score
  <2>1. PolicyBundle(policy) /\ claims \in Seq(Catalogue)
    BY <1>1, RequestsAssumption DEF RequestTypeOK
  <2>2. PICK P : P = Scoring(policy)
    OBVIOUS
  <2>3. /\ Priced(P)
        /\ P.chain = policy.chain
        /\ DOMAIN P.weights = DOMAIN policy.weights
        /\ \A w \in DOMAIN policy.weights : /\ P.weights[w].weight = policy.weights[w].weight
                                            /\ P.weights[w].tactic = policy.weights[w].tactic
    BY <2>1, <2>2, ScoringFacts
  <2>4. PICK u : u = Usable(claims, P)
    OBVIOUS
  <2>5. /\ u \in Seq(Countable(P))
        /\ \A i \in DOMAIN u : \E j \in DOMAIN claims : claims[j] = u[i] /\ Counts(claims[j], P)
        /\ \A j \in DOMAIN claims : Counts(claims[j], P) => \E i \in DOMAIN u : u[i] = claims[j]
    BY <2>1, <2>4, UsableAreCounted
  <2>6. PICK n \in Nat : n = Len(u) /\ DOMAIN u = 1..n
    BY <2>5, LenProperties
  <2>7. \A c : Counts(c, P) <=> Counts(c, policy)
    BY <2>3 DEF Counts
  <2>8. \A c : Counts(c, P) => /\ contribution(c, P) = contribution(c, policy)
                               /\ tactic(c, P) = tactic(c, policy)
    BY <2>3 DEF Counts, contribution, tactic
  <2>9. PICK c : c = Contributions(u, P) /\ c = [i \in 1..n |-> contribution(u[i], P)]
    BY <2>6 DEF Contributions
  <2>10. Attributed = c
    <3>1. \A i \in 1..n : Counts(u[i], P)
      BY <2>5, <2>6 DEF Countable, Counted
    <3>2. CASE u = <<>>
      <4>1. VerdictOf(claims).contributing_claims = <<>>
        BY <2>2, <2>4, <3>2 DEF VerdictOf, adjudicate, NothingUsable
      <4>2. DOMAIN <<>> = 1..n
        BY <2>6, <3>2
      <4>3. n = 0
        BY <2>6, <3>2, EmptySeq
      <4>4. QED
        BY <2>9, <4>1, <4>2, <4>3 DEF Attributed, Verdict
    <3>3. CASE u # <<>>
      <4>1. VerdictOf(claims).contributing_claims =
               [i \in DOMAIN u |-> [claim_id          |-> claim_id(u[i]),
                                    predicate         |-> u[i].predicate,
                                    attributed_weight |-> contribution(u[i], policy)]]
        BY <2>2, <2>4, <3>3 DEF VerdictOf, adjudicate, NothingUsable
      <4>2. Attributed = [i \in 1..n |-> contribution(u[i], policy)]
        BY <2>6, <4>1 DEF Attributed, Verdict
      <4>3. \A i \in 1..n : contribution(u[i], policy) = contribution(u[i], P)
        BY <2>8, <3>1
      <4>4. QED
        BY <2>9, <4>2, <4>3
    <3>4. QED
      BY <3>2, <3>3
  <2>11. PICK A \in SUBSET Tactics : A = Present(u, P)
    <3>1. \A i \in 1..n : u[i] \in Countable(P)
      BY <2>5, <2>6
    <3>2. \A i \in 1..n : tactic(u[i], P) \in Tactics
      BY <2>3, <3>1, ContributionFacts DEF Countable
    <3>3. QED
      BY <2>6, <3>2 DEF Present, Range
  <2>12. ASSUME NEW t PROVE Contributes(t) <=> t \in A
    <3>1. t \in A <=> \E i \in DOMAIN u : tactic(u[i], P) = t
      BY <2>11 DEF Present, Range
    <3>2. Contributes(t) <=> \E j \in DOMAIN claims : Counts(claims[j], P) /\ tactic(claims[j], P) = t
      BY <2>7, <2>8 DEF Contributes
    <3>3. QED
      BY <2>5, <3>1, <3>2
  <2>13. PICK b : b = Bonuses
    OBVIOUS
  <2>14. b = [t \in 1..12 |-> WindowBonus(A, P, t)]
    <3>1. ASSUME NEW t \in Tactics
          PROVE  (IF Contributes(t) /\ Contributes(t + 1) /\ <<t, t + 1>> \in DOMAIN policy.chain
                  THEN policy.chain[<<t, t + 1>>] ELSE 0) = WindowBonus(A, P, t)
      BY <2>3, <2>12, WindowPays
    <3>2. QED
      BY <2>13, <3>1 DEF Bonuses, Tactics
  <2>15. b \in [1..12 -> Int]
    <3>1. ASSUME NEW t \in 1..12 PROVE WindowBonus(A, P, t) \in Int
      <4>1. t \in Tactics
        BY DEF Tactics
      <4>2. PICK e : e = <<t, t + 1>>
        OBVIOUS
      <4>3. WindowBonus(A, P, t) = IF t \in A /\ t + 1 \in A /\ e \in DOMAIN P.chain THEN P.chain[e] ELSE 0
        BY <4>1, <4>2, WindowPays
      <4>4. QED
        BY <2>3, <4>3 DEF Priced
    <3>2. QED
      BY <2>14, <3>1
  <2>16. 12 \in Nat
    OBVIOUS
  <2>17. c \in [1..n -> Int] /\ (Volume(c) <= MaxInt => base_total(u, P) = Sum(c))
    <3>1. Priced(P) /\ u \in Seq(Countable(P))
      BY <2>3, <2>5
    <3>2. /\ Contributions(u, P) \in [1..Len(u) -> Int]
          /\ Volume(Contributions(u, P)) <= MaxInt => base_total(u, P) = Sum(Contributions(u, P))
      BY <3>1, BaseIsExplained DEF Countable
    <3>3. QED
      BY <2>6, <2>9, <3>2
  <2>18. PICK p, q, g, h \in Int : /\ p = Sum(c) /\ q = Sum(b) /\ g = Volume(c) /\ h = Volume(b)
                                   /\ g >= 0 /\ -g <= p /\ p <= g
                                   /\ h >= 0 /\ -h <= q /\ q <= h
    <3>1. /\ Volume(c) \in Int /\ Volume(c) >= 0 /\ -Volume(c) <= Sum(c) /\ Sum(c) <= Volume(c)
          /\ Sum(c) \in Int
      BY <2>17, VolumeFacts, SumFacts
    <3>2. /\ Volume(b) \in Int /\ Volume(b) >= 0 /\ -Volume(b) <= Sum(b) /\ Sum(b) <= Volume(b)
          /\ Sum(b) \in Int
      BY <2>15, <2>16, VolumeFacts, SumFacts
    <3>3. QED
      BY <3>1, <3>2
  <2>19. g + h <= MaxInt
    BY <2>10, <2>13, <2>18
  <2>20. g <= MaxInt /\ h <= MaxInt
    BY <2>18, <2>19, KernelAssumption
  <2>21. base_total(u, P) = p
    BY <2>17, <2>18, <2>20
  <2>22. chain_bonus(u, P) = q
    <3>1. chain_bonus(u, P) = SatSum(b)
      BY <2>11, <2>14 DEF chain_bonus, WindowBonus, Tactics
    <3>2. SatSum(b) = Sum(b)
      BY <2>15, <2>16, <2>18, <2>20, SatSumIsExact
    <3>3. QED
      BY <2>18, <3>1, <3>2
  <2>23. SatAdd(p, q) = p + q
    <3>1. p + q \in I64
      BY <2>18, <2>19, KernelAssumption DEF I64, MinInt
    <3>2. QED
      BY <3>1, SatAddFacts
  <2>24. total_score(u, P) = p + q
    BY <2>21, <2>22, <2>23 DEF total_score
  <2>25. ScoreOf(claims) = p + q
    <3>1. CASE u # <<>>
      BY <2>2, <2>4, <2>24, <3>1, VerdictFollowsScore
    <3>2. CASE u = <<>>
      <4>1. ScoreOf(claims) = 0
        BY <2>2, <2>4, <3>2, VerdictFollowsScore
      <4>2. p = 0 /\ q = 0
        BY <2>3, <2>21, <2>22, <3>2, NothingScoresNothing
      <4>3. QED
        BY <4>1, <4>2
    <3>3. QED
      BY <3>1, <3>2
  <2>26. QED
    BY <2>10, <2>13, <2>18, <2>25
<1>2. QED
  BY <1>1, RequestsTypeCorrect, PTL
=============================================================================
