--------------------------- MODULE RederiveProofs ---------------------------
(***************************************************************************)
(* An InvestigationResult is honest for any provider: any claims in any    *)
(* number per turn, any tool calls, any budget, window and registry.  The  *)
(* argument is about the loop over the claims of a turn: each pass moves   *)
(* one claim from what was proposed to exactly one of the two lists.       *)
(***************************************************************************)
EXTENDS Rederive, KernelProofs

-----------------------------------------------------------------------------
(* Counting the places of a claim.                                         *)

\* How often a claim was proposed or accepted, and how often it was rejected.
Times(s, c) == Cardinality({i \in DOMAIN s : s[i] = c})
TimesIn(r, c) == Cardinality({i \in DOMAIN r : r[i].claim = c})

\* The places of a list with a property, after something was appended.
LEMMA CountAppended ==
    ASSUME NEW n \in Nat, NEW P \in SUBSET (1..n), NEW Q \in SUBSET (1..n + 1),
           \A i \in 1..n : i \in Q <=> i \in P
    PROVE  /\ Cardinality(P) \in Nat
           /\ Cardinality(Q) = Cardinality(P) + IF n + 1 \in Q THEN 1 ELSE 0
<1>1. IsFiniteSet(P) /\ Cardinality(P) \in Nat
  <2>1. IsFiniteSet(1..n)
    BY FS_Interval
  <2>2. QED
    BY <2>1, FS_Subset, FS_CardinalityType
<1>2. n + 1 \notin P
  OBVIOUS
<1>3. \A i \in Q : i \in 1..n \/ i = n + 1
  OBVIOUS
<1>4. CASE n + 1 \in Q
  <2>1. Q = P \cup {n + 1}
    <3>1. \A i \in Q : i \in P \cup {n + 1}
      BY <1>3
    <3>2. \A i \in P \cup {n + 1} : i \in Q
      BY <1>4
    <3>3. QED
      BY <3>1, <3>2
  <2>2. Cardinality(P \cup {n + 1}) = Cardinality(P) + 1
    BY <1>1, <1>2, FS_AddElement
  <2>3. QED
    BY <1>1, <1>4, <2>1, <2>2
<1>5. CASE n + 1 \notin Q
  <2>1. Q = P
    <3>1. \A i \in Q : i \in P
      BY <1>3, <1>5
    <3>2. \A i \in P : i \in Q
      OBVIOUS
    <3>3. QED
      BY <3>1, <3>2
  <2>2. QED
    BY <1>1, <1>5, <2>1
<1>6. QED
  BY <1>4, <1>5

\* Appending a claim to a list counts for that claim.
LEMMA TimesAppended ==
    ASSUME NEW S, NEW s \in Seq(S), NEW e \in S, NEW c
    PROVE  /\ Times(s, c) \in Nat
           /\ Times(Append(s, e), c) = Times(s, c) + IF e = c THEN 1 ELSE 0
<1>1. PICK t : t = Append(s, e)
  OBVIOUS
<1>2. PICK n \in Nat : n = Len(s)
  BY LenProperties
<1>3. /\ DOMAIN s = 1..n /\ DOMAIN t = 1..n + 1 /\ t[n + 1] = e
      /\ \A i \in 1..n : t[i] = s[i]
  BY <1>1, <1>2, AppendProperties, LenProperties
<1>4. PICK P, Q : P = {i \in DOMAIN s : s[i] = c} /\ Q = {i \in DOMAIN t : t[i] = c}
  OBVIOUS
<1>5. /\ P \in SUBSET (1..n) /\ Q \in SUBSET (1..n + 1)
      /\ \A i \in 1..n : i \in Q <=> i \in P
      /\ n + 1 \in Q <=> e = c
  BY <1>3, <1>4
<1>6. Cardinality(P) \in Nat /\ Cardinality(Q) = Cardinality(P) + IF n + 1 \in Q THEN 1 ELSE 0
  BY <1>5, CountAppended
<1>7. QED
  BY <1>1, <1>4, <1>5, <1>6 DEF Times

\* Appending a rejection counts for its claim.
LEMMA TimesInAppended ==
    ASSUME NEW S, NEW s \in Seq(S), NEW e \in S, NEW c
    PROVE  /\ TimesIn(s, c) \in Nat
           /\ TimesIn(Append(s, e), c) = TimesIn(s, c) + IF e.claim = c THEN 1 ELSE 0
<1>1. PICK t : t = Append(s, e)
  OBVIOUS
<1>2. PICK n \in Nat : n = Len(s)
  BY LenProperties
<1>3. /\ DOMAIN s = 1..n /\ DOMAIN t = 1..n + 1 /\ t[n + 1] = e
      /\ \A i \in 1..n : t[i] = s[i]
  BY <1>1, <1>2, AppendProperties, LenProperties
<1>4. PICK P, Q : P = {i \in DOMAIN s : s[i].claim = c} /\ Q = {i \in DOMAIN t : t[i].claim = c}
  OBVIOUS
<1>5. /\ P \in SUBSET (1..n) /\ Q \in SUBSET (1..n + 1)
      /\ \A i \in 1..n : i \in Q <=> i \in P
      /\ n + 1 \in Q <=> e.claim = c
  BY <1>3, <1>4
<1>6. Cardinality(P) \in Nat /\ Cardinality(Q) = Cardinality(P) + IF n + 1 \in Q THEN 1 ELSE 0
  BY <1>5, CountAppended
<1>7. QED
  BY <1>1, <1>4, <1>5, <1>6 DEF TimesIn

-----------------------------------------------------------------------------
(* The loop over the claims of a turn.                                   *)

\* A rejection names a claim.
Rejections == {[claim |-> c, reason |-> admit(c)] : c \in Proposable}

\* The books of a gate: what it saw is what it let in and what it refused.
BooksBalance(lists) ==
    /\ lists.accepted \in Seq(Proposable)
    /\ lists.rejected \in Seq(Rejections)
    /\ lists.proposed \in Seq(Proposable)
    /\ \A i \in DOMAIN lists.accepted : admit(lists.accepted[i]) = Admitted
    /\ Len(lists.accepted) + Len(lists.rejected) = Len(lists.proposed)
    /\ \A c \in Proposable :
          Times(lists.proposed, c) = Times(lists.accepted, c) + TimesIn(lists.rejected, c)

\* One pass of the loop keeps them balanced.
LEMMA GateKeepsBooks ==
    ASSUME NEW lists, BooksBalance(lists), NEW claim \in Proposable
    PROVE  BooksBalance(Gate(claim, lists))
<1>1. PICK a, r, p : a = lists.accepted /\ r = lists.rejected /\ p = lists.proposed
  OBVIOUS
<1>2. /\ a \in Seq(Proposable) /\ r \in Seq(Rejections) /\ p \in Seq(Proposable)
      /\ \A i \in DOMAIN a : admit(a[i]) = Admitted
      /\ Len(a) + Len(r) = Len(p)
      /\ \A c \in Proposable : Times(p, c) = Times(a, c) + TimesIn(r, c)
  BY <1>1 DEF BooksBalance
<1>3. PICK new : new = Gate(claim, lists)
  OBVIOUS
<1>4. /\ Append(p, claim) \in Seq(Proposable)
      /\ Len(Append(p, claim)) = Len(p) + 1 /\ Len(p) \in Nat /\ Len(a) \in Nat /\ Len(r) \in Nat
      /\ \A c : /\ Times(p, c) \in Nat
                /\ Times(Append(p, claim), c) = Times(p, c) + IF claim = c THEN 1 ELSE 0
  BY <1>2, AppendProperties, LenProperties, TimesAppended
<1>5. CASE admit(claim) = Admitted
  <2>1. new.accepted = Append(a, claim) /\ new.rejected = r /\ new.proposed = Append(p, claim)
    BY <1>1, <1>3, <1>5 DEF Gate
  <2>2. /\ Append(a, claim) \in Seq(Proposable)
        /\ DOMAIN Append(a, claim) = 1..Len(a) + 1 /\ DOMAIN a = 1..Len(a)
        /\ Len(Append(a, claim)) = Len(a) + 1
        /\ \A i \in 1..Len(a) : Append(a, claim)[i] = a[i]
        /\ Append(a, claim)[Len(a) + 1] = claim
    BY <1>2, AppendProperties, LenProperties
  <2>3. \A i \in DOMAIN new.accepted : admit(new.accepted[i]) = Admitted
    <3> SUFFICES ASSUME NEW i \in DOMAIN new.accepted PROVE admit(new.accepted[i]) = Admitted
      OBVIOUS
    <3>1. i \in 1..Len(a) \/ i = Len(a) + 1
      BY <1>4, <2>1, <2>2
    <3>2. QED
      BY <1>2, <1>5, <2>1, <2>2, <3>1
  <2>4. \A c \in Proposable : Times(new.proposed, c) = Times(new.accepted, c) + TimesIn(new.rejected, c)
    <3> SUFFICES ASSUME NEW c \in Proposable
                 PROVE  Times(new.proposed, c) = Times(new.accepted, c) + TimesIn(new.rejected, c)
      OBVIOUS
    <3>1. /\ Times(a, c) \in Nat
          /\ Times(Append(a, claim), c) = Times(a, c) + IF claim = c THEN 1 ELSE 0
      BY <1>2, TimesAppended
    <3>2. TimesIn(r, c) \in Nat
      <4>1. [claim |-> claim, reason |-> admit(claim)] \in Rejections
        BY DEF Rejections
      <4>2. QED
        BY <1>2, <4>1, TimesInAppended
    <3>3. Times(Append(p, claim), c) = Times(Append(a, claim), c) + TimesIn(r, c)
      BY <1>2, <1>4, <3>1, <3>2
    <3>4. QED
      BY <2>1, <3>3
  <2>5. Len(new.accepted) + Len(new.rejected) = Len(new.proposed)
    BY <1>2, <1>4, <2>1, <2>2
  <2>6. QED
    BY <1>2, <1>3, <1>4, <2>1, <2>2, <2>3, <2>4, <2>5 DEF BooksBalance
<1>6. CASE admit(claim) # Admitted
  <2>1. PICK e : e = [claim |-> claim, reason |-> admit(claim)]
    OBVIOUS
  <2>2. e \in Rejections /\ e.claim = claim
    BY <2>1 DEF Rejections
  <2>3. new.accepted = a /\ new.rejected = Append(r, e) /\ new.proposed = Append(p, claim)
    BY <1>1, <1>3, <1>6, <2>1 DEF Gate
  <2>4. Append(r, e) \in Seq(Rejections) /\ Len(Append(r, e)) = Len(r) + 1
    BY <1>2, <2>2, AppendProperties
  <2>5. \A c \in Proposable : Times(new.proposed, c) = Times(new.accepted, c) + TimesIn(new.rejected, c)
    <3> SUFFICES ASSUME NEW c \in Proposable
                 PROVE  Times(new.proposed, c) = Times(new.accepted, c) + TimesIn(new.rejected, c)
      OBVIOUS
    <3>1. /\ TimesIn(r, c) \in Nat
          /\ TimesIn(Append(r, e), c) = TimesIn(r, c) + IF claim = c THEN 1 ELSE 0
      BY <1>2, <2>2, TimesInAppended
    <3>2. Times(a, c) \in Nat
      BY <1>2, TimesAppended
    <3>3. Times(Append(p, claim), c) = Times(a, c) + TimesIn(Append(r, e), c)
      BY <1>2, <1>4, <3>1, <3>2
    <3>4. QED
      BY <2>3, <3>3
  <2>6. Len(new.accepted) + Len(new.rejected) = Len(new.proposed)
    BY <1>2, <1>4, <2>3, <2>4
  <2>7. QED
    BY <1>2, <1>3, <1>4, <2>3, <2>4, <2>5, <2>6 DEF BooksBalance
<1>7. QED
  BY <1>5, <1>6

\* The loop keeps them balanced, whatever the provider proposes in a turn.
LEMMA LoopKeepsBooks ==
    ASSUME NEW list \in Seq(Proposable),
           BooksBalance([accepted |-> accepted, rejected |-> rejected, proposed |-> proposed])
    PROVE  BooksBalance(Gated(list))
<1>1. PICK base : base = [accepted |-> accepted, rejected |-> rejected, proposed |-> proposed]
  OBVIOUS
<1>2. PICK N \in Nat : N = Len(list) /\ \A k \in 1..N : list[k] \in Proposable
  BY LenProperties
<1> DEFINE Upto(n, f) == f = [k \in 0..n |-> IF k = 0 THEN base ELSE Gate(list[k], f[k - 1])]
           S == {n \in Nat : \E f : Upto(n, f)}
<1>3. 0 \in S
  <2>1. Upto(0, [k \in 0..0 |-> base])
    OBVIOUS
  <2>2. QED
    BY <2>1
<1>4. \A n \in Nat : n \in S => n + 1 \in S
  <2> HIDE DEF Upto
  <2> SUFFICES ASSUME NEW n \in Nat, NEW f, Upto(n, f) PROVE \E g : Upto(n + 1, g)
    OBVIOUS
  <2> USE DEF Upto
  <2> DEFINE g == [k \in 0..n + 1 |-> IF k = n + 1 THEN Gate(list[n + 1], f[n]) ELSE f[k]]
  <2>1. ASSUME NEW k \in 0..n + 1
        PROVE  g[k] = IF k = 0 THEN base ELSE Gate(list[k], g[k - 1])
    <3>1. CASE k = 0
      BY <3>1
    <3>2. CASE k = n + 1
      <4>1. k - 1 = n /\ n \in 0..n + 1 /\ n # n + 1 /\ k # 0
        BY <3>2
      <4>2. QED
        BY <3>2, <4>1
    <3>3. CASE k \in 1..n
      <4>1. /\ k \in 0..n /\ k # 0 /\ k # n + 1
            /\ k - 1 \in 0..n + 1 /\ k - 1 # n + 1
        BY <3>3
      <4>2. f[k] = Gate(list[k], f[k - 1])
        BY <4>1
      <4>3. QED
        BY <4>1, <4>2
    <3>4. QED
      BY <3>1, <3>2, <3>3
  <2>2. Upto(n + 1, g)
    BY <2>1
  <2>3. QED
    <3> HIDE DEF g, Upto
    <3> QED
      BY <2>2
<1>5. Nat \subseteq S
  <2> HIDE DEF S
  <2> QED
    BY <1>3, <1>4, Induction
<1>6. Upto(N, CHOOSE f : Upto(N, f))
  <2> HIDE DEF Upto
  <2> QED
    BY <1>5
<1>7. Gated(list) = (CHOOSE f : Upto(N, f))[N]
  BY <1>1, <1>2 DEF Gated
<1>8. PICK after : Upto(N, after) /\ Gated(list) = after[N]
  BY <1>6, <1>7
<1> DEFINE T == {k \in Nat : k <= N => BooksBalance(after[k])}
<1>9. 0 \in T
  <2>1. after[0] = base
    BY <1>8
  <2>2. QED
    BY <1>1, <2>1
<1>10. \A k \in Nat : k \in T => k + 1 \in T
  <2> SUFFICES ASSUME NEW k \in Nat, k \in T, k + 1 <= N PROVE BooksBalance(after[k + 1])
    OBVIOUS
  <2>1. k + 1 \in 0..N /\ k + 1 # 0 /\ (k + 1) - 1 = k /\ k + 1 \in 1..N
    OBVIOUS
  <2>2. BooksBalance(after[k]) /\ list[k + 1] \in Proposable
    BY <1>2, <2>1
  <2>3. after[k + 1] = Gate(list[k + 1], after[k])
    BY <1>8, <2>1
  <2>4. QED
    BY <2>2, <2>3, GateKeepsBooks
<1>11. Nat \subseteq T
  <2> HIDE DEF T
  <2> QED
    BY <1>9, <1>10, Induction
<1>12. N \in T /\ N <= N
  BY <1>11
<1>13. BooksBalance(after[N])
  BY <1>12
<1>14. PICK last : last = after[N]
  OBVIOUS
<1>15. BooksBalance(last) /\ Gated(list) = last
  BY <1>8, <1>13, <1>14
<1>16. QED
  BY <1>15

-----------------------------------------------------------------------------
(* The invariant of an investigation.                                      *)

\* The lists of the investigation in progress.
Lists == [accepted |-> accepted, rejected |-> rejected, proposed |-> proposed]

\* What the provider proposed so far is in the books, and the budget was kept.
ResultInv ==
    /\ InvestigationTypeOK
    /\ BooksBalance(Lists)
    /\ BudgetIsHonest

\* A claim that was admitted met every check of the gate.
LEMMA AdmittedIsGrounded ==
    ASSUME NEW c \in Proposable, admit(c) = Admitted
    PROVE  /\ c.evidence # {}
           /\ \A e \in c.evidence : e \in PinnedEvidence
           /\ c.predicate \in KnownPredicates
           /\ WindowStart <= c.start
           /\ c.start <= c.end
           /\ c.end <= WindowEnd
<1>1. c.start \in Int /\ c.end \in Int /\ WindowStart \in Int /\ WindowEnd \in Int
  BY InvestigatorAssumption
<1>2. /\ c.evidence # {} /\ c.evidence \subseteq PinnedEvidence /\ c.predicate \in KnownPredicates
      /\ ~(c.end < c.start) /\ ~(c.start < WindowStart \/ c.end > WindowEnd)
  BY DEF admit, Admitted
<1>3. QED
  BY <1>1, <1>2

\* The books say what the result promises.
LEMMA BooksAreHonest ==
    ASSUME BooksBalance(Lists)
    PROVE  GateIsTheOnlyWayIn
<1>1. /\ accepted \in Seq(Proposable)
      /\ \A i \in DOMAIN accepted : admit(accepted[i]) = Admitted
      /\ Len(accepted) + Len(rejected) = Len(proposed)
      /\ \A c \in Proposable : Times(proposed, c) = Times(accepted, c) + TimesIn(rejected, c)
  BY DEF BooksBalance, Lists
<1>2. ASSUME NEW i \in DOMAIN accepted
      PROVE  /\ accepted[i].evidence # {}
             /\ \A e \in accepted[i].evidence : e \in PinnedEvidence
             /\ accepted[i].predicate \in KnownPredicates
             /\ WindowStart <= accepted[i].start
             /\ accepted[i].start <= accepted[i].end
             /\ accepted[i].end <= WindowEnd
  <2>1. PICK c \in Proposable : c = accepted[i] /\ admit(c) = Admitted
    <3>1. accepted[i] \in Proposable
      BY <1>1, LenProperties
    <3>2. QED
      BY <1>1, <3>1
  <2>2. /\ c.evidence # {} /\ \A e \in c.evidence : e \in PinnedEvidence
        /\ c.predicate \in KnownPredicates
        /\ WindowStart <= c.start /\ c.start <= c.end /\ c.end <= WindowEnd
    BY <2>1, AdmittedIsGrounded
  <2>3. QED
    BY <2>1, <2>2
<1>3. QED
  BY <1>1, <1>2 DEF GateIsTheOnlyWayIn, Times, TimesIn

\* An investigation starts with empty books.
LEMMA ResultInvHoldsAtFirst == Init => ResultInv
<1> SUFFICES ASSUME Init PROVE ResultInv
  OBVIOUS
<1>1. InvestigationTypeOK
  <2>1. budget.max_turns \in Nat
    BY InvestigatorAssumption DEF Init, InvestigationInit
  <2>2. Range(accepted) = {}
    BY DEF Init, InvestigationInit, Range
  <2>3. turns \in 0..budget.max_turns
    BY <2>1 DEF Init, InvestigationInit
  <2>4. /\ budget \in Budgets /\ tool_calls_made \in Nat /\ tool_results \in Nat
        /\ hypotheses = {} /\ status = "running" /\ budget_exhausted \in BOOLEAN
    BY DEF Init, InvestigationInit
  <2>5. QED
    BY <2>2, <2>3, <2>4 DEF InvestigationTypeOK
<1>2. BooksBalance(Lists)
  <2>1. \A c : Times(<<>>, c) = 0 /\ TimesIn(<<>>, c) = 0
    <3>1. \A c : {i \in DOMAIN <<>> : <<>>[i] = c} = {} /\ {i \in DOMAIN <<>> : <<>>[i].claim = c} = {}
      OBVIOUS
    <3>2. QED
      BY <3>1, FS_EmptySet DEF Times, TimesIn
  <2>2. \A S : <<>> \in Seq(S)
    BY EmptySeq
  <2>3. QED
    BY <2>1, <2>2 DEF BooksBalance, Lists, Init, InvestigationInit
<1>3. BudgetIsHonest
  <2>1. budget.max_tool_calls \in Nat
    BY InvestigatorAssumption DEF Init, InvestigationInit
  <2>2. QED
    BY <2>1 DEF BudgetIsHonest, Init, InvestigationInit
<1>4. QED
  BY <1>1, <1>2, <1>3 DEF ResultInv

\* A turn keeps the books and the budget.
LEMMA TurnKeepsResultInv ==
    ASSUME ResultInv, NEW list \in Seq(Proposable), NEW calls \in Nat, Turn(list, calls)
    PROVE  ResultInv'
<1> USE DEF ResultInv
<1>1. PICK max_turns, max_calls \in Nat : max_turns = budget.max_turns /\ max_calls = budget.max_tool_calls
  BY InvestigatorAssumption DEF InvestigationTypeOK
<1>2. budget' = budget
  BY DEF Turn
<1>3. BooksBalance(Lists')
  <2>1. PICK new : new = Gated(list) /\ BooksBalance(new)
    <3>1. BooksBalance(Gated(list))
      BY LoopKeepsBooks DEF Lists
    <3>2. QED
      BY <3>1
  <2>2. accepted' = new.accepted /\ rejected' = new.rejected /\ proposed' = new.proposed
    BY <2>1 DEF Turn, GateClaims
  <2>3. /\ Lists'.accepted = new.accepted /\ Lists'.rejected = new.rejected
        /\ Lists'.proposed = new.proposed
    BY <2>2 DEF Lists
  <2>4. QED
    BY <2>1, <2>3 DEF BooksBalance
<1>4. InvestigationTypeOK'
  <2>1. turns' \in 0..max_turns
    BY <1>1 DEF Turn, InvestigationTypeOK
  <2>2. tool_calls_made' \in Nat /\ tool_results' \in Nat
    BY <1>1 DEF Turn, InvestigationTypeOK
  <2>3. Range(accepted') \subseteq Proposable
    <3>1. accepted' \in Seq(Proposable)
      BY <1>3 DEF BooksBalance, Lists
    <3>2. QED
      BY <3>1, LenProperties DEF Range
  <2>4. hypotheses' \subseteq {c.hypothesis : c \in Proposable} \ {NoHypothesis}
    <3>1. Range(list) \subseteq Proposable
      BY LenProperties DEF Range
    <3>2. HypothesesOf(list) \subseteq {c.hypothesis : c \in Proposable} \ {NoHypothesis}
      BY <3>1 DEF HypothesesOf
    <3>3. QED
      BY <3>2 DEF Turn, GateClaims, InvestigationTypeOK
  <2>5. status' \in {"running", "done"} /\ budget_exhausted' \in BOOLEAN
    BY DEF Turn
  <2>6. QED
    BY <1>1, <1>2, <2>1, <2>2, <2>3, <2>4, <2>5 DEF InvestigationTypeOK
<1>5. BudgetIsHonest'
  <2>1. /\ turns \in Nat /\ tool_calls_made \in Nat /\ tool_results = tool_calls_made
        /\ tool_results <= max_calls
    BY <1>1 DEF InvestigationTypeOK, BudgetIsHonest, Turn
  <2>2. OverBudget(calls) <=> tool_calls_made + calls > max_calls
    BY <1>1 DEF OverBudget
  <2>3. tool_results' <= max_calls /\ tool_results' <= tool_calls_made'
    BY <1>1, <2>1, <2>2 DEF Turn
  <2>4. turns' # 0
    BY <2>1 DEF Turn
  <2>5. status' = "done" => (budget_exhausted' <=> (wantedTools' \/ turns' = 0))
    <3>1. calls = 0 \/ calls > 0
      OBVIOUS
    <3>2. QED
      BY <2>4, <3>1 DEF Turn
  <2>6. status' = "running" => tool_calls_made' = tool_results' /\ ~budget_exhausted'
    BY <2>1, <2>2 DEF Turn
  <2>7. QED
    BY <1>1, <1>2, <2>3, <2>5, <2>6 DEF BudgetIsHonest
<1>6. QED
  BY <1>3, <1>4, <1>5

\* Every step keeps the invariant.
LEMMA StepsKeepResultInv == ResultInv /\ [Next]_vars => ResultInv'
<1> SUFFICES ASSUME ResultInv, [Next]_vars PROVE ResultInv'
  OBVIOUS
<1>1. CASE UNCHANGED investigation
  BY <1>1 DEF ResultInv, InvestigationTypeOK, BudgetIsHonest, Lists, investigation
<1>2. CASE run_investigation
  <2>1. ASSUME NEW n \in 0..ClaimsPerTurn, NEW calls \in 0..CallsPerTurn,
               NEW list \in [1..n -> Proposable], Turn(list, calls)
        PROVE  ResultInv'
    <3>1. n \in Nat /\ calls \in Nat
      BY InvestigatorAssumption
    <3>2. list \in Seq(Proposable)
      BY <3>1, SeqDef
    <3>3. QED
      BY <2>1, <3>1, <3>2, TurnKeepsResultInv
  <2>2. CASE NoTurns
    <3>1. PICK max_turns \in Nat : max_turns = budget.max_turns
      BY InvestigatorAssumption DEF ResultInv, InvestigationTypeOK
    <3>2. turns = 0
      BY <2>2, <3>1 DEF NoTurns, ResultInv, InvestigationTypeOK
    <3>3. BooksBalance(Lists')
      BY <2>2 DEF NoTurns, ResultInv, Lists
    <3>4. InvestigationTypeOK'
      BY <2>2 DEF NoTurns, ResultInv, InvestigationTypeOK
    <3>5. BudgetIsHonest'
      BY <2>2, <3>2 DEF NoTurns, ResultInv, BudgetIsHonest
    <3>6. QED
      BY <3>3, <3>4, <3>5 DEF ResultInv
  <2>3. QED
    BY <1>2, <2>1, <2>2 DEF run_investigation, InvestigationStep
<1>3. CASE replay_rederive
  BY <1>1, <1>3 DEF replay_rederive
<1>4. QED
  BY <1>1, <1>2, <1>3 DEF Next, vars

\* The invariant, for every provider, budget, registry and window.
THEOREM InvestigationInvariant == Spec => []ResultInv
BY ResultInvHoldsAtFirst, StepsKeepResultInv, PTL DEF Spec

\* The state of an investigation keeps its types: in particular no more turns
\* are taken than max_turns (investigator.py:72).
THEOREM InvestigationTypeCorrect == Spec => []InvestigationTypeOK
<1>1. ResultInv => InvestigationTypeOK
  BY DEF ResultInv
<1>2. QED
  BY <1>1, InvestigationInvariant, PTL

\* An InvestigationResult can be taken at its word (investigator.py:33-37),
\* whatever the provider proposes, turn after turn: only grounded claims are
\* accepted, nothing proposed is lost or listed twice, and budget_exhausted
\* tells a partial claim set from a finished one.
THEOREM ResultHonesty == Spec => []ResultIsHonest
<1>1. ResultInv => ResultIsHonest
  BY BooksAreHonest DEF ResultInv, ResultIsHonest
<1>2. QED
  BY <1>1, InvestigationInvariant, PTL

-----------------------------------------------------------------------------
(* What an empty diff says about the verdict.                              *)

\* A list without repetitions is still one when the claims that do not count are
\* left out.
LEMMA UsableKeepsApart ==
    ASSUME NEW D, \A c \in D : claim_id(c) \in Int, NEW s \in Seq(D), NEW P, NEW u, u = Usable(s, P),
           \A i, j \in DOMAIN s : s[i] = s[j] => i = j
    PROVE  \A i, j \in DOMAIN u : u[i] = u[j] => i = j
<1>1. PICK n \in Nat : n = Len(s) /\ DOMAIN s = 1..n
  BY LenProperties
<1>2. PICK p : /\ Permutes(p, n)
               /\ Ordered(s) = [k \in 1..n |-> s[p[k]]]
               /\ InOrder(Ordered(s), n)
  BY <1>1, OrderedArranges
<1>3. PICK o : o = Ordered(s)
  OBVIOUS
<1>4. /\ o \in [1..n -> D]
      /\ \A k, l \in 1..n : o[k] = o[l] => k = l
  <2>1. \A k \in 1..n : s[k] \in D
    BY <1>1, ElementOfSeq
  <2>2. \A k, l \in 1..n : p[k] \in 1..n /\ (p[k] = p[l] => k = l)
    BY <1>2 DEF Permutes
  <2>3. \A k \in 1..n : o[k] = s[p[k]]
    BY <1>2, <1>3
  <2>4. \A k, l \in 1..n : o[k] = o[l] => k = l
    BY <1>1, <2>2, <2>3
  <2>5. o \in [1..n -> D]
    BY <1>2, <1>3, <2>1, <2>2
  <2>6. QED
    BY <2>4, <2>5
<1>5. PICK f : PushedFrom(D, f, o, n, P) /\ u = f[n]
  <2>1. Ordered(s) \in [1..n -> D]
    BY <1>3, <1>4
  <2>2. \E f : PushedFrom(D, f, Ordered(s), n, P) /\ Usable(s, P) = f[n]
    BY ONLY <2>1, n \in Nat, UsableUnfolds, Zenon
  <2>3. QED
    BY <1>3, <2>2
<1>6. /\ f \in [0..n -> Seq(Counted(D, P))] /\ f[0] = <<>>
      /\ \A k \in 1..n : f[k] = IF Counts(o[k], P) THEN Append(f[k - 1], o[k]) ELSE f[k - 1]
  BY <1>5 DEF PushedFrom
<1> DEFINE From(k) == \A i \in DOMAIN f[k] : \E l \in 1..k : o[l] = f[k][i]
           Apart(k) == \A i, j \in DOMAIN f[k] : f[k][i] = f[k][j] => i = j
           T == {k \in Nat : k <= n => From(k) /\ Apart(k)}
<1>7. From(0) /\ Apart(0)
  <2>1. DOMAIN f[0] = {}
    <3>1. Len(<<>>) = 0 /\ <<>> \in Seq(D)
      BY EmptySeq
    <3>2. DOMAIN <<>> = 1..0
      BY <3>1, LenProperties
    <3>3. QED
      BY <1>6, <3>2
  <2>2. QED
    BY <2>1
<1>8. ASSUME NEW k \in Nat, k + 1 <= n, From(k), Apart(k) PROVE From(k + 1) /\ Apart(k + 1)
  <2>1. PICK j \in 1..n : j = k + 1 /\ j - 1 = k
    BY <1>8
  <2>2. PICK g, h, e : g = f[k] /\ h = f[j] /\ e = o[j]
    OBVIOUS
  <2>3. g \in Seq(Counted(D, P)) /\ h = IF Counts(e, P) THEN Append(g, e) ELSE g
    BY <1>6, <2>1, <2>2
  <2>4. \A l \in 1..k : l \in 1..j /\ l \in 1..n /\ l # j
    BY <2>1
  <2>5. j \in 1..j
    OBVIOUS
  <2>6. /\ \A i \in DOMAIN g : \E l \in 1..k : o[l] = g[i]
        /\ \A a, b \in DOMAIN g : g[a] = g[b] => a = b
    BY <1>8, <2>2
  <2>7. CASE ~Counts(e, P)
    <3>1. f[j] = g
      BY <2>2, <2>3, <2>7
    <3>2. \A i \in DOMAIN g : \E l \in 1..j : o[l] = g[i]
      BY <2>4, <2>6
    <3>3. From(j) /\ Apart(j)
      BY <2>6, <3>1, <3>2
    <3>4. QED
      BY <2>1, <3>3
  <2>8. CASE Counts(e, P)
    <3>1. e \in Counted(D, P)
      BY <1>4, <2>2, <2>8 DEF Counted
    <3>2. h = Append(g, e)
      BY <2>3, <2>8
    <3>3. PICK m \in Nat : m = Len(g) /\ DOMAIN g = 1..m
      BY <2>3, LenProperties
    <3>4. /\ DOMAIN h = 1..m + 1 /\ h[m + 1] = e
          /\ \A i \in 1..m : h[i] = g[i]
      <4>1. h \in Seq(Counted(D, P)) /\ Len(h) = m + 1
        BY <2>3, <3>1, <3>2, <3>3, AppendProperties
      <4>2. QED
        BY <2>3, <3>1, <3>2, <3>3, <4>1, AppendProperties, LenProperties
    <3>5. \A i \in DOMAIN h : i \in 1..m \/ i = m + 1
      BY <3>4
    <3>6. \A i \in 1..m : h[i] # e
      <4> SUFFICES ASSUME NEW i \in 1..m, h[i] = e PROVE FALSE
        OBVIOUS
      <4>1. PICK l \in 1..k : o[l] = g[i]
        BY <2>6, <3>3
      <4>2. o[l] = o[j] /\ l \in 1..n /\ l # j
        BY <2>2, <2>4, <3>4, <4>1
      <4>3. QED
        BY <1>4, <4>2
    <3>7. ASSUME NEW i \in DOMAIN h PROVE \E l \in 1..j : o[l] = h[i]
      <4>1. CASE i = m + 1
        BY <2>2, <2>5, <3>4, <4>1
      <4>2. CASE i \in 1..m
        BY <2>4, <2>6, <3>3, <3>4, <4>2
      <4>3. QED
        BY <3>5, <4>1, <4>2
    <3>8. ASSUME NEW a \in DOMAIN h, NEW b \in DOMAIN h, h[a] = h[b] PROVE a = b
      BY <2>6, <3>3, <3>4, <3>5, <3>6, <3>8
    <3>9. QED
      BY <2>1, <2>2, <3>7, <3>8
  <2>9. QED
    BY <2>7, <2>8
<1> HIDE DEF From, Apart
<1>9. 0 \in T
  BY <1>7
<1>10. \A k \in Nat : k \in T => k + 1 \in T
  <2> SUFFICES ASSUME NEW k \in Nat, k \in T, k + 1 <= n PROVE From(k + 1) /\ Apart(k + 1)
    OBVIOUS
  <2>1. k <= n
    OBVIOUS
  <2>2. QED
    BY <1>8, <2>1
<1>11. Nat \subseteq T
  <2> HIDE DEF T
  <2> QED
    BY <1>9, <1>10, Induction
<1>12. Apart(n)
  <2>1. n \in T /\ n <= n
    BY <1>11
  <2>2. QED
    BY <2>1
<1>13. QED
  BY <1>5, <1>12 DEF Apart

\* The claims that contribute assert different things, if those of the list do,
\* and everything the list asserts that counts.
LEMMA UsableAssertions ==
    ASSUME NEW s \in Seq(Assertions), NoDuplicates(s), NEW P, NEW u, u = Usable(s, P)
    PROVE  /\ u \in Seq(Counted(Assertions, P))
           /\ \A i \in DOMAIN u : u[i] \in Assertions /\ Counts(u[i], P) /\ u[i].key \in Keys(s)
           /\ \A i, j \in DOMAIN u : u[i].key = u[j].key => i = j
           /\ \A c \in Assertions : Counts(c, P) /\ c.key \in Keys(s) =>
                 \E i \in DOMAIN u : u[i].key = c.key
<1>1. \A c \in Assertions : claim_id(c) \in Int
  BY RederiveAssumption
<1>2. /\ u \in Seq(Counted(Assertions, P))
      /\ \A i \in DOMAIN u : \E j \in DOMAIN s : s[j] = u[i] /\ Counts(s[j], P)
      /\ \A j \in DOMAIN s : Counts(s[j], P) => \E i \in DOMAIN u : u[i] = s[j]
  BY <1>1, UsableHoldsCounted
<1>3. \A j \in DOMAIN s : s[j] \in Assertions
  BY LenProperties
<1>4. \A i, j \in DOMAIN s : s[i].key = s[j].key => i = j
  BY DEF NoDuplicates
<1>5. \A i, j \in DOMAIN s : s[i] = s[j] => i = j
  BY <1>4
<1>6. \A i, j \in DOMAIN u : u[i] = u[j] => i = j
  BY <1>1, <1>5, UsableKeepsApart
<1>7. ASSUME NEW i \in DOMAIN u, NEW j \in DOMAIN u, u[i].key = u[j].key PROVE i = j
  <2>1. PICK a, b \in DOMAIN s : s[a] = u[i] /\ s[b] = u[j]
    BY <1>2
  <2>2. a = b
    BY <1>4, <1>7, <2>1
  <2>3. QED
    BY <1>6, <2>1, <2>2
<1>8. ASSUME NEW i \in DOMAIN u PROVE u[i] \in Assertions /\ Counts(u[i], P) /\ u[i].key \in Keys(s)
  <2>1. PICK j \in DOMAIN s : s[j] = u[i] /\ Counts(s[j], P)
    BY <1>2
  <2>2. s[j].key \in Keys(s)
    BY DEF Keys
  <2>3. QED
    BY <1>3, <2>1, <2>2
<1>9. ASSUME NEW c \in Assertions, Counts(c, P), c.key \in Keys(s) PROVE \E i \in DOMAIN u : u[i].key = c.key
  <2>1. PICK j \in DOMAIN s : s[j].key = c.key
    BY <1>9 DEF Keys
  <2>2. s[j].predicate = c.predicate /\ s[j].evidence = c.evidence
    BY <1>3, <2>1, RederiveAssumption
  <2>3. Counts(s[j], P)
    BY <1>9, <2>2 DEF Counts
  <2>4. QED
    BY <1>2, <2>1, <2>3
<1>10. QED
  BY <1>2, <1>7, <1>8, <1>9

\* The weights of the claims of a list fit into the arithmetic, whatever their
\* order.
Fits(s) == Volume(Contributions(Usable(s, Scoring(CasePolicy)), Scoring(CasePolicy))) <= MaxInt

\* Two lists that assert the same, each nothing twice, get one disposition.
LEMMA SameAssertionsSameDisposition ==
    ASSUME NEW s \in Seq(Assertions), NEW r \in Seq(Assertions), NoDuplicates(s), NoDuplicates(r),
           Keys(s) = Keys(r), Fits(s)
    PROVE  adjudicate(s, CasePolicy, CaseVersion).disposition
             = adjudicate(r, CasePolicy, CaseVersion).disposition
<1>1. PICK P : P = Scoring(CasePolicy)
  OBVIOUS
<1>2. Priced(P)
  BY <1>1, ScoringFacts, RederiveAssumption
<1>3. PICK u, v : u = Usable(s, P) /\ v = Usable(r, P)
  OBVIOUS
<1>4. /\ u \in Seq(Counted(Assertions, P))
      /\ \A i \in DOMAIN u : u[i] \in Assertions /\ Counts(u[i], P) /\ u[i].key \in Keys(s)
      /\ \A i, j \in DOMAIN u : u[i].key = u[j].key => i = j
      /\ \A c \in Assertions : Counts(c, P) /\ c.key \in Keys(s) => \E i \in DOMAIN u : u[i].key = c.key
  BY <1>3, UsableAssertions
<1>5. /\ v \in Seq(Counted(Assertions, P))
      /\ \A i \in DOMAIN v : v[i] \in Assertions /\ Counts(v[i], P) /\ v[i].key \in Keys(s)
      /\ \A i, j \in DOMAIN v : v[i].key = v[j].key => i = j
      /\ \A c \in Assertions : Counts(c, P) /\ c.key \in Keys(s) => \E i \in DOMAIN v : v[i].key = c.key
  BY <1>3, UsableAssertions
<1>6. PICK n, m \in Nat : n = Len(u) /\ m = Len(v) /\ DOMAIN u = 1..n /\ DOMAIN v = 1..m
  BY <1>4, <1>5, LenProperties
<1>7. PICK f : f = [i \in 1..n |-> CHOOSE j \in 1..m : v[j].key = u[i].key]
  OBVIOUS
<1>8. \A i \in 1..n : f[i] \in 1..m /\ v[f[i]].key = u[i].key
  BY <1>4, <1>5, <1>6, <1>7
<1>9. Pairs(f, n, m)
  <2>1. f \in [1..n -> 1..m]
    BY <1>7, <1>8
  <2>2. ASSUME NEW i \in 1..n, NEW j \in 1..n, f[i] = f[j] PROVE i = j
    <3>1. u[i].key = u[j].key
      BY <1>8, <2>2
    <3>2. QED
      BY <1>4, <1>6, <3>1
  <2>3. ASSUME NEW t \in 1..m PROVE \E i \in 1..n : f[i] = t
    <3>1. PICK i \in 1..n : u[i].key = v[t].key
      BY <1>4, <1>5, <1>6
    <3>2. PICK j \in 1..m : j = f[i] /\ v[j].key = u[i].key
      BY <1>8
    <3>3. j = t
      BY <1>5, <1>6, <3>1, <3>2
    <3>4. QED
      BY <3>2, <3>3
  <2>4. QED
    BY <2>1, <2>2, <2>3 DEF Pairs
<1>10. ASSUME NEW i \in 1..n
       PROVE  contribution(v[f[i]], P) = contribution(u[i], P) /\ tactic(v[f[i]], P) = tactic(u[i], P)
  <2>1. PICK c, d \in Assertions : c = u[i] /\ d = v[f[i]] /\ c.key = d.key
    <3>1. f[i] \in DOMAIN v /\ i \in DOMAIN u
      BY <1>6, <1>8
    <3>2. u[i] \in Assertions /\ v[f[i]] \in Assertions
      BY <1>4, <1>5, <3>1
    <3>3. QED
      BY <1>8, <3>2
  <2>2. c.predicate = d.predicate /\ c.polarity = d.polarity
    BY <2>1, RederiveAssumption
  <2>3. contribution(d, P) = contribution(c, P) /\ tactic(d, P) = tactic(c, P)
    BY <2>2 DEF contribution, tactic, Sign
  <2>4. QED
    BY <2>1, <2>3
<1>11. base_total(u, P) = base_total(v, P)
  <2>1. PICK a, b : a = Contributions(u, P) /\ b = Contributions(v, P)
    OBVIOUS
  <2>2. a \in [1..n -> Int] /\ (Volume(a) <= MaxInt => base_total(u, P) = Sum(a))
    BY <1>2, <1>4, <1>6, <2>1, BaseIsExplained
  <2>3. b \in [1..m -> Int] /\ (Volume(b) <= MaxInt => base_total(v, P) = Sum(b))
    BY <1>2, <1>5, <1>6, <2>1, BaseIsExplained
  <2>4. \A i \in 1..n : b[f[i]] = a[i]
    BY <1>6, <1>8, <1>10, <2>1 DEF Contributions
  <2>5. Rearranges(f, a, n, b, m)
    BY <1>9, <2>2, <2>3, <2>4 DEF Rearranges
  <2>6. Sum(b) = Sum(a) /\ Volume(b) = Volume(a)
    BY <2>5, SumRearranged, VolumeRearranged
  <2>7. Volume(a) <= MaxInt
    BY <1>1, <1>3, <2>1 DEF Fits
  <2>8. QED
    BY <2>2, <2>3, <2>6, <2>7
<1>12. Present(u, P) = Present(v, P)
  <2>1. ASSUME NEW t PROVE t \in Present(u, P) <=> t \in Present(v, P)
    <3>1. t \in Present(u, P) <=> \E i \in 1..n : tactic(u[i], P) = t
      BY <1>6 DEF Present, Range
    <3>2. t \in Present(v, P) <=> \E j \in 1..m : tactic(v[j], P) = t
      BY <1>6 DEF Present, Range
    <3>3. \A j \in 1..m : \E i \in 1..n : f[i] = j
      BY <1>9 DEF Pairs
    <3>4. ASSUME NEW i \in 1..n, tactic(u[i], P) = t PROVE \E j \in 1..m : tactic(v[j], P) = t
      <4>1. f[i] \in 1..m /\ tactic(v[f[i]], P) = t
        BY <1>8, <1>10, <3>4
      <4>2. QED
        BY <4>1
    <3>5. ASSUME NEW j \in 1..m, tactic(v[j], P) = t PROVE \E i \in 1..n : tactic(u[i], P) = t
      <4>1. PICK i \in 1..n : f[i] = j
        BY <3>3
      <4>2. tactic(u[i], P) = t
        BY <1>10, <3>5, <4>1
      <4>3. QED
        BY <4>2
    <3>6. QED
      BY <3>1, <3>2, <3>4, <3>5
  <2>2. QED
    BY <2>1
<1>13. total_score(u, P) = total_score(v, P)
  BY <1>11, <1>12 DEF total_score, chain_bonus
<1>14. u = <<>> <=> v = <<>>
  <2>1. (u = <<>> <=> n = 0) /\ (v = <<>> <=> m = 0)
    BY <1>4, <1>5, <1>6, EmptySeq
  <2>2. n # 0 => m # 0
    <3>1. ASSUME n # 0 PROVE m # 0
      <4>1. 1 \in 1..n
        BY <3>1
      <4>2. f[1] \in 1..m
        BY <1>8, <4>1
      <4>3. QED
        BY <4>2
    <3>2. QED
      BY <3>1
  <2>3. m # 0 => n # 0
    <3>1. ASSUME m # 0 PROVE n # 0
      <4>1. 1 \in 1..m
        BY <3>1
      <4>2. PICK i \in 1..n : f[i] = 1
        BY <1>9, <4>1 DEF Pairs
      <4>3. QED
        BY <4>2
    <3>2. QED
      BY <3>1
  <2>4. QED
    BY <2>1, <2>2, <2>3
<1>15. CASE u = <<>>
  BY <1>1, <1>3, <1>14, <1>15 DEF adjudicate, NothingUsable
<1>16. CASE u # <<>>
  BY <1>1, <1>3, <1>13, <1>14, <1>16 DEF adjudicate, NothingUsable
<1>17. QED
  BY <1>15, <1>16

\* A result that was returned is that of the investigation and the case.
RederiveInv ==
    /\ case_claims \in OriginalClaimSets
    /\ result # NoResult =>
          /\ status = "done"
          /\ result.added = added /\ result.removed = removed
          /\ result.disposition_changed =
                (adjudicate(accepted, CasePolicy, CaseVersion).disposition # SealedDisposition)

LEMMA StepsKeepRederiveInv == RederiveInv /\ [Next]_vars => RederiveInv'
<1> SUFFICES ASSUME RederiveInv, [Next]_vars PROVE RederiveInv'
  OBVIOUS
<1>1. CASE UNCHANGED vars
  BY <1>1 DEF RederiveInv, vars, investigation, added, removed, Keys, SealedDisposition
<1>2. CASE run_investigation
  <2>1. status = "running" /\ result' = result /\ case_claims' = case_claims
    BY <1>2 DEF run_investigation, InvestigationStep, Turn, NoTurns
  <2>2. QED
    BY <2>1 DEF RederiveInv
<1>3. CASE replay_rederive
  <2>1. accepted' = accepted /\ status' = status /\ case_claims' = case_claims
    BY <1>3 DEF replay_rederive, investigation
  <2>2. added' = added /\ removed' = removed /\ SealedDisposition' = SealedDisposition
    BY <2>1 DEF added, removed, Keys, SealedDisposition
  <2>3. /\ status = "done" /\ result'.added = added /\ result'.removed = removed
        /\ result'.disposition_changed =
              (adjudicate(accepted, CasePolicy, CaseVersion).disposition # SealedDisposition)
    BY <1>3 DEF replay_rederive
  <2>4. QED
    BY <2>1, <2>2, <2>3 DEF RederiveInv
<1>4. QED
  BY <1>1, <1>2, <1>3 DEF Next

\* What a rederivation reports is about the claims it has and those of the case,
\* from then on.
THEOREM RederiveInvariant == Spec => []RederiveInv
<1>1. Init => RederiveInv
  BY DEF Init, RederiveInv
<1>2. QED
  BY <1>1, StepsKeepRederiveInv, PTL DEF Spec

\* The diff measures the drift of what is asserted (replay.py:127-132): where the
\* weights of the case's claims fit into the arithmetic, a rederivation that
\* repeats no assertion, adds none and removes none gives the sealed disposition,
\* in whatever order its claims come and whatever their ids are.
THEOREM DiffExplainsDisposition == Spec => [](Fits(case_claims) => EmptyDiffSameDisposition)
<1>1. ASSUME ResultInv, RederiveInv, Fits(case_claims) PROVE EmptyDiffSameDisposition
  <2> SUFFICES ASSUME result.returned, NoDuplicates(accepted), NoDuplicates(case_claims),
                      result.added = {}, result.removed = {}
               PROVE  ~result.disposition_changed
    BY DEF EmptyDiffSameDisposition
  <2>1. result # NoResult
    BY DEF NoResult
  <2>2. added = {} /\ removed = {}
    BY <1>1, <2>1 DEF RederiveInv
  <2>3. Keys(case_claims) = Keys(accepted)
    BY <2>2 DEF added, removed
  <2>4. accepted \in Seq(Assertions)
    <3>1. accepted \in Seq(Proposable)
      BY <1>1 DEF ResultInv, BooksBalance, Lists
    <3>2. Proposable \subseteq Assertions
      BY DEF Assertions
    <3>3. QED
      BY <3>1, <3>2
  <2>5. case_claims \in Seq(Assertions)
    <3>1. case_claims \in Seq(Range(case_claims)) /\ case_claims \in OriginalClaimSets
      BY <1>1, RederiveAssumption DEF RederiveInv
    <3>2. Range(case_claims) \subseteq Assertions
      BY <3>1 DEF Assertions
    <3>3. QED
      BY <3>1, <3>2
  <2>6. adjudicate(case_claims, CasePolicy, CaseVersion).disposition
          = adjudicate(accepted, CasePolicy, CaseVersion).disposition
    BY <1>1, <2>3, <2>4, <2>5, SameAssertionsSameDisposition
  <2>7. QED
    BY <1>1, <2>1, <2>6 DEF RederiveInv, SealedDisposition
<1>2. QED
  BY <1>1, InvestigationInvariant, RederiveInvariant, PTL
=============================================================================
