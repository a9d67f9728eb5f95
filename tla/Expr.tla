-------------------------------- MODULE Expr --------------------------------
(***************************************************************************)
(* CDL expressions (detect/expr) and their two meanings: Eval, which the   *)
(* streaming path runs, and SqlEval, what SQLite computes for the text     *)
(* that ToSQL renders.                                                     *)
(*                                                                         *)
(* Expressions are the trees the parser returns.  A node has an operator   *)
(* and arguments; list literals and calls are nodes like any other.        *)
(* Values carry the Go or SQLite type they have, and a float is a reduced  *)
(* fraction.                                                               *)
(***************************************************************************)
EXTENDS Integers, Sequences, SequencesExt, Stats

CONSTANT assetGroups   \* the static table of asset_group

Nil      == <<"nil">>
Error    == <<"error">>
Whole(n) == <<"int", n>>
Str(s)   == <<"string", s>>
Bool(b)  == <<"bool", b>>
List(s)  == <<"list", s>>

Kind(v) == v[1]

Abs(n) == IF n < 0 THEN -n ELSE n

Cancel(p, q, g) == <<"float", p \div g, q \div g>>

\* p/q for q # 0, reduced, with a positive denominator.
Float(p, q) ==
    Cancel(p, q, (q \div Abs(q)) * Max({d \in 1..Abs(q) : p % d = 0 /\ q % d = 0}))

IsNumber(v)  == Kind(v) \in {"int", "float"}
Numerator(v) == v[2]
Denominator(v) == IF Kind(v) = "int" THEN 1 ELSE v[3]

Literal(v)       == [op |-> "literal", value |-> v]
Ident(path)      == [op |-> "ident", path |-> path]
Node(op, args)   == [op |-> op, args |-> args]

isNullLiteral(n) == n.op = "literal" /\ n.value = Nil

\* The paths an expression reads.
RECURSIVE Paths(_)
Paths(n) ==
    CASE n.op = "literal" -> {}
      [] n.op = "ident"   -> {n.path}
      [] OTHER            -> UNION {Paths(n.args[i]) : i \in DOMAIN n.args}

(***************************************************************************)
(* Numbers.                                                                *)
(***************************************************************************)
CompareIntegers(op, a, b) ==
    CASE op = ">"  -> a > b
      [] op = ">=" -> a >= b
      [] op = "<"  -> a < b
      [] op = "<=" -> a <= b
      [] op = "==" -> a = b
      [] op = "!=" -> a # b

Compare(op, l, r) ==
    CompareIntegers(op, Numerator(l) * Denominator(r), Numerator(r) * Denominator(l))

\* (p/q) op (s/t), as <<numerator, denominator>>.
ComputeFraction(op, p, q, s, t) ==
    CASE op = "+" -> <<p * t + s * q, q * t>>
      [] op = "-" -> <<p * t - s * q, q * t>>
      [] op = "*" -> <<p * s, q * t>>
      [] op = "/" -> <<p * t, q * s>>

AsNumber(fraction, exact) ==
    IF exact THEN Whole(fraction[1]) ELSE Float(fraction[1], fraction[2])

\* Defined unless it divides by zero.  A quotient is never an integer.
Compute(op, l, r) ==
    AsNumber(ComputeFraction(op, Numerator(l), Denominator(l), Numerator(r), Denominator(r)),
             op # "/" /\ Kind(l) = "int" /\ Kind(r) = "int")

Comparisons == {">", ">=", "<", "<="}
Arithmetic  == {"+", "-", "*", "/"}
DividesByZero(op, r) == op = "/" /\ Numerator(r) = 0

\* A scalar as text; what is neither string, integer, boolean nor null is not
\* told apart.
renderScalar(v) ==
    CASE Kind(v) = "string" -> v[2]
      [] Kind(v) = "int"    -> ToString(v[2])
      [] Kind(v) = "bool"   -> IF v[2] THEN "true" ELSE "false"
      [] Kind(v) = "nil"    -> "#null"
      [] OTHER              -> "#unsupported"

(***************************************************************************)
(* Evaluation in Go.  An error anywhere is the result of the whole.        *)
(***************************************************************************)
valuesEqual(a, b) == IF IsNumber(a) /\ IsNumber(b) THEN Compare("==", a, b) ELSE a = b

asset_group(args) ==
    IF Len(args) = 1 /\ Kind(args[1]) = "string"
    THEN List(Lookup(assetGroups, args[1][2], <<>>))
    ELSE Error

\* The arguments with which baseline_is_novel gets as far as the store.
ReachesStore(args) ==
    Len(args) = 3 /\ Kind(args[1]) = "string" /\ Kind(args[2]) = "string"

baseline_is_novel(args, store) ==
    IF ReachesStore(args)
    THEN Bool(IsNovel(Get(store, args[1][2]).Baselines[args[1][2]],
                      store.WarmupThreshold, args[2][2], renderScalar(args[3])))
    ELSE Error

\* An operator other than and, or, whose operands are all evaluated first.
Apply(op, v, store) ==
    IF Error \in ToSet(v) THEN Error ELSE
    CASE op = "list" -> List(v)
      [] op = "asset_group" -> asset_group(v)
      [] op = "baseline_is_novel" -> baseline_is_novel(v, store)
      [] op = "not" -> IF Kind(v[1]) = "bool" THEN Bool(~v[1][2]) ELSE Error
      [] op = "neg" -> IF IsNumber(v[1]) THEN Compute("-", Whole(0), v[1]) ELSE Error
      [] op = "==" -> Bool(valuesEqual(v[1], v[2]))
      [] op = "!=" -> Bool(~valuesEqual(v[1], v[2]))
      [] op = "in" -> IF Kind(v[2]) = "list"
                      THEN Bool(\E i \in DOMAIN v[2][2] : valuesEqual(v[1], v[2][2][i]))
                      ELSE Error
      [] op \in Comparisons \union Arithmetic ->
             IF ~IsNumber(v[1]) \/ ~IsNumber(v[2]) THEN Error
             ELSE IF op \in Comparisons THEN Bool(Compare(op, v[1], v[2]))
             ELSE IF DividesByZero(op, v[2]) THEN Error
             ELSE Compute(op, v[1], v[2])

AsBool(v) == IF Kind(v) = "bool" THEN v ELSE Error

\* env gives every path its value, or an error.
RECURSIVE Eval(_, _, _)
Eval(n, env, store) ==
    CASE n.op = "literal" -> n.value
      [] n.op = "ident"   -> Lookup(env, n.path, Error)
      [] n.op \in {"and", "or"} ->
             LET left == AsBool(Eval(n.args[1], env, store)) IN
             IF left \in {Error, Bool(n.op = "or")} THEN left
             ELSE AsBool(Eval(n.args[2], env, store))
      [] OTHER -> Apply(n.op, [i \in DOMAIN n.args |-> Eval(n.args[i], env, store)], store)

EvalBool(n, env, store) == AsBool(Eval(n, env, store))

\* The operands an operator evaluates, given the values they have: it stops
\* at an error, and the connectives where the result is known.
Reached(op, values) ==
    LET Continues(v) == IF op \in {"and", "or"} THEN v = Bool(op = "and") ELSE v # Error IN
    {i \in DOMAIN values : \A j \in 1..i - 1 : Continues(values[j])}

\* The entity a call asks the store for, if any.
Asked(op, values) ==
    IF op = "baseline_is_novel" /\ Error \notin ToSet(values) /\ ReachesStore(values)
    THEN {values[1][2]} ELSE {}

\* The entities whose baseline an evaluation asks the store for.
RECURSIVE Queried(_, _, _)
Queried(n, env, store) ==
    IF n.op \in {"literal", "ident"} THEN {}
    ELSE LET values == [i \in DOMAIN n.args |-> Eval(n.args[i], env, store)] IN
         UNION {Queried(n.args[i], env, store) : i \in Reached(n.op, values)}
             \union Asked(n.op, values)

(***************************************************************************)
(* Evaluation in SQLite of what ToSQL renders.  A truth value is an        *)
(* integer or NULL, and nothing is an error.                               *)
(***************************************************************************)
\* The stored form of a value; database/sql binds a boolean as 0 or 1.
SqlValue(v) == IF Kind(v) = "bool" THEN Whole(IF v[2] THEN 1 ELSE 0) ELSE v

SqlBool(b) == SqlValue(Bool(b))

\* Text is 0 as a number, unless it starts with one: none does here.
SqlNumber(v) == IF IsNumber(v) THEN v ELSE Whole(0)

IsTrue(v)  == v # Nil /\ Numerator(SqlNumber(v)) # 0
IsFalse(v) == v # Nil /\ Numerator(SqlNumber(v)) = 0

\* A number is below any text.
SqlCompare(op, l, r) ==
    IF Nil \in {l, r} THEN Nil
    ELSE IF IsNumber(l) /\ IsNumber(r) THEN SqlBool(Compare(op, l, r))
    ELSE IF op \in {"==", "!="} THEN SqlBool((l = r) = (op = "=="))
    ELSE SqlBool(IsNumber(l) = (op \in {"<", "<="}))

SqlIn(v, items) ==
    LET matches == {SqlCompare("==", v, items[i]) : i \in DOMAIN items} IN
    IF SqlBool(TRUE) \in matches THEN SqlBool(TRUE)
    ELSE IF Nil \in matches THEN Nil ELSE SqlBool(FALSE)

\* The lookup tables the store is written to.
baseline_seen(store) ==
    UNION {UNION {{<<e, a, v>> : v \in store.Baselines[e].SeenValues[a]}
                    : a \in DOMAIN store.Baselines[e].SeenValues}
             : e \in DOMAIN store.Baselines}

baseline_observation_count(store) ==
    {<<row[1], row[2], store.Baselines[row[1]].ObservationCount[row[2]]>> : row \in baseline_seen(store)}

\* A count for an attribute never observed is no row, hence NULL.
sql_baseline_is_novel(v, store) ==
    LET Of(row) == Str(row[1]) = v[1] /\ Str(row[2]) = v[2]
        counts  == {row \in baseline_observation_count(store) : Of(row)}
        warm    == IF counts = {} THEN Nil
                   ELSE SqlBool(\E row \in counts : row[3] >= store.WarmupThreshold)
        seen    == \E row \in baseline_seen(store) : Of(row) /\ Str(row[3]) = v[3]
    IN  IF IsFalse(warm) \/ seen THEN SqlBool(FALSE) ELSE warm

SqlApply(op, v, store) ==
    CASE op = "list" -> List(v)
      [] op = "asset_group" -> List(Lookup(assetGroups, v[1][2], <<>>))
      [] op = "baseline_is_novel" -> sql_baseline_is_novel(v, store)
      [] op = "not" -> IF v[1] = Nil THEN Nil ELSE SqlBool(IsFalse(v[1]))
      [] op = "neg" -> IF v[1] = Nil THEN Nil ELSE Compute("-", Whole(0), SqlNumber(v[1]))
      [] op = "and" -> IF IsFalse(v[1]) \/ IsFalse(v[2]) THEN SqlBool(FALSE)
                       ELSE IF Nil \in {v[1], v[2]} THEN Nil ELSE SqlBool(TRUE)
      [] op = "or"  -> IF IsTrue(v[1]) \/ IsTrue(v[2]) THEN SqlBool(TRUE)
                       ELSE IF Nil \in {v[1], v[2]} THEN Nil ELSE SqlBool(FALSE)
      [] op = "in"  -> SqlIn(v[1], v[2][2])
      [] op \in Comparisons \union {"==", "!="} -> SqlCompare(op, v[1], v[2])
      [] op \in Arithmetic ->
             IF Nil \in {v[1], v[2]} \/ DividesByZero(op, SqlNumber(v[2])) THEN Nil
             ELSE Compute(op, SqlNumber(v[1]), SqlNumber(v[2]))

\* row gives every column its value.  Equality with a null literal is
\* rendered as IS NULL.
RECURSIVE SqlEval(_, _, _)
SqlEval(n, row, store) ==
    CASE n.op = "literal" -> SqlValue(n.value)
      [] n.op = "ident"   -> row[n.path]
      [] OTHER ->
             LET v     == [i \in DOMAIN n.args |-> SqlEval(n.args[i], row, store)]
                 nulls == {i \in DOMAIN n.args : isNullLiteral(n.args[i])}
             IN  IF n.op \in {"==", "!="} /\ nulls # {}
                 THEN SqlBool((v[IF 1 \in nulls THEN 2 ELSE 1] = Nil) = (n.op = "=="))
                 ELSE SqlApply(n.op, v, store)
=============================================================================
