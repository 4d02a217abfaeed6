---------------------------- MODULE Transformers ----------------------------
(***************************************************************************)
(* What a transformer makes of a type, and of a value                      *)
(* (directives/expressions/transformer.rs).  A transformer is <<op>> or    *)
(* <<op, argument>>; an expression is a sequence of transformers.  A regex *)
(* is what it finds and makes of each text.                                *)
(***************************************************************************)
EXTENDS Values

CONSTANT Regexes

ASSUME RegexesAssumption ==
    \A re \in Regexes :
        /\ re.found \in [DOMAIN re.found -> Seq(Maps({"string"} \X Text))]
        /\ re.into \in Text

Bare == {"is-null", "is-not-null", "hash", "not", "as-number", "length", "is-empty", "flatten",
         "sort", "as-string", "pretty"}

Bounded == {"greater-than", "lesser-than", "greater-or-equal", "lesser-or-equal", "equals"}

OfNumber == Bounded \cup {"between", "in"}

OfText == {"equals-string", "in-strings", "matches"}

OfRegex == {"capture", "all-captures", "matches", "replace"}

Nested == {"each", "filter", "any", "all", "sort-by"}

Simple ==
    {<<op>> : op \in Bare} \cup (Bounded \X Int) \cup ({"between"} \X (Int \X Int))
    \cup ({"in"} \X SUBSET Int) \cup ({"get"} \X Text) \cup ({"get-idx"} \X Nat)
    \cup ({"equals-string"} \X Text) \cup ({"in-strings"} \X SUBSET Text) \cup (OfRegex \X Regexes)

ExpressionsOver(expressions) ==
    {ts \in Seq(Simple \cup (Nested \X expressions)) : ts = << >> \/ Front(ts) \in expressions}

Expressions[n \in 0 .. Nesting] == IF n = 0 THEN {} ELSE ExpressionsOver(Expressions[n - 1])

Expression == Expressions[Nesting]

-----------------------------------------------------------------------------
Lengthy == {"string", "array", "map"}

(* Variant: sort-by does not look at the type of its key.                  *)
AnyKey(t) == t # TypeError

(* What may be sorted: a map may not, an array of maps is not looked into. *)
Sortable(t) == t # TypeError /\ Kind(t) # "map"

(* Bound: a type that nests too deep is an error.                          *)
Shallow(t) == IF t \in Type THEN t ELSE TypeError

(* Transformer::type_for, with typeOf for the expressions in it.           *)
TypeFor(typeOf, tr, t) ==
    LET op == tr[1]
        inner == typeOf[tr[2]][t[2]]
    IN  CASE op \in {"is-null", "is-not-null"} -> BoolT
          [] op = "not" /\ t = BoolT -> BoolT
          [] op \in OfNumber /\ t = NumberT -> BoolT
          [] op \in OfText /\ t = StringT -> BoolT
          [] op \in {"hash", "as-number"} /\ t = StringT -> NumberT
          [] op \in {"pretty", "replace"} /\ t = StringT -> StringT
          [] op = "as-string" /\ t \in {NumberT, BoolT, StringT} -> StringT
          [] op = "capture" /\ t = StringT -> Shallow(MapT(StringT))
          [] op = "all-captures" /\ t = StringT -> Shallow(ArrayT(MapT(StringT)))
          [] op = "length" /\ Kind(t) \in Lengthy -> NumberT
          [] op = "is-empty" /\ Kind(t) \in Lengthy -> BoolT
          [] op = "get" /\ Kind(t) = "map" -> t[2]
          [] op = "get-idx" /\ Kind(t) = "array" -> t[2]
          [] op = "flatten" /\ Kind(t) = "array" /\ Kind(t[2]) = "array" -> t[2]
          [] op = "each" /\ Kind(t) \in {"array", "map"} -> Shallow(<<Kind(t), inner>>)
          [] op = "filter" /\ Kind(t) \in {"array", "map"} /\ inner = BoolT -> t
          [] op \in {"any", "all"} /\ Kind(t) = "array" /\ inner = BoolT -> BoolT
          [] op = "sort" /\ Kind(t) = "array" /\ Sortable(t[2]) -> t
          [] op = "sort-by" /\ Kind(t) = "array" /\ Sortable(inner) -> t
          [] OTHER -> TypeError

(* TransformerExpression::type_for                                         *)
TypingOver(n, typeOf) ==
    [ts \in Expressions[n] |-> [t \in Type \cup {TypeError} |->
        LET before == typeOf[Front(ts)][t] IN
        IF ts = << >> THEN t
        ELSE IF before = TypeError THEN TypeError
        ELSE TypeFor(typeOf, Last(ts), before)]]

Typing[n \in 0 .. Nesting] == IF n = 0 THEN << >> ELSE TypingOver(n, Typing[n - 1])

TypeOfAll(ts, t) == Typing[Nesting][ts][t]

-----------------------------------------------------------------------------
(* Variant: the bound is left out of lesser-or-equal, too.                 *)
Strict(op, x, a) ==
    \/ op = "greater-than" /\ x > a
    \/ op = "lesser-than" /\ x < a
    \/ op = "greater-or-equal" /\ x > a
    \/ op = "lesser-or-equal" /\ x < a
    \/ op = "between" /\ a[1] <= x /\ x <= a[2]
    \/ op = "equals" /\ x = a
    \/ op = "in" /\ x \in a

(* greater-or-equal leaves its bound out.                                  *)
NumberTest(op, x, a) ==
    \/ op = "greater-than" /\ x > a
    \/ op = "lesser-than" /\ x < a
    \/ op = "greater-or-equal" /\ x > a
    \/ op = "lesser-or-equal" /\ x <= a
    \/ op = "between" /\ a[1] <= x /\ x <= a[2]
    \/ op = "equals" /\ x = a
    \/ op = "in" /\ x \in a

Finds(re, s) == IF s \in DOMAIN re.found THEN re.found[s] ELSE << >>

Written(v) == IF v \in DOMAIN TextOf THEN TextOf[v] ELSE Texts[1]

OnText(op, s, tr) ==
    CASE op = "hash" -> Num(Place(s))
      [] op = "as-number" -> IF s \in DOMAIN NumberOf THEN Num(NumberOf[s]) ELSE Null
      [] op = "pretty" -> Str(IF s \in DOMAIN PrettyOf THEN PrettyOf[s] ELSE s)
      [] op = "as-string" -> Str(s)
      [] op = "length" -> Num(LengthOf[s])
      [] op = "is-empty" -> Bool(LengthOf[s] = 0)
      [] op = "equals-string" -> Bool(s = tr[2])
      [] op = "in-strings" -> Bool(s \in tr[2])
      [] op = "matches" -> Bool(Finds(tr[2], s) # << >>)
      [] op = "capture" -> IF Finds(tr[2], s) = << >> THEN Null ELSE Obj(Finds(tr[2], s)[1])
      [] op = "all-captures" -> Arr([i \in DOMAIN Finds(tr[2], s) |-> Obj(Finds(tr[2], s)[i])])
      [] op = "replace" -> Str(IF Finds(tr[2], s) = << >> THEN s ELSE tr[2].into)
      [] OTHER -> Panic

(* A predicate that gives null does not hold.                              *)
Holds(b) == b = Bool(TRUE)

IsTruth(b) == b \in {Null, Bool(TRUE), Bool(FALSE)}

(* Those of the elements of an array at places I.                          *)
Chosen(s, I) == FlattenSeq([i \in DOMAIN s |-> IF i \in I THEN <<s[i]>> ELSE << >>])

(* Transformers that apply an expression to each element of an array, with *)
(* made what it gives; any and all stop at the first one that decides.     *)
OnElements(op, s, made) ==
    LET Decides(i) == op \in {"any", "all"} /\ (Holds(made[i]) <=> op = "any")
        reached == {i \in DOMAIN s : \A j \in DOMAIN s : j < i => ~ Decides(j)}
        chosen == {i \in reached : Holds(made[i])}
    IN  IF op = "sort-by" THEN Sorted(s, made)
        ELSE IF \E i \in reached : made[i] = Panic \/ (op # "each" /\ ~ IsTruth(made[i])) THEN Panic
        ELSE CASE op = "each" -> Arr(made)
               [] op = "any" -> Bool(chosen # {})
               [] op = "all" -> Bool(chosen = DOMAIN s)
               [] op = "filter" -> Arr(Chosen(s, chosen))

OnSequence(eval, op, s, tr) ==
    CASE op = "length" -> Num(Len(s))
      [] op = "is-empty" -> Bool(s = << >>)
      [] op = "get-idx" -> IF tr[2] + 1 \in DOMAIN s THEN s[tr[2] + 1] ELSE Null
      [] op = "flatten" ->
            IF \E i \in DOMAIN s : Kind(s[i]) \notin {"array", "null"} THEN Panic
            ELSE Arr(FlattenSeq([i \in DOMAIN s |-> IF s[i] = Null THEN << >> ELSE s[i][2]]))
      [] op = "sort" -> Sorted(s, s)
      [] op \in Nested -> OnElements(op, s, [i \in DOMAIN s |-> eval[tr[2]][s[i]]])
      [] OTHER -> Panic

OnMap(eval, op, f, tr) ==
    LET made == [k \in Text |-> IF f[k] = Absent THEN Absent ELSE eval[tr[2]][f[k]]]
    IN  CASE op = "length" -> Num(Cardinality(Entries(f)))
          [] op = "is-empty" -> Bool(Entries(f) = {})
          [] op = "get" -> IF f[tr[2]] = Absent THEN Null ELSE f[tr[2]]
          [] op = "each" -> IF \E k \in Text : made[k] = Panic THEN Panic ELSE Obj(made)
          [] op = "filter" ->
                IF \E k \in Entries(f) : ~ IsTruth(made[k]) THEN Panic
                ELSE Obj([k \in Text |-> IF Holds(made[k]) THEN f[k] ELSE Absent])
          [] OTHER -> Panic

(* Transformer::eval, with eval for the expressions in it: null goes       *)
(* through all but the two that ask for it.                                *)
EvalOne(eval, tr, v) ==
    LET op == tr[1] IN
    IF op \in {"is-null", "is-not-null"} THEN Bool((v = Null) = (op = "is-null"))
    ELSE IF v = Null THEN Null
    ELSE CASE op = "not" /\ Kind(v) = "bool" -> Bool(~ v[2])
           [] op \in OfNumber /\ Kind(v) = "number" -> Bool(NumberTest(op, v[2], tr[2]))
           [] op = "as-string" /\ Kind(v) \in {"number", "bool"} -> Str(Written(v))
           [] Kind(v) = "string" -> OnText(op, v[2], tr)
           [] Kind(v) = "array" -> OnSequence(eval, op, v[2], tr)
           [] Kind(v) = "map" -> OnMap(eval, op, v[2], tr)
           [] OTHER -> Panic

(* TransformerExpression::eval                                             *)
EvaluationOver(n, eval) ==
    [ts \in Expressions[n] |-> [v \in Value \cup {Panic} |->
        LET before == eval[Front(ts)][v] IN
        IF ts = << >> THEN v
        ELSE IF before = Panic THEN Panic
        ELSE EvalOne(eval, Last(ts), before)]]

Evaluation[n \in 0 .. Nesting] == IF n = 0 THEN << >> ELSE EvaluationOver(n, Evaluation[n - 1])

Eval(ts, v) == Evaluation[Nesting][ts][v]

=============================================================================
