------------------------------- MODULE Values -------------------------------
(***************************************************************************)
(* Types (type.rs), JSON values, and their order (cmp_json).  Both are     *)
(* tuples that begin with their kind; a text is opaque.                    *)
(*                                                                         *)
(* What nests is defined level by level: level n of a definition is about  *)
(* what nests less than n deep, and is made over level n - 1.              *)
(***************************************************************************)
EXTENDS Integers, FiniteSets, SequencesExt

CONSTANTS
    Nesting,        \* bound: levels of types, values and expressions
    Texts,          \* the texts there are, in their order
    LengthOf,       \* their lengths
    NumberOf,       \* those that parse as a number, and the number
    PrettyOf,       \* pretty, on those that it changes
    TextOf          \* how some values are written; the others share one text

Text == Range(Texts)

ASSUME ValuesAssumption ==
    /\ Nesting \in Nat /\ Nesting > 1
    /\ Texts \in Seq(STRING) /\ Texts # << >>
    /\ LengthOf \in [Text -> Nat]
    /\ NumberOf \in [DOMAIN NumberOf -> Int]
    /\ PrettyOf \in [DOMAIN PrettyOf -> Text]
    /\ TextOf \in [DOMAIN TextOf -> Text]

Null == <<"null">>
Bool(b) == <<"bool", b>>
Num(n) == <<"number", n>>
Str(s) == <<"string", s>>
Arr(s) == <<"array", s>>
Obj(f) == <<"map", f>>

Kind(x) == x[1]

(* A map gives each text its entry, or says that it has none.              *)
Absent == <<"absent">>
Maps(S) == [Text -> S \cup {Absent}]
Entries(f) == {k \in Text : f[k] # Absent}

(* The outcomes that are no value and no type.                             *)
Panic == <<"panic">>
TypeError == <<"error">>

BoolT == <<"bool">>
NumberT == <<"number">>
StringT == <<"string">>
ArrayT(t) == <<"array", t>>
MapT(t) == <<"map", t>>

TypesOver(types) == {BoolT, NumberT, StringT} \cup ({"array", "map"} \X types)

Types[n \in 0 .. Nesting] == IF n = 0 THEN {} ELSE TypesOver(Types[n - 1])

Type == Types[Nesting]

JsonOver(json) ==
    {Null} \cup {Bool(b) : b \in BOOLEAN} \cup ({"number"} \X Int) \cup ({"string"} \X Text)
    \cup ({"array"} \X Seq(json)) \cup ({"map"} \X Maps(json))

Json[n \in 0 .. Nesting] == IF n = 0 THEN {} ELSE JsonOver(Json[n - 1])

Value == Json[Nesting]

(* A value is of a type when it or any part of it is null, too.            *)
ValuesOver(n, valuesOf) ==
    [t \in Types[n] |-> {Null} \cup
        CASE Kind(t) = "bool" -> {Bool(b) : b \in BOOLEAN}
          [] Kind(t) = "number" -> {"number"} \X Int
          [] Kind(t) = "string" -> {"string"} \X Text
          [] Kind(t) = "array" -> {"array"} \X Seq(valuesOf[t[2]])
          [] Kind(t) = "map" -> {"map"} \X Maps(valuesOf[t[2]])]

ValuesOf[n \in 0 .. Nesting] == IF n = 0 THEN << >> ELSE ValuesOver(n, ValuesOf[n - 1])

Of(t) == ValuesOf[Nesting][t]

-----------------------------------------------------------------------------
CompareNulls(u, v) ==
    IF u = v THEN "equal" ELSE IF u = Null THEN "less" ELSE "greater"

Ordering(lt, eq) == IF lt THEN "less" ELSE IF eq THEN "equal" ELSE "greater"

Place(s) == CHOOSE i \in DOMAIN Texts : Texts[i] = s

First(I) == CHOOSE i \in I : \A k \in I : i <= k

(* Arrays are compared as far as both go.                                  *)
CompareArrays(compare, s, t) ==
    LET each == [i \in DOMAIN s \cap DOMAIN t |-> compare[s[i]][t[i]]]
        differ == {i \in DOMAIN each : each[i] # "equal"}
    IN  IF differ = {} THEN "equal" ELSE each[First(differ)]

(* cmp_json                                                                *)
ComparisonOver(n, compare) ==
    [u \in Json[n] |-> [v \in Json[n] |->
        IF Null \in {u, v} THEN CompareNulls(u, v)
        ELSE IF Kind(u) # Kind(v) \/ Kind(u) = "map" THEN "panic"
        ELSE CASE Kind(u) = "bool" -> Ordering(~ u[2] /\ v[2], u[2] = v[2])
               [] Kind(u) = "number" -> Ordering(u[2] < v[2], u[2] = v[2])
               [] Kind(u) = "string" -> Ordering(Place(u[2]) < Place(v[2]), u[2] = v[2])
               [] Kind(u) = "array" -> CompareArrays(compare, u[2], v[2])]]

Comparison[n \in 0 .. Nesting] == IF n = 0 THEN << >> ELSE ComparisonOver(n, Comparison[n - 1])

Compare(u, v) == Comparison[Nesting][u][v]

(* An array in the order of keys, which are its elements or made of them.  *)
(* Where Compare is no order the outcome is some permutation.              *)
Sorted(s, keys) ==
    LET ps == Bijection(DOMAIN s, DOMAIN s)
        good == {p \in ps : \A i, j \in DOMAIN s :
                                i < j => Compare(keys[p[i]], keys[p[j]]) # "greater"}
        q == IF good # {} THEN CHOOSE p \in good : TRUE ELSE CHOOSE p \in ps : TRUE
        Fails(i, j) == Panic \in {keys[i], keys[j]} \/ Compare(keys[i], keys[j]) = "panic"
    IN  IF \E i, j \in DOMAIN s : i < j /\ Fails(i, j) THEN Panic
        ELSE Arr([i \in DOMAIN s |-> s[q[i]]])

=============================================================================
