------------------------------- MODULE Rules --------------------------------
(***************************************************************************)
(* One rule of the directives on one page: its type is checked when the    *)
(* directives are loaded, and Analyzer::analyze feeds it the elements of   *)
(* the page, one by one, and takes its value.                              *)
(*                                                                         *)
(* An expression is [ext, ts, explodes]; an extractor is <<name>>, or      *)
(* <<name, expression>> for those that look at other elements.             *)
(***************************************************************************)
EXTENDS Transformers

CONSTANTS
    RuleSet,        \* the aggregator expressions, [agg, ts], to look at
    Nodes,          \* the elements of the page
    Owns,           \* Owns[n]: what an extractor finds in n itself
    Near,           \* Near[n]: elements by where they are, seen from n
    MaxFed          \* bound: elements that a selector finds

VARIABLES
    rule,
    phase,          \* "load", "feed", "done", "rejected" or "panicked"
    state,          \* AggregatorState
    fed,            \* the elements so far
    value           \* the outcome of the rule

vars == <<rule, phase, state, fed, value>>

-----------------------------------------------------------------------------
(* Extractors (directives/extractor.rs, expressions/extractor.rs).         *)

Plain == [name |-> StringT, text |-> StringT, html |-> StringT, attr |-> StringT,
          id |-> StringT, attrs |-> MapT(StringT), classes |-> ArrayT(StringT)]

One == {"parent", "select-any"}

Many == {"children", "select-all"}

ExtractorsOver(extractors) ==
    [ext : {<<name>> : name \in DOMAIN Plain} \cup ((One \cup Many) \X extractors),
     ts : Expression,
     explodes : BOOLEAN]

Extractors[n \in 0 .. Nesting] == IF n = 0 THEN {} ELSE ExtractorsOver(Extractors[n - 1])

Extractor == Extractors[Nesting]

(* The type of what the transformers of an expression are applied to.      *)
BaseType(typeOf, e) ==
    CASE e.ext[1] \in DOMAIN Plain -> Plain[e.ext[1]]
      [] e.ext[1] \in One -> typeOf[e.ext[2]]
      [] e.ext[1] \in Many -> Shallow(ArrayT(typeOf[e.ext[2]]))

ExtractorTypeOver(n, typeOf) == [e \in Extractors[n] |-> TypeOfAll(e.ts, BaseType(typeOf, e))]

ExtractorType[n \in 0 .. Nesting] ==
    IF n = 0 THEN << >> ELSE ExtractorTypeOver(n, ExtractorType[n - 1])

TypeOfExpr(e) == ExtractorType[Nesting][e]

(* Variant: what explodes is still an array.                               *)
StillArray(e) == TypeOfExpr(e)

(* ExplodingExtractorExpression::type_of                                   *)
TypeOfExploding(e) ==
    LET t == TypeOfExpr(e) IN
    IF ~ e.explodes THEN t ELSE IF Kind(t) = "array" THEN t[2] ELSE TypeError

(* What the transformers of an expression are applied to.                  *)
Base(extract, e, node) ==
    LET near == Near[node][e.ext[1]]
        there == [i \in DOMAIN near |-> extract[e.ext[2]][near[i]]]
    IN  CASE e.ext[1] \in DOMAIN Plain -> Owns[node][e.ext[1]]
          [] e.ext[1] \in One -> IF near = << >> THEN Null ELSE there[1]
          [] e.ext[1] \in Many -> IF Panic \in Range(there) THEN Panic ELSE Arr(there)

ExtractionOver(n, extract) ==
    [e \in Extractors[n] |-> [node \in Nodes |-> Eval(e.ts, Base(extract, e, node))]]

Extraction[n \in 0 .. Nesting] == IF n = 0 THEN << >> ELSE ExtractionOver(n, Extraction[n - 1])

Extract(e, node) == Extraction[Nesting][e][node]

(* What explodes and is no array, which type_of leaves to null, meets a    *)
(* todo!().                                                                *)
ExtractExploding(e, node) ==
    LET v == Extract(e, node) IN
    IF ~ e.explodes THEN <<v>> ELSE IF Kind(v) = "array" THEN v[2] ELSE <<Panic>>

-----------------------------------------------------------------------------
(* Aggregators (expressions/aggregator.rs): <<"count">>, <<kind, expr>> or *)
(* <<"group", expr, rule>>.                                                *)

RulingsOver(rulings) ==
    [agg : {<<"count">>}
           \cup ({"count-not-null", "first", "collect", "distinct", "sum"} \X Extractor)
           \cup ({"group"} \X Extractor \X rulings),
     ts : Expression]

Rulings[n \in 0 .. Nesting] == IF n = 0 THEN {} ELSE RulingsOver(Rulings[n - 1])

Ruling == Rulings[Nesting]

ASSUME RulesAssumption ==
    /\ RuleSet \subseteq Ruling
    /\ Owns \in [Nodes -> [DOMAIN Plain -> Value]]
    /\ \A node \in Nodes, name \in DOMAIN Plain : Owns[node][name] \in Of(Plain[name])
    /\ Near \in [Nodes -> [One \cup Many -> Seq(Nodes)]]
    /\ MaxFed \in Nat

AggregatorType(typeOf, r) ==
    LET kind == r.agg[1]
        t == TypeOfExploding(r.agg[2])
        inner == typeOf[r.agg[3]]
    IN  CASE kind = "count" -> NumberT
          [] kind = "count-not-null" /\ t = BoolT -> NumberT
          [] kind = "first" -> t
          [] kind \in {"collect", "distinct"} -> Shallow(ArrayT(t))
          [] kind = "sum" /\ t = NumberT -> NumberT
          [] kind = "group" /\ t = StringT -> Shallow(MapT(inner))
          [] OTHER -> TypeError

RuleTypeOver(n, typeOf) == [r \in Rulings[n] |-> TypeOfAll(r.ts, AggregatorType(typeOf, r))]

RuleType[n \in 0 .. Nesting] == IF n = 0 THEN << >> ELSE RuleTypeOver(n, RuleType[n - 1])

TypeOfRule(r) == RuleType[Nesting][r]

(* AggregatorState: its kind, with what was counted, found or grouped.     *)
StatesOver(states) ==
    ({"count", "count-not-null", "sum"} \X Int) \cup ({"first"} \X Value)
    \cup ({"collect"} \X Seq(Value)) \cup ({"distinct"} \X SUBSET Value)
    \cup ({"group"} \X Maps(states))

States[n \in 0 .. Nesting] == IF n = 0 THEN {} ELSE StatesOver(States[n - 1])

(* AggregatorState::new                                                    *)
Fresh(kind) ==
    <<kind, CASE kind \in {"count", "count-not-null", "sum"} -> 0
              [] kind = "first" -> Null
              [] kind = "collect" -> << >>
              [] kind = "distinct" -> {}
              [] kind = "group" -> [k \in Text |-> Absent]>>

(* Variant: every element opens its group anew.                            *)
AlwaysNew(groups, key, r) == Fresh(r.agg[1])

(* The state of a group, entry(key).or_insert_with.                        *)
StateOf(groups, key, r) == IF groups[key] = Absent THEN Fresh(r.agg[1]) ELSE groups[key]

(* One value v, of those found in an element, into state a; feed puts the  *)
(* element itself into the state of a group.                               *)
AddTo(feed, r, a, v) ==
    LET kind == r.agg[1]
        x == a[2]
        new == feed[StateOf(x, v[2], r.agg[3])]
    IN  IF Panic \in {a, v} THEN Panic
        ELSE CASE kind = "count-not-null" /\ IsTruth(v) -> <<kind, IF Holds(v) THEN x + 1 ELSE x>>
               [] kind = "first" -> <<kind, IF x = Null THEN v ELSE x>>
               [] kind = "collect" -> <<kind, Append(x, v)>>
               [] kind = "distinct" -> <<kind, x \cup {v}>>
               [] kind \in {"sum", "group"} /\ v = Null -> a
               [] kind = "sum" /\ Kind(v) = "number" -> <<kind, x + v[2]>>
               [] kind = "group" /\ Kind(v) = "string" ->
                    IF new = Panic THEN Panic ELSE <<kind, [x EXCEPT ![v[2]] = new]>>
               [] OTHER -> Panic

AddAll(feed, r, a, vs) ==
    LET after[i \in 0 .. Len(vs)] == IF i = 0 THEN a ELSE AddTo(feed, r, after[i - 1], vs[i])
    IN  after[Len(vs)]

(* AggregatorState::aggregate: an element into state a.                    *)
FeedingOver(n, feed) ==
    [r \in Rulings[n] |-> [node \in Nodes |-> [a \in States[n] |->
        CASE r.agg[1] = "count" -> <<"count", a[2] + 1>>
          [] r.agg[1] = "first" /\ a[2] # Null -> a
          [] OTHER -> AddAll(feed[r.agg[3]][node], r, a, ExtractExploding(r.agg[2], node))]]]

Feeding[n \in 0 .. Nesting] == IF n = 0 THEN << >> ELSE FeedingOver(n, Feeding[n - 1])

Aggregate(r, a, node) == Feeding[Nesting][r][node][a]

(* AggregatorState::finalize; the values of a set come in any order.       *)
Result(end, r, a) ==
    LET kind == r.agg[1]
        x == a[2]
        groups == [k \in Text |-> IF x[k] = Absent THEN Absent ELSE end[r.agg[3]][x[k]]]
    IN  CASE kind \in {"count", "count-not-null", "sum"} -> Num(x)
          [] kind = "first" -> x
          [] kind = "collect" -> Arr(x)
          [] kind = "distinct" -> Arr(SetToSeq(x))
          [] kind = "group" -> IF Panic \in Range(groups) THEN Panic ELSE Obj(groups)

EndingOver(n, end) == [r \in Rulings[n] |-> [a \in States[n] |-> Eval(r.ts, Result(end, r, a))]]

Ending[n \in 0 .. Nesting] == IF n = 0 THEN << >> ELSE EndingOver(n, Ending[n - 1])

Finalize(r, a) == Ending[Nesting][r][a]

-----------------------------------------------------------------------------
Init ==
    /\ rule \in RuleSet
    /\ phase = "load"
    /\ state = Fresh(rule.agg[1])
    /\ fed = << >>
    /\ value = Null

(* RuleSet validation, when the directives are loaded.                     *)
Load ==
    /\ phase = "load"
    /\ phase' = IF TypeOfRule(rule) = TypeError THEN "rejected" ELSE "feed"
    /\ UNCHANGED <<rule, state, fed, value>>

Feed(node) ==
    /\ phase = "feed"
    /\ Len(fed) < MaxFed
    /\ fed' = Append(fed, node)
    /\ state' = Aggregate(rule, state, node)
    /\ phase' = IF state' = Panic THEN "panicked" ELSE "feed"
    /\ UNCHANGED <<rule, value>>

End ==
    /\ phase = "feed"
    /\ value' = Finalize(rule, state)
    /\ phase' = IF value' = Panic THEN "panicked" ELSE "done"
    /\ UNCHANGED <<rule, state, fed>>

Next == Load \/ End \/ \E node \in Nodes : Feed(node)

Spec == Init /\ [][Next]_vars

-----------------------------------------------------------------------------
(* Correctness.                                                            *)

(* What the state of a rule may be, by its type.                           *)
StateTypesOver(n, states) ==
    [r \in Rulings[n] |->
        LET kind == r.agg[1]
            vs == Of(TypeOfExploding(r.agg[2]))
        IN  {kind} \X
            CASE kind \in {"count", "count-not-null", "sum"} -> Int
              [] kind = "first" -> vs
              [] kind = "collect" -> Seq(vs)
              [] kind = "distinct" -> {V \in SUBSET vs : IsFiniteSet(V)}
              [] kind = "group" -> Maps(states[r.agg[3]])]

StateTypes[n \in 0 .. Nesting] == IF n = 0 THEN << >> ELSE StateTypesOver(n, StateTypes[n - 1])

(* The state of a rule that was accepted is of the type of its values, in  *)
(* each of its groups, and so is the value in the end, null wherever       *)
(* something was missing.                                                  *)
WellTyped ==
    /\ rule \in Ruling
    /\ phase \in {"load", "feed", "done", "rejected", "panicked"}
    /\ fed \in Seq(Nodes) /\ Len(fed) <= MaxFed
    /\ phase \in {"feed", "done"} => state \in StateTypes[Nesting][rule]
    /\ phase = "done" => value \in Of(TypeOfRule(rule))

(* Types without maps, but in an array of them the sort does not look for. *)
MaplessOver(mapless) == {BoolT, NumberT, StringT} \cup ({"array"} \X mapless)

Mapless[n \in 0 .. Nesting] == IF n = 0 THEN {} ELSE MaplessOver(Mapless[n - 1])

MapsWithin(t) == Kind(t) = "array" /\ t \notin Mapless[Nesting]

(* The types on which an expression compares arrays that hold maps.        *)
MapSortsOver(n, typeOf, sorts) ==
    [ts \in Expressions[n] |-> {t \in Type :
        /\ ts # << >>
        /\ LET input == typeOf[Front(ts)][t]
               tr == Last(ts)
           IN  \/ t \in sorts[Front(ts)]
               \/ tr[1] = "sort" /\ MapsWithin(input[2])
               \/ tr[1] = "sort-by" /\ MapsWithin(typeOf[tr[2]][input[2]])
               \/ tr[1] \in Nested /\ input[2] \in sorts[tr[2]]}]

MapSorts[n \in 0 .. Nesting] ==
    IF n = 0 THEN << >> ELSE MapSortsOver(n, Typing[n - 1], MapSorts[n - 1])

SortsMaps(ts, t) == t \in MapSorts[Nesting][ts]

SortsMapsInOver(n, sorts) ==
    {e \in Extractors[n] :
        \/ SortsMaps(e.ts, BaseType(ExtractorType[n - 1], e))
        \/ e.ext[1] \notin DOMAIN Plain /\ e.ext[2] \in sorts}

SortsMapsIn[n \in 0 .. Nesting] == IF n = 0 THEN {} ELSE SortsMapsInOver(n, SortsMapsIn[n - 1])

(* The rules that may panic when fed the elements ns.                      *)
KnownPanicsOver(n, ns, known) ==
    {r \in Rulings[n] :
        \/ SortsMaps(r.ts, AggregatorType(RuleType[n - 1], r))
        \/ /\ r.agg[1] # "count"
           /\ \/ r.agg[2] \in SortsMapsIn[Nesting]
              \/ r.agg[2].explodes /\ \E node \in Range(ns) : Extract(r.agg[2], node) = Null
        \/ r.agg[1] = "group" /\ r.agg[3] \in known}

KnownPanics(ns) ==
    LET known[n \in 0 .. Nesting] == IF n = 0 THEN {} ELSE KnownPanicsOver(n, ns, known[n - 1])
    IN  known[Nesting]

(* A rule that was accepted meets no value that its type does not allow    *)
(* ("type checked"), but for two gaps in the types: !explode of a null,    *)
(* and a sort that compares arrays of maps.                                *)
PanicsAreKnown == phase = "panicked" => rule \in KnownPanics(fed)

(* What a rule says of a page: its meaning on all elements at once.        *)
Copies(s, v) == Cardinality({i \in DOMAIN s : s[i] = v})

Whole(meaning, r, ns) ==
    LET kind == r.agg[1]
        found == [i \in DOMAIN ns |-> ExtractExploding(r.agg[2], ns[i])]
        all == FlattenSeq(found)
        some == {i \in DOMAIN all : all[i] # Null}
        With(k) == FlattenSeq([i \in DOMAIN ns |-> [j \in 1 .. Copies(found[i], Str(k)) |-> ns[i]]])
    IN  CASE kind = "count" -> Num(Len(ns))
          [] kind = "count-not-null" -> Num(Copies(all, Bool(TRUE)))
          [] kind = "first" -> IF some = {} THEN Null ELSE all[First(some)]
          [] kind = "collect" -> Arr(all)
          [] kind = "distinct" -> Arr(SetToSeq(Range(all)))
          [] kind = "sum" -> Num(SumFunctionOnSet([i \in some |-> all[i][2]], some))
          [] kind = "group" ->
                Obj([k \in Text |-> IF Str(k) \in Range(all) THEN meaning[r.agg[3]][With(k)]
                                    ELSE Absent])

MeaningsOver(n, meaning) ==
    [r \in Rulings[n] |-> [ns \in Seq(Nodes) |-> Eval(r.ts, Whole(meaning, r, ns))]]

Meanings[n \in 0 .. Nesting] == IF n = 0 THEN << >> ELSE MeaningsOver(n, Meanings[n - 1])

Meaning(r, ns) == Meanings[Nesting][r][ns]

(* The states that are fed one element after another, and for groups one   *)
(* key after another, come to that meaning.                                *)
AggregatesMeanIt == phase = "done" => value = Meaning(rule, fed)

Plainly(s) == \A i \in DOMAIN s : Kind(s[i]) # "array"

(* Operators agree with one another on what a rule gives.  A sort keeps    *)
(* every element, puts nulls first and sorts no further when repeated (but *)
(* for arrays, which compare equal to their beginnings); a comparison of   *)
(* numbers is the complement of its opposite, but for greater-or-equal,    *)
(* which leaves its bound out.                                             *)
OperatorsAgree ==
    /\ phase = "done" /\ Kind(value) = "array" =>
        LET s == EvalOne(<< >>, <<"sort">>, value) IN
        s # Panic /\ Plainly(value[2]) =>
            /\ \A v \in Range(value[2]) : Copies(s[2], v) = Copies(value[2], v)
            /\ Null \in Range(value[2]) => s[2][1] = Null
            /\ EvalOne(<< >>, <<"sort">>, s) = s
    /\ phase = "done" /\ Kind(value) = "number" =>
        \A n \in 0 .. 2 :
            LET Test(op) == NumberTest(op, value[2], n) IN
            /\ Test("greater-than") = ~ Test("lesser-or-equal")
            /\ value[2] # n => Test("greater-or-equal") = ~ Test("lesser-than")

=============================================================================
