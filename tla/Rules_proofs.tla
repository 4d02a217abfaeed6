---------------------------- MODULE Rules_proofs ---------------------------
(***************************************************************************)
(* Theorems about Values, Transformers and Rules, for every depth of       *)
(* nesting, every set of rules and every elements: a rule that validation  *)
(* accepts keeps to its types, panics in the known ways only, answers what *)
(* its aggregator means, and is sorted once and for all by a sort.         *)
(*                                                                         *)
(* Types, values, expressions, extractors and rules are built level by     *)
(* level; each fact is proved of level n from level n - 1.  The state of a *)
(* rule stands for the elements fed to it, and the value at the end is     *)
(* read from what it stands for.                                           *)
(***************************************************************************)
EXTENDS Rules, Induction, SequenceTheorems

(* Sequences one after another, by a name the provers can take apart.      *)
Join(s, t) == s \o t

(* What a rule found in the elements ns, one element after another, and    *)
(* the elements of each of its groups.                                     *)
Found(r, ns) == [i \in DOMAIN ns |-> ExtractExploding(r.agg[2], ns[i])]

All(r, ns) == FlattenSeq(Found(r, ns))

(* The element node, m times over.                                         *)
Times(m, node) == [j \in 1 .. m |-> node]

Joining(r, ns, k) == [i \in DOMAIN ns |-> Times(Copies(Found(r, ns)[i], Str(k)), ns[i])]

Belonging(r, ns, k) == FlattenSeq(Joining(r, ns, k))

(* The places of the values that are not null.                             *)
Given(s) == {i \in DOMAIN s : s[i] # Null}

(* The truth that count(x) counts.                                         *)
Yes == Bool(TRUE)

(* The state that stands for the values all, with the state that stands    *)
(* for the elements of each group; a panic among them is no state.         *)
Standing(stands, r, all, members) ==
    LET kind == r.agg[1] IN
    IF kind # "first" /\ Panic \in Range(all) THEN Panic
    ELSE <<kind,
           CASE kind = "count-not-null" -> Copies(all, Yes)
             [] kind = "first" -> IF Given(all) = {} THEN Null ELSE all[First(Given(all))]
             [] kind = "collect" -> all
             [] kind = "distinct" -> Range(all)
             [] kind = "sum" -> SumFunctionOnSet([i \in Given(all) |-> all[i][2]], Given(all))
             [] kind = "group" -> [k \in Text |-> IF Str(k) \in Range(all) THEN stands[r.agg[3]][members[k]]
                                                  ELSE Absent]>>

(* And the state that stands for each sequence of elements, by rule and    *)
(* level.                                                                  *)
StandsOver(n, stands) ==
    [r \in Rulings[n] |-> [ns \in Seq(Nodes) |->
        IF r.agg[1] = "count" THEN <<"count", Len(ns)>>
        ELSE Standing(stands, r, All(r, ns), [k \in Text |-> Belonging(r, ns, k)])]]

Stands[n \in 0 .. Nesting] == IF n = 0 THEN << >> ELSE StandsOver(n, Stands[n - 1])

(* One step of each recursion of the model, from what is below.            *)
Over(what, arg, n, below) ==
    CASE what = "types" -> TypesOver(below)
      [] what = "json" -> JsonOver(below)
      [] what = "values" -> ValuesOver(n, below)
      [] what = "comparison" -> ComparisonOver(n, below)
      [] what = "expressions" -> ExpressionsOver(below)
      [] what = "typing" -> TypingOver(n, below)
      [] what = "evaluation" -> EvaluationOver(n, below)
      [] what = "extractors" -> ExtractorsOver(below)
      [] what = "extractor-types" -> ExtractorTypeOver(n, below)
      [] what = "extraction" -> ExtractionOver(n, below)
      [] what = "rulings" -> RulingsOver(below)
      [] what = "rule-types" -> RuleTypeOver(n, below)
      [] what = "states" -> StatesOver(below)
      [] what = "feeding" -> FeedingOver(n, below)
      [] what = "adding" -> AddTo(arg.feed, arg.r, below, arg.vs[n])
      [] what = "ending" -> EndingOver(n, below)
      [] what = "state-types" -> StateTypesOver(n, below)
      [] what = "mapless" -> MaplessOver(below)
      [] what = "map-sorts" -> MapSortsOver(n, Typing[n - 1], below)
      [] what = "sorts-in" -> SortsMapsInOver(n, below)
      [] what = "known" -> KnownPanicsOver(n, arg, below)
      [] what = "meanings" -> MeaningsOver(n, below)
      [] what = "stands" -> StandsOver(n, below)
      [] what = "flat" -> Join(below, arg[n])

(* A function that the recursion what, from base, gives on lo .. N.        *)
Exact(f, what, arg, base, lo, N) ==
    f = [n \in lo .. N |-> IF n = lo THEN base ELSE Over(what, arg, n, f[n - 1])]

(* There is one: the recursive functions of the model are what their       *)
(* definitions say.                                                        *)
LEMMA Exists ==
    ASSUME NEW what, NEW arg, NEW base, NEW lo \in Nat, NEW N \in Nat, lo <= N
    PROVE  \E f : Exact(f, what, arg, base, lo, N)
<1> DEFINE T == {k \in Nat : \E f : Exact(f, what, arg, base, lo, lo + k)}
<1>1. 0 \in T
  <2> DEFINE f == [n \in lo .. lo |-> IF n = lo THEN base ELSE Over(what, arg, n, base)]
  <2>1. f = [n \in lo .. lo |-> IF n = lo THEN base ELSE Over(what, arg, n, f[n - 1])]
    OBVIOUS
  <2> HIDE DEF f
  <2>2. Exact(f, what, arg, base, lo, lo)
    BY <2>1 DEF Exact
  <2> QED
    BY <2>2
<1>2. ASSUME NEW k \in Nat, k \in T PROVE k + 1 \in T
  <2>1. PICK f : Exact(f, what, arg, base, lo, lo + k)
    BY <1>2
  <2>2. f = [n \in lo .. lo + k |-> IF n = lo THEN base ELSE Over(what, arg, n, f[n - 1])]
    BY <2>1 DEF Exact
  <2> DEFINE g == [n \in lo .. lo + (k + 1) |-> IF n = lo THEN base ELSE Over(what, arg, n, f[n - 1])]
  <2>3. \A n \in lo .. lo + k : g[n] = f[n]
    BY <2>2
  <2>4. g = [n \in lo .. lo + (k + 1) |-> IF n = lo THEN base ELSE Over(what, arg, n, g[n - 1])]
    <3>1. \A n \in lo .. lo + (k + 1) : n = lo \/ n - 1 \in lo .. lo + k
      OBVIOUS
    <3> QED
      BY <2>3, <3>1
  <2> HIDE DEF g
  <2>5. Exact(g, what, arg, base, lo, lo + (k + 1))
    BY <2>4 DEF Exact
  <2> QED
    BY <2>5
<1> HIDE DEF T
<1>3. N - lo \in T
  BY <1>1, <1>2, Induction
<1>4. lo + (N - lo) = N
  OBVIOUS
<1> QED
  BY <1>3, <1>4 DEF T

(* There are two levels at least.                                          *)
LEMMA Deep == Nesting \in Nat /\ 0 \in Nat /\ 0 <= Nesting /\ 1 < Nesting
  BY ValuesAssumption

(* Every level but 0 has one below.                                        *)
LEMMA Levels == 0 \in 0 .. Nesting /\ \A n \in 1 .. Nesting : n \in 0 .. Nesting /\ n # 0
  BY Deep

(* What each recursive function of the model is, level by level: the types *)
(* of values,                                                              *)
LEMMA TypesAre ==
    Types[0] = {} /\ \A n \in 1 .. Nesting : Types[n] = TypesOver(Types[n - 1])
<1>1. PICK f : Exact(f, "types", {}, {}, 0, Nesting)
  BY Exists, Deep
<1>2. f = [n \in 0 .. Nesting |-> IF n = 0 THEN {} ELSE TypesOver(f[n - 1])]
  BY <1>1 DEF Exact, Over
<1>3. Types = [n \in 0 .. Nesting |-> IF n = 0 THEN {} ELSE TypesOver(Types[n - 1])]
  BY <1>2 DEF Types
<1> QED
  BY <1>3, Levels, Zenon

(* the values,                                                             *)
LEMMA JsonAre ==
    Json[0] = {} /\ \A n \in 1 .. Nesting : Json[n] = JsonOver(Json[n - 1])
<1>1. PICK f : Exact(f, "json", {}, {}, 0, Nesting)
  BY Exists, Deep
<1>2. f = [n \in 0 .. Nesting |-> IF n = 0 THEN {} ELSE JsonOver(f[n - 1])]
  BY <1>1 DEF Exact, Over
<1>3. Json = [n \in 0 .. Nesting |-> IF n = 0 THEN {} ELSE JsonOver(Json[n - 1])]
  BY <1>2 DEF Json
<1> QED
  BY <1>3, Levels, Zenon

(* the values of each type,                                                *)
LEMMA ValuesOfAre ==
    ValuesOf[0] = << >> /\ \A n \in 1 .. Nesting : ValuesOf[n] = ValuesOver(n, ValuesOf[n - 1])
<1>1. PICK f : Exact(f, "values", {}, << >>, 0, Nesting)
  BY Exists, Deep
<1>2. f = [n \in 0 .. Nesting |-> IF n = 0 THEN << >> ELSE ValuesOver(n, f[n - 1])]
  BY <1>1 DEF Exact, Over
<1>3. ValuesOf = [n \in 0 .. Nesting |-> IF n = 0 THEN << >> ELSE ValuesOver(n, ValuesOf[n - 1])]
  BY <1>2 DEF ValuesOf
<1> QED
  BY <1>3, Levels, Zenon

(* how values compare,                                                     *)
LEMMA ComparisonAre ==
    Comparison[0] = << >> /\ \A n \in 1 .. Nesting : Comparison[n] = ComparisonOver(n, Comparison[n - 1])
<1>1. PICK f : Exact(f, "comparison", {}, << >>, 0, Nesting)
  BY Exists, Deep
<1>2. f = [n \in 0 .. Nesting |-> IF n = 0 THEN << >> ELSE ComparisonOver(n, f[n - 1])]
  BY <1>1 DEF Exact, Over
<1>3. Comparison = [n \in 0 .. Nesting |-> IF n = 0 THEN << >> ELSE ComparisonOver(n, Comparison[n - 1])]
  BY <1>2 DEF Comparison
<1> QED
  BY <1>3, Levels, Zenon

(* the transformer expressions,                                            *)
LEMMA ExpressionsAre ==
    Expressions[0] = {} /\ \A n \in 1 .. Nesting : Expressions[n] = ExpressionsOver(Expressions[n - 1])
<1>1. PICK f : Exact(f, "expressions", {}, {}, 0, Nesting)
  BY Exists, Deep
<1>2. f = [n \in 0 .. Nesting |-> IF n = 0 THEN {} ELSE ExpressionsOver(f[n - 1])]
  BY <1>1 DEF Exact, Over
<1>3. Expressions = [n \in 0 .. Nesting |-> IF n = 0 THEN {} ELSE ExpressionsOver(Expressions[n - 1])]
  BY <1>2 DEF Expressions
<1> QED
  BY <1>3, Levels, Zenon

(* their types,                                                            *)
LEMMA TypingAre ==
    Typing[0] = << >> /\ \A n \in 1 .. Nesting : Typing[n] = TypingOver(n, Typing[n - 1])
<1>1. PICK f : Exact(f, "typing", {}, << >>, 0, Nesting)
  BY Exists, Deep
<1>2. f = [n \in 0 .. Nesting |-> IF n = 0 THEN << >> ELSE TypingOver(n, f[n - 1])]
  BY <1>1 DEF Exact, Over
<1>3. Typing = [n \in 0 .. Nesting |-> IF n = 0 THEN << >> ELSE TypingOver(n, Typing[n - 1])]
  BY <1>2 DEF Typing
<1> QED
  BY <1>3, Levels, Zenon

(* what they make of a value,                                              *)
LEMMA EvaluationAre ==
    Evaluation[0] = << >> /\ \A n \in 1 .. Nesting : Evaluation[n] = EvaluationOver(n, Evaluation[n - 1])
<1>1. PICK f : Exact(f, "evaluation", {}, << >>, 0, Nesting)
  BY Exists, Deep
<1>2. f = [n \in 0 .. Nesting |-> IF n = 0 THEN << >> ELSE EvaluationOver(n, f[n - 1])]
  BY <1>1 DEF Exact, Over
<1>3. Evaluation = [n \in 0 .. Nesting |-> IF n = 0 THEN << >> ELSE EvaluationOver(n, Evaluation[n - 1])]
  BY <1>2 DEF Evaluation
<1> QED
  BY <1>3, Levels, Zenon

(* the extractors,                                                         *)
LEMMA ExtractorsAre ==
    Extractors[0] = {} /\ \A n \in 1 .. Nesting : Extractors[n] = ExtractorsOver(Extractors[n - 1])
<1>1. PICK f : Exact(f, "extractors", {}, {}, 0, Nesting)
  BY Exists, Deep
<1>2. f = [n \in 0 .. Nesting |-> IF n = 0 THEN {} ELSE ExtractorsOver(f[n - 1])]
  BY <1>1 DEF Exact, Over
<1>3. Extractors = [n \in 0 .. Nesting |-> IF n = 0 THEN {} ELSE ExtractorsOver(Extractors[n - 1])]
  BY <1>2 DEF Extractors
<1> QED
  BY <1>3, Levels, Zenon

(* their types,                                                            *)
LEMMA ExtractorTypeAre ==
    ExtractorType[0] = << >> /\ \A n \in 1 .. Nesting : ExtractorType[n] = ExtractorTypeOver(n, ExtractorType[n - 1])
<1>1. PICK f : Exact(f, "extractor-types", {}, << >>, 0, Nesting)
  BY Exists, Deep
<1>2. f = [n \in 0 .. Nesting |-> IF n = 0 THEN << >> ELSE ExtractorTypeOver(n, f[n - 1])]
  BY <1>1 DEF Exact, Over
<1>3. ExtractorType = [n \in 0 .. Nesting |-> IF n = 0 THEN << >> ELSE ExtractorTypeOver(n, ExtractorType[n - 1])]
  BY <1>2 DEF ExtractorType
<1> QED
  BY <1>3, Levels, Zenon

(* what they find,                                                         *)
LEMMA ExtractionAre ==
    Extraction[0] = << >> /\ \A n \in 1 .. Nesting : Extraction[n] = ExtractionOver(n, Extraction[n - 1])
<1>1. PICK f : Exact(f, "extraction", {}, << >>, 0, Nesting)
  BY Exists, Deep
<1>2. f = [n \in 0 .. Nesting |-> IF n = 0 THEN << >> ELSE ExtractionOver(n, f[n - 1])]
  BY <1>1 DEF Exact, Over
<1>3. Extraction = [n \in 0 .. Nesting |-> IF n = 0 THEN << >> ELSE ExtractionOver(n, Extraction[n - 1])]
  BY <1>2 DEF Extraction
<1> QED
  BY <1>3, Levels, Zenon

(* the rules,                                                              *)
LEMMA RulingsAre ==
    Rulings[0] = {} /\ \A n \in 1 .. Nesting : Rulings[n] = RulingsOver(Rulings[n - 1])
<1>1. PICK f : Exact(f, "rulings", {}, {}, 0, Nesting)
  BY Exists, Deep
<1>2. f = [n \in 0 .. Nesting |-> IF n = 0 THEN {} ELSE RulingsOver(f[n - 1])]
  BY <1>1 DEF Exact, Over
<1>3. Rulings = [n \in 0 .. Nesting |-> IF n = 0 THEN {} ELSE RulingsOver(Rulings[n - 1])]
  BY <1>2 DEF Rulings
<1> QED
  BY <1>3, Levels, Zenon

(* their types,                                                            *)
LEMMA RuleTypeAre ==
    RuleType[0] = << >> /\ \A n \in 1 .. Nesting : RuleType[n] = RuleTypeOver(n, RuleType[n - 1])
<1>1. PICK f : Exact(f, "rule-types", {}, << >>, 0, Nesting)
  BY Exists, Deep
<1>2. f = [n \in 0 .. Nesting |-> IF n = 0 THEN << >> ELSE RuleTypeOver(n, f[n - 1])]
  BY <1>1 DEF Exact, Over
<1>3. RuleType = [n \in 0 .. Nesting |-> IF n = 0 THEN << >> ELSE RuleTypeOver(n, RuleType[n - 1])]
  BY <1>2 DEF RuleType
<1> QED
  BY <1>3, Levels, Zenon

(* the states of their aggregators,                                        *)
LEMMA StatesAre ==
    States[0] = {} /\ \A n \in 1 .. Nesting : States[n] = StatesOver(States[n - 1])
<1>1. PICK f : Exact(f, "states", {}, {}, 0, Nesting)
  BY Exists, Deep
<1>2. f = [n \in 0 .. Nesting |-> IF n = 0 THEN {} ELSE StatesOver(f[n - 1])]
  BY <1>1 DEF Exact, Over
<1>3. States = [n \in 0 .. Nesting |-> IF n = 0 THEN {} ELSE StatesOver(States[n - 1])]
  BY <1>2 DEF States
<1> QED
  BY <1>3, Levels, Zenon

(* what an element makes of a state,                                       *)
LEMMA FeedingAre ==
    Feeding[0] = << >> /\ \A n \in 1 .. Nesting : Feeding[n] = FeedingOver(n, Feeding[n - 1])
<1>1. PICK f : Exact(f, "feeding", {}, << >>, 0, Nesting)
  BY Exists, Deep
<1>2. f = [n \in 0 .. Nesting |-> IF n = 0 THEN << >> ELSE FeedingOver(n, f[n - 1])]
  BY <1>1 DEF Exact, Over
<1>3. Feeding = [n \in 0 .. Nesting |-> IF n = 0 THEN << >> ELSE FeedingOver(n, Feeding[n - 1])]
  BY <1>2 DEF Feeding
<1> QED
  BY <1>3, Levels, Zenon

(* what a state ends as,                                                   *)
LEMMA EndingAre ==
    Ending[0] = << >> /\ \A n \in 1 .. Nesting : Ending[n] = EndingOver(n, Ending[n - 1])
<1>1. PICK f : Exact(f, "ending", {}, << >>, 0, Nesting)
  BY Exists, Deep
<1>2. f = [n \in 0 .. Nesting |-> IF n = 0 THEN << >> ELSE EndingOver(n, f[n - 1])]
  BY <1>1 DEF Exact, Over
<1>3. Ending = [n \in 0 .. Nesting |-> IF n = 0 THEN << >> ELSE EndingOver(n, Ending[n - 1])]
  BY <1>2 DEF Ending
<1> QED
  BY <1>3, Levels, Zenon

(* the states of each rule,                                                *)
LEMMA StateTypesAre ==
    StateTypes[0] = << >> /\ \A n \in 1 .. Nesting : StateTypes[n] = StateTypesOver(n, StateTypes[n - 1])
<1>1. PICK f : Exact(f, "state-types", {}, << >>, 0, Nesting)
  BY Exists, Deep
<1>2. f = [n \in 0 .. Nesting |-> IF n = 0 THEN << >> ELSE StateTypesOver(n, f[n - 1])]
  BY <1>1 DEF Exact, Over
<1>3. StateTypes = [n \in 0 .. Nesting |-> IF n = 0 THEN << >> ELSE StateTypesOver(n, StateTypes[n - 1])]
  BY <1>2 DEF StateTypes
<1> QED
  BY <1>3, Levels, Zenon

(* the types without maps,                                                 *)
LEMMA MaplessAre ==
    Mapless[0] = {} /\ \A n \in 1 .. Nesting : Mapless[n] = MaplessOver(Mapless[n - 1])
<1>1. PICK f : Exact(f, "mapless", {}, {}, 0, Nesting)
  BY Exists, Deep
<1>2. f = [n \in 0 .. Nesting |-> IF n = 0 THEN {} ELSE MaplessOver(f[n - 1])]
  BY <1>1 DEF Exact, Over
<1>3. Mapless = [n \in 0 .. Nesting |-> IF n = 0 THEN {} ELSE MaplessOver(Mapless[n - 1])]
  BY <1>2 DEF Mapless
<1> QED
  BY <1>3, Levels, Zenon

(* where an expression sorts maps,                                         *)
LEMMA MapSortsAre ==
    MapSorts[0] = << >> /\ \A n \in 1 .. Nesting : MapSorts[n] = MapSortsOver(n, Typing[n - 1], MapSorts[n - 1])
<1>1. PICK f : Exact(f, "map-sorts", {}, << >>, 0, Nesting)
  BY Exists, Deep
<1>2. f = [n \in 0 .. Nesting |-> IF n = 0 THEN << >> ELSE MapSortsOver(n, Typing[n - 1], f[n - 1])]
  BY <1>1 DEF Exact, Over
<1>3. MapSorts = [n \in 0 .. Nesting |-> IF n = 0 THEN << >> ELSE MapSortsOver(n, Typing[n - 1], MapSorts[n - 1])]
  BY <1>2 DEF MapSorts
<1> QED
  BY <1>3, Levels, Zenon

(* where an extractor does,                                                *)
LEMMA SortsMapsInAre ==
    SortsMapsIn[0] = {} /\ \A n \in 1 .. Nesting : SortsMapsIn[n] = SortsMapsInOver(n, SortsMapsIn[n - 1])
<1>1. PICK f : Exact(f, "sorts-in", {}, {}, 0, Nesting)
  BY Exists, Deep
<1>2. f = [n \in 0 .. Nesting |-> IF n = 0 THEN {} ELSE SortsMapsInOver(n, f[n - 1])]
  BY <1>1 DEF Exact, Over
<1>3. SortsMapsIn = [n \in 0 .. Nesting |-> IF n = 0 THEN {} ELSE SortsMapsInOver(n, SortsMapsIn[n - 1])]
  BY <1>2 DEF SortsMapsIn
<1> QED
  BY <1>3, Levels, Zenon

(* what a rule means,                                                      *)
LEMMA MeaningsAre ==
    Meanings[0] = << >> /\ \A n \in 1 .. Nesting : Meanings[n] = MeaningsOver(n, Meanings[n - 1])
<1>1. PICK f : Exact(f, "meanings", {}, << >>, 0, Nesting)
  BY Exists, Deep
<1>2. f = [n \in 0 .. Nesting |-> IF n = 0 THEN << >> ELSE MeaningsOver(n, f[n - 1])]
  BY <1>1 DEF Exact, Over
<1>3. Meanings = [n \in 0 .. Nesting |-> IF n = 0 THEN << >> ELSE MeaningsOver(n, Meanings[n - 1])]
  BY <1>2 DEF Meanings
<1> QED
  BY <1>3, Levels, Zenon

(* and the state that stands for elements.                                 *)
LEMMA StandsAre ==
    Stands[0] = << >> /\ \A n \in 1 .. Nesting : Stands[n] = StandsOver(n, Stands[n - 1])
<1>1. PICK f : Exact(f, "stands", {}, << >>, 0, Nesting)
  BY Exists, Deep
<1>2. f = [n \in 0 .. Nesting |-> IF n = 0 THEN << >> ELSE StandsOver(n, f[n - 1])]
  BY <1>1 DEF Exact, Over
<1>3. Stands = [n \in 0 .. Nesting |-> IF n = 0 THEN << >> ELSE StandsOver(n, Stands[n - 1])]
  BY <1>2 DEF Stands
<1> QED
  BY <1>3, Levels, Zenon

-----------------------------------------------------------------------------
(* What holds at level 0 and is passed on to each next level holds at all. *)
LEMMA ByLevel ==
    ASSUME NEW T, 0 \in T, \A n \in 1 .. Nesting : n - 1 \in T => n \in T
    PROVE  0 .. Nesting \subseteq T
<1>1. ASSUME NEW n \in 0 .. Nesting - 1, n \in T PROVE n + 1 \in T
  <2>1. n + 1 \in 1 .. Nesting /\ (n + 1) - 1 = n
    BY Deep
  <2> QED
    BY <2>1, <1>1
<1> QED
  BY <1>1, InductionUpTo, Deep

(* The types of a level.                                                   *)
LEMMA TypesIn ==
    ASSUME NEW n \in 1 .. Nesting, NEW t
    PROVE  t \in Types[n] <=> \/ t \in {BoolT, NumberT, StringT}
                              \/ t \in {"array", "map"} \X Types[n - 1]
  BY TypesAre DEF TypesOver

(* A type of one level is of the next.                                     *)
LEMMA TypesGrow == \A n \in 1 .. Nesting : Types[n - 1] \subseteq Types[n]
<1> DEFINE T == {n \in 0 .. Nesting : n = 0 \/ Types[n - 1] \subseteq Types[n]}
<1>1. 0 \in T
  BY Levels
<1>2. ASSUME NEW n \in 1 .. Nesting, n - 1 \in T PROVE n \in T
  <2>1. Types[n - 1] \subseteq Types[n]
    <3>1. CASE n = 1
      BY <3>1, TypesAre
    <3>2. CASE n # 1
      <4>1. n - 1 \in 1 .. Nesting /\ n - 1 # 0
        BY <3>2, Deep
      <4>2. Types[(n - 1) - 1] \subseteq Types[n - 1]
        BY <4>1, <1>2
      <4>3. ASSUME NEW t \in Types[n - 1] PROVE t \in Types[n]
        <5>1. \/ t \in {BoolT, NumberT, StringT}
              \/ t \in {"array", "map"} \X Types[(n - 1) - 1]
          BY <4>1, <4>3, TypesIn
        <5>2. \/ t \in {BoolT, NumberT, StringT}
              \/ t \in {"array", "map"} \X Types[n - 1]
          BY <5>1, <4>2
        <5> QED
          BY <5>2, TypesIn
      <4> QED
        BY <4>3
    <3> QED
      BY <3>1, <3>2
  <2> QED
    BY <2>1
<1>3. 0 .. Nesting \subseteq T
  <2> HIDE DEF T
  <2> QED
    BY <1>1, <1>2, ByLevel
<1> QED
  BY <1>3, Levels

(* The types, without their levels.                                        *)
LEMMA TypeIs ==
    /\ {BoolT, NumberT, StringT} \subseteq Type
    /\ TypeError \notin Type
    /\ \A t \in Type :
        /\ Kind(t) \in {"bool", "number", "string", "array", "map"}
        /\ Kind(t) = "bool" => t = BoolT
        /\ Kind(t) = "number" => t = NumberT
        /\ Kind(t) = "string" => t = StringT
        /\ Kind(t) \in {"array", "map"} => t = <<Kind(t), t[2]>> /\ t[2] \in Types[Nesting - 1] /\ t[2] \in Type
    /\ \A k, t : k \in {"array", "map"} /\ <<k, t>> \in Type => t \in Type
    /\ \A k \in {"array", "map"}, t \in Types[Nesting - 1] : <<k, t>> \in Type
<1>1. Nesting \in 1 .. Nesting
  BY Deep
<1>2. \A t : t \in Type <=> \/ t \in {BoolT, NumberT, StringT}
                            \/ t \in {"array", "map"} \X Types[Nesting - 1]
  BY <1>1, TypesIn DEF Type
<1>3. Types[Nesting - 1] \subseteq Type
  BY <1>1, TypesGrow DEF Type
<1> QED
  BY <1>2, <1>3 DEF BoolT, NumberT, StringT, TypeError, Kind

(* The values of a type, by the values of the types within.                *)
LEMMA ValuesIn ==
    ASSUME NEW n \in 1 .. Nesting, NEW t \in Types[n]
    PROVE  /\ t = BoolT => ValuesOf[n][t] = {Null} \cup {Bool(b) : b \in BOOLEAN}
           /\ t = NumberT => ValuesOf[n][t] = {Null} \cup ({"number"} \X Int)
           /\ t = StringT => ValuesOf[n][t] = {Null} \cup ({"string"} \X Text)
           /\ Kind(t) = "array" => ValuesOf[n][t] = {Null} \cup ({"array"} \X Seq(ValuesOf[n - 1][t[2]]))
           /\ Kind(t) = "map" => ValuesOf[n][t] = {Null} \cup ({"map"} \X Maps(ValuesOf[n - 1][t[2]]))
<1>1. ValuesOf[n] = ValuesOver(n, ValuesOf[n - 1])
  BY ValuesOfAre
<1>2. ValuesOf[n][t] = {Null} \cup
        CASE Kind(t) = "bool" -> {Bool(b) : b \in BOOLEAN}
          [] Kind(t) = "number" -> {"number"} \X Int
          [] Kind(t) = "string" -> {"string"} \X Text
          [] Kind(t) = "array" -> {"array"} \X Seq(ValuesOf[n - 1][t[2]])
          [] Kind(t) = "map" -> {"map"} \X Maps(ValuesOf[n - 1][t[2]])
  BY <1>1, Zenon DEF ValuesOver
<1>3. ASSUME NEW a, NEW b, NEW c, NEW d, NEW e,
             ValuesOf[n][t] = {Null} \cup
                CASE Kind(t) = "bool" -> a
                  [] Kind(t) = "number" -> b
                  [] Kind(t) = "string" -> c
                  [] Kind(t) = "array" -> d
                  [] Kind(t) = "map" -> e
      PROVE  /\ Kind(t) = "bool" => ValuesOf[n][t] = {Null} \cup a
             /\ Kind(t) = "number" => ValuesOf[n][t] = {Null} \cup b
             /\ Kind(t) = "string" => ValuesOf[n][t] = {Null} \cup c
             /\ Kind(t) = "array" => ValuesOf[n][t] = {Null} \cup d
             /\ Kind(t) = "map" => ValuesOf[n][t] = {Null} \cup e
  BY <1>3
<1>4. /\ Kind(t) = "bool" => ValuesOf[n][t] = {Null} \cup {Bool(b) : b \in BOOLEAN}
      /\ Kind(t) = "number" => ValuesOf[n][t] = {Null} \cup ({"number"} \X Int)
      /\ Kind(t) = "string" => ValuesOf[n][t] = {Null} \cup ({"string"} \X Text)
      /\ Kind(t) = "array" => ValuesOf[n][t] = {Null} \cup ({"array"} \X Seq(ValuesOf[n - 1][t[2]]))
      /\ Kind(t) = "map" => ValuesOf[n][t] = {Null} \cup ({"map"} \X Maps(ValuesOf[n - 1][t[2]]))
  BY <1>2, <1>3, Zenon
<1>5. Kind(BoolT) = "bool" /\ Kind(NumberT) = "number" /\ Kind(StringT) = "string"
  BY DEF Kind, BoolT, NumberT, StringT
<1> QED
  BY <1>4, <1>5, Zenon

-----------------------------------------------------------------------------
(* The values of a type are the same at every level that has the type.     *)
LEMMA ValuesStay == \A n \in 1 .. Nesting : \A t \in Types[n - 1] : ValuesOf[n - 1][t] = ValuesOf[n][t]
<1> DEFINE T == {n \in 0 .. Nesting : n = 0 \/ \A t \in Types[n - 1] : ValuesOf[n - 1][t] = ValuesOf[n][t]}
<1>1. 0 \in T
  BY Levels
<1>2. ASSUME NEW n \in 1 .. Nesting, n - 1 \in T PROVE n \in T
  <2>1. ASSUME NEW t \in Types[n - 1] PROVE ValuesOf[n - 1][t] = ValuesOf[n][t]
    <3>1. n # 1
      BY <2>1, TypesAre
    <3>2. n - 1 \in 1 .. Nesting /\ n - 1 # 0
      BY <3>1, Deep
    <3>3. \A u \in Types[(n - 1) - 1] : ValuesOf[(n - 1) - 1][u] = ValuesOf[n - 1][u]
      BY <1>2, <3>2
    <3>4. t \in Types[n]
      BY <2>1, TypesGrow
    <3>5. \/ t \in {BoolT, NumberT, StringT}
          \/ t \in {"array", "map"} \X Types[(n - 1) - 1]
      BY <3>2, <2>1, TypesIn
    <3>6. CASE t \in {BoolT, NumberT, StringT}
      <4> DEFINE AtLevel(m) == /\ t = BoolT => ValuesOf[m][t] = {Null} \cup {Bool(b) : b \in BOOLEAN}
                               /\ t = NumberT => ValuesOf[m][t] = {Null} \cup ({"number"} \X Int)
                               /\ t = StringT => ValuesOf[m][t] = {Null} \cup ({"string"} \X Text)
      <4>1. AtLevel(n)
        BY <3>4, ValuesIn
      <4>2. AtLevel(n - 1)
        BY <3>2, ValuesIn
      <4> QED
        BY <3>6, <4>1, <4>2
    <3>7. CASE t \in {"array", "map"} \X Types[(n - 1) - 1]
      <4>1. t[2] \in Types[(n - 1) - 1] /\ Kind(t) \in {"array", "map"}
        BY <3>7 DEF Kind
      <4>2. ValuesOf[(n - 1) - 1][t[2]] = ValuesOf[n - 1][t[2]]
        BY <4>1, <3>3
      <4>3. CASE Kind(t) = "array"
        <5>1. ValuesOf[n][t] = {Null} \cup ({"array"} \X Seq(ValuesOf[n - 1][t[2]]))
          BY <4>3, <3>4, ValuesIn
        <5>2. ValuesOf[n - 1][t] = {Null} \cup ({"array"} \X Seq(ValuesOf[(n - 1) - 1][t[2]]))
          BY <4>3, <3>2, ValuesIn
        <5> QED
          BY <5>1, <5>2, <4>2
      <4>4. CASE Kind(t) = "map"
        <5>1. ValuesOf[n][t] = {Null} \cup ({"map"} \X Maps(ValuesOf[n - 1][t[2]]))
          BY <4>4, <3>4, ValuesIn
        <5>2. ValuesOf[n - 1][t] = {Null} \cup ({"map"} \X Maps(ValuesOf[(n - 1) - 1][t[2]]))
          BY <4>4, <3>2, ValuesIn
        <5> QED
          BY <5>1, <5>2, <4>2
      <4> QED
        BY <4>1, <4>3, <4>4
    <3> QED
      BY <3>5, <3>6, <3>7
  <2> QED
    BY <2>1
<1>3. 0 .. Nesting \subseteq T
  <2> HIDE DEF T
  <2> QED
    BY <1>1, <1>2, ByLevel
<1> QED
  BY <1>3, Levels

(* The values of each type, without levels.                                *)
LEMMA OfIs ==
    ASSUME NEW t \in Type
    PROVE  /\ t = BoolT => Of(t) = {Null} \cup {Bool(b) : b \in BOOLEAN}
           /\ t = NumberT => Of(t) = {Null} \cup ({"number"} \X Int)
           /\ t = StringT => Of(t) = {Null} \cup ({"string"} \X Text)
           /\ Kind(t) = "array" => Of(t) = {Null} \cup ({"array"} \X Seq(Of(t[2])))
           /\ Kind(t) = "map" => Of(t) = {Null} \cup ({"map"} \X Maps(Of(t[2])))
<1>1. Nesting \in 1 .. Nesting /\ t \in Types[Nesting]
  BY Deep DEF Type
<1>2. Kind(t) \in {"array", "map"} => ValuesOf[Nesting - 1][t[2]] = Of(t[2])
  BY <1>1, TypeIs, ValuesStay DEF Of
<1>3. Kind(t) = "array" => Of(t) = {Null} \cup ({"array"} \X Seq(ValuesOf[Nesting - 1][t[2]]))
  BY <1>1, ValuesIn DEF Of
<1>4. Kind(t) = "map" => Of(t) = {Null} \cup ({"map"} \X Maps(ValuesOf[Nesting - 1][t[2]]))
  BY <1>1, ValuesIn DEF Of
<1>5. /\ t = BoolT => Of(t) = {Null} \cup {Bool(b) : b \in BOOLEAN}
      /\ t = NumberT => Of(t) = {Null} \cup ({"number"} \X Int)
      /\ t = StringT => Of(t) = {Null} \cup ({"string"} \X Text)
  BY <1>1, ValuesIn DEF Of
<1>6. Kind(t) = "array" => Of(t) = {Null} \cup ({"array"} \X Seq(Of(t[2])))
  BY <1>2, <1>3
<1>7. Kind(t) = "map" => Of(t) = {Null} \cup ({"map"} \X Maps(Of(t[2])))
  BY <1>2, <1>4
<1> QED
  BY <1>5, <1>6, <1>7

(* The values of a level.                                                  *)
LEMMA JsonIn ==
    ASSUME NEW n \in 1 .. Nesting
    PROVE  Json[n] = {Null} \cup {Bool(b) : b \in BOOLEAN} \cup ({"number"} \X Int) \cup ({"string"} \X Text)
                \cup ({"array"} \X Seq(Json[n - 1])) \cup ({"map"} \X Maps(Json[n - 1]))
<1>1. Json[n] = JsonOver(Json[n - 1])
  BY JsonAre
<1> QED
  BY <1>1 DEF JsonOver

(* Sequences and maps grow with their elements.                            *)
LEMMA SeqGrow == ASSUME NEW S, NEW T, S \subseteq T PROVE Seq(S) \subseteq Seq(T)
  OBVIOUS

LEMMA MapsGrow == ASSUME NEW S, NEW T, S \subseteq T PROVE Maps(S) \subseteq Maps(T)
  BY DEF Maps

(* A value of a type is a value.                                           *)
LEMMA ValuesAreJson == \A n \in 0 .. Nesting : \A t \in Types[n] : ValuesOf[n][t] \subseteq Json[n]
<1> DEFINE T == {n \in 0 .. Nesting : \A t \in Types[n] : ValuesOf[n][t] \subseteq Json[n]}
<1>1. 0 \in T
  BY Levels, TypesAre
<1>2. ASSUME NEW n \in 1 .. Nesting, n - 1 \in T PROVE n \in T
  <2>1. ASSUME NEW t \in Types[n] PROVE ValuesOf[n][t] \subseteq Json[n]
    <3>1. \/ t \in {BoolT, NumberT, StringT}
          \/ t \in {"array", "map"} \X Types[n - 1]
      BY <2>1, TypesIn
    <3>2. CASE t \in {BoolT, NumberT, StringT}
      BY <3>2, <2>1, ValuesIn, JsonIn
    <3>3. CASE t \in {"array", "map"} \X Types[n - 1]
      <4>1. t[2] \in Types[n - 1] /\ Kind(t) \in {"array", "map"}
        BY <3>3 DEF Kind
      <4>2. ValuesOf[n - 1][t[2]] \subseteq Json[n - 1]
        BY <4>1, <1>2
      <4>3. Seq(ValuesOf[n - 1][t[2]]) \subseteq Seq(Json[n - 1])
        BY <4>2, SeqGrow
      <4>4. Maps(ValuesOf[n - 1][t[2]]) \subseteq Maps(Json[n - 1])
        BY <4>2, MapsGrow
      <4>5. CASE Kind(t) = "array"
        <5>1. ValuesOf[n][t] = {Null} \cup ({"array"} \X Seq(ValuesOf[n - 1][t[2]]))
          BY <4>5, <2>1, ValuesIn
        <5> QED
          BY <5>1, <4>3, JsonIn
      <4>6. CASE Kind(t) = "map"
        <5>1. ValuesOf[n][t] = {Null} \cup ({"map"} \X Maps(ValuesOf[n - 1][t[2]]))
          BY <4>6, <2>1, ValuesIn
        <5> QED
          BY <5>1, <4>4, JsonIn
      <4> QED
        BY <4>1, <4>5, <4>6
    <3> QED
      BY <3>1, <3>2, <3>3
  <2> QED
    BY <2>1, Levels
<1>3. 0 .. Nesting \subseteq T
  <2> HIDE DEF T
  <2> QED
    BY <1>1, <1>2, ByLevel
<1> QED
  BY <1>3

(* And null is of every type.                                              *)
LEMMA OfAreValues == \A t \in Type : Of(t) \subseteq Value /\ Null \in Of(t)
<1>1. \A t \in Type : Of(t) \subseteq Value
  <2>1. Nesting \in 0 .. Nesting
    BY Deep
  <2> QED
    BY <2>1, ValuesAreJson DEF Type, Of, Value
<1>2. \A t \in Type : Null \in Of(t)
  BY OfIs, TypeIs
<1> QED
  BY <1>1, <1>2

(* Values, without levels.                                                 *)
LEMMA ValueIs ==
    /\ Panic \notin Value /\ Absent \notin Value /\ TypeError \notin Value
    /\ \A v \in Value : Kind(v) \in {"null", "bool", "number", "string", "array", "map"}
    /\ \A v \in Value : Kind(v) = "null" <=> v = Null
    /\ \A v \in Value : Kind(v) = "bool" => v \in {Bool(TRUE), Bool(FALSE)}
<1>1. Value = {Null} \cup {Bool(b) : b \in BOOLEAN} \cup ({"number"} \X Int) \cup ({"string"} \X Text)
                \cup ({"array"} \X Seq(Json[Nesting - 1])) \cup ({"map"} \X Maps(Json[Nesting - 1]))
  BY JsonIn, Deep DEF Value
<1>2. ASSUME NEW v \in Value
      PROVE  /\ Kind(v) \in {"null", "bool", "number", "string", "array", "map"}
             /\ Kind(v) = "null" <=> v = Null
             /\ Kind(v) = "bool" => v \in {Bool(TRUE), Bool(FALSE)}
  <2>1. CASE v = Null
    BY <2>1 DEF Null, Kind
  <2>2. CASE v \in {Bool(b) : b \in BOOLEAN}
    <3>1. PICK b \in BOOLEAN : v = Bool(b)
      BY <2>2
    <3>2. CASE b = TRUE
      BY <3>1, <3>2 DEF Bool, Null, Kind
    <3>3. CASE b = FALSE
      BY <3>1, <3>3 DEF Bool, Null, Kind
    <3> QED
      BY <3>2, <3>3
  <2>3. CASE v \in ({"number"} \X Int) \cup ({"string"} \X Text)
                \cup ({"array"} \X Seq(Json[Nesting - 1])) \cup ({"map"} \X Maps(Json[Nesting - 1]))
    <3>1. v[1] \in {"number", "string", "array", "map"}
      BY <2>3
    <3>2. v # Null
      BY <3>1 DEF Null
    <3> QED
      BY <3>1, <3>2 DEF Kind
  <2> QED
    BY <1>1, <2>1, <2>2, <2>3
<1>3. \A x \in {Panic, Absent, TypeError} : Kind(x) \notin {"null", "bool", "number", "string", "array", "map"}
  BY DEF Panic, Absent, TypeError, Kind
<1> QED
  BY <1>2, <1>3

-----------------------------------------------------------------------------
(* Comparison, by the kinds of the two values.                             *)
LEMMA ComparisonIs ==
    ASSUME NEW n \in 1 .. Nesting, NEW u \in Json[n], NEW v \in Json[n]
    PROVE  Comparison[n][u][v] =
                IF Null \in {u, v} THEN CompareNulls(u, v)
                ELSE IF Kind(u) # Kind(v) \/ Kind(u) = "map" THEN "panic"
                ELSE CASE Kind(u) = "bool" -> Ordering(~ u[2] /\ v[2], u[2] = v[2])
                       [] Kind(u) = "number" -> Ordering(u[2] < v[2], u[2] = v[2])
                       [] Kind(u) = "string" -> Ordering(Place(u[2]) < Place(v[2]), u[2] = v[2])
                       [] Kind(u) = "array" -> CompareArrays(Comparison[n - 1], u[2], v[2])
<1>1. Comparison[n] = ComparisonOver(n, Comparison[n - 1])
  BY ComparisonAre
<1> DEFINE Outcome(x, y) ==
                IF Null \in {x, y} THEN CompareNulls(x, y)
                ELSE IF Kind(x) # Kind(y) \/ Kind(x) = "map" THEN "panic"
                ELSE CASE Kind(x) = "bool" -> Ordering(~ x[2] /\ y[2], x[2] = y[2])
                       [] Kind(x) = "number" -> Ordering(x[2] < y[2], x[2] = y[2])
                       [] Kind(x) = "string" -> Ordering(Place(x[2]) < Place(y[2]), x[2] = y[2])
                       [] Kind(x) = "array" -> CompareArrays(Comparison[n - 1], x[2], y[2])
<1>2. Comparison[n] = [x \in Json[n] |-> [y \in Json[n] |-> Outcome(x, y)]]
  BY <1>1 DEF ComparisonOver
<1>3. Comparison[n][u][v] = Outcome(u, v)
  <2> HIDE DEF Outcome
  <2> QED
    BY <1>2
<1> QED
  BY <1>3

(* Comparisons that do not panic.                                          *)
Orders == {"less", "equal", "greater"}

(* The first of some numbers is one of them, and the least.                *)
LEMMA FirstIs == ASSUME NEW I \in SUBSET Nat, I # {} PROVE First(I) \in I /\ \A k \in I : First(I) <= k
<1>1. \E i \in I : \A k \in I : i <= k
  BY Least
<1> QED
  BY <1>1, Zenon DEF First

(* Arrays compare where their elements do.                                 *)
LEMMA CompareArraysSafe ==
    ASSUME NEW S, NEW s \in Seq(S), NEW t \in Seq(S), NEW compare,
           \A u, v \in S : compare[u][v] \in Orders
    PROVE  CompareArrays(compare, s, t) \in Orders
<1> DEFINE both == DOMAIN s \cap DOMAIN t
           each == [i \in both |-> compare[s[i]][t[i]]]
           differ == {i \in DOMAIN each : each[i] # "equal"}
<1>1. differ \in SUBSET Nat /\ differ \subseteq both
  OBVIOUS
<1>2. \A i \in both : s[i] \in S /\ t[i] \in S
  OBVIOUS
<1>3. \A i \in both : each[i] \in Orders
  BY <1>2
<1>4. CompareArrays(compare, s, t) = IF differ = {} THEN "equal" ELSE each[First(differ)]
  BY DEF CompareArrays
<1>5. differ # {} => First(differ) \in differ
  <2> HIDE DEF differ
  <2> QED
    BY <1>1, FirstIs
<1> HIDE DEF differ, each
<1> QED
  BY <1>1, <1>3, <1>4, <1>5 DEF Orders

(* The types without maps, of a level.                                     *)
LEMMA MaplessIn ==
    ASSUME NEW n \in 1 .. Nesting, NEW t
    PROVE  t \in Mapless[n] <=> t \in {BoolT, NumberT, StringT} \/ t \in {"array"} \X Mapless[n - 1]
<1>1. Mapless[n] = MaplessOver(Mapless[n - 1])
  BY MaplessAre
<1> QED
  BY <1>1 DEF MaplessOver

(* They are types.                                                         *)
LEMMA MaplessAreTypes == \A n \in 0 .. Nesting : Mapless[n] \subseteq Types[n]
<1> DEFINE T == {n \in 0 .. Nesting : Mapless[n] \subseteq Types[n]}
<1>1. 0 \in T
  BY Levels, MaplessAre
<1>2. ASSUME NEW n \in 1 .. Nesting, n - 1 \in T PROVE n \in T
  <2>1. ASSUME NEW t \in Mapless[n] PROVE t \in Types[n]
    BY <1>2, <2>1, MaplessIn, TypesIn
  <2> QED
    BY <2>1, Levels
<1>3. 0 .. Nesting \subseteq T
  <2> HIDE DEF T
  <2> QED
    BY <1>1, <1>2, ByLevel
<1> QED
  BY <1>3

(* Values of one type that has no maps in it always compare.               *)
LEMMA MaplessCompare ==
    \A n \in 0 .. Nesting : \A t \in Mapless[n] : \A u, v \in ValuesOf[n][t] : Comparison[n][u][v] \in Orders
<1> DEFINE T == {n \in 0 .. Nesting : \A t \in Mapless[n] : \A u, v \in ValuesOf[n][t] : Comparison[n][u][v] \in Orders}
<1>1. 0 \in T
  BY Levels, MaplessAre
<1>2. ASSUME NEW n \in 1 .. Nesting, n - 1 \in T PROVE n \in T
  <2>1. ASSUME NEW t \in Mapless[n], NEW u \in ValuesOf[n][t], NEW v \in ValuesOf[n][t]
        PROVE  Comparison[n][u][v] \in Orders
    <3>1. n \in 0 .. Nesting /\ t \in Types[n]
      BY MaplessAreTypes, Levels
    <3>2. u \in Json[n] /\ v \in Json[n]
      BY <3>1, ValuesAreJson
    <3>3. Comparison[n][u][v] =
                IF Null \in {u, v} THEN CompareNulls(u, v)
                ELSE IF Kind(u) # Kind(v) \/ Kind(u) = "map" THEN "panic"
                ELSE CASE Kind(u) = "bool" -> Ordering(~ u[2] /\ v[2], u[2] = v[2])
                       [] Kind(u) = "number" -> Ordering(u[2] < v[2], u[2] = v[2])
                       [] Kind(u) = "string" -> Ordering(Place(u[2]) < Place(v[2]), u[2] = v[2])
                       [] Kind(u) = "array" -> CompareArrays(Comparison[n - 1], u[2], v[2])
      BY <3>2, ComparisonIs
    <3>4. \A p, q : Ordering(p, q) \in Orders
      BY DEF Ordering, Orders
    <3>5. CompareNulls(u, v) \in Orders
      BY DEF CompareNulls, Orders
    <3>6. CASE Null \in {u, v}
      BY <3>3, <3>5, <3>6
    <3>7. CASE Null \notin {u, v}
      <4>1. CASE t = BoolT
        <5>1. Kind(u) = "bool" /\ Kind(v) = "bool"
          BY <4>1, <3>1, <3>7, ValuesIn DEF Kind, Bool
        <5>2. Comparison[n][u][v] = Ordering(~ u[2] /\ v[2], u[2] = v[2])
          BY <5>1, <3>3, <3>7
        <5> QED
          BY <5>2, <3>4
      <4>2. CASE t = NumberT
        <5>1. Kind(u) = "number" /\ Kind(v) = "number"
          BY <4>2, <3>1, <3>7, ValuesIn DEF Kind
        <5>2. Comparison[n][u][v] = Ordering(u[2] < v[2], u[2] = v[2])
          BY <5>1, <3>3, <3>7
        <5> QED
          BY <5>2, <3>4
      <4>3. CASE t = StringT
        <5>1. Kind(u) = "string" /\ Kind(v) = "string"
          BY <4>3, <3>1, <3>7, ValuesIn DEF Kind
        <5>2. Comparison[n][u][v] = Ordering(Place(u[2]) < Place(v[2]), u[2] = v[2])
          BY <5>1, <3>3, <3>7
        <5> QED
          BY <5>2, <3>4
      <4>4. CASE t \in {"array"} \X Mapless[n - 1]
        <5>1. Kind(t) = "array" /\ t[2] \in Mapless[n - 1]
          BY <4>4 DEF Kind
        <5>2. ValuesOf[n][t] = {Null} \cup ({"array"} \X Seq(ValuesOf[n - 1][t[2]]))
          BY <5>1, <3>1, ValuesIn
        <5>3. /\ Kind(u) = "array" /\ u[2] \in Seq(ValuesOf[n - 1][t[2]])
              /\ Kind(v) = "array" /\ v[2] \in Seq(ValuesOf[n - 1][t[2]])
          BY <5>2, <3>7 DEF Kind
        <5>4. Comparison[n][u][v] = CompareArrays(Comparison[n - 1], u[2], v[2])
          BY <5>3, <3>3, <3>7
        <5>5. \A x, y \in ValuesOf[n - 1][t[2]] : Comparison[n - 1][x][y] \in Orders
          BY <1>2, <5>1
        <5>6. CompareArrays(Comparison[n - 1], u[2], v[2]) \in Orders
          BY <5>3, <5>5, CompareArraysSafe
        <5> QED
          BY <5>4, <5>6
      <4> QED
        BY <4>1, <4>2, <4>3, <4>4, MaplessIn
    <3> QED
      BY <3>6, <3>7
  <2> QED
    BY <2>1, Levels
<1>3. 0 .. Nesting \subseteq T
  <2> HIDE DEF T
  <2> QED
    BY <1>1, <1>2, ByLevel
<1> QED
  BY <1>3

(* The same of a type that a sort takes, when it has no maps within.       *)
LEMMA SortableCompare ==
    ASSUME NEW t \in Type, Sortable(t), ~ MapsWithin(t), NEW u \in Of(t), NEW v \in Of(t)
    PROVE  Compare(u, v) \in Orders
<1>1. t \in Mapless[Nesting]
  <2>1. Nesting \in 1 .. Nesting
    BY Deep
  <2>2. CASE Kind(t) = "array"
    BY <2>2 DEF MapsWithin
  <2>3. CASE Kind(t) # "array"
    <3>1. t \in {BoolT, NumberT, StringT}
      BY <2>3, TypeIs DEF Sortable
    <3> QED
      BY <2>1, <3>1, MaplessIn
  <2> QED
    BY <2>2, <2>3
<1>2. Nesting \in 0 .. Nesting
  BY Deep
<1> QED
  BY <1>1, <1>2, MaplessCompare DEF Compare, Of

-----------------------------------------------------------------------------
(* The function that FlattenSeq stands for.                                *)
Flat(f, ss) == /\ f[1] = ss[1]
               /\ \A i \in 2 .. Len(ss) : f[i] = f[i - 1] \o ss[i]

(* There is such a function, and its last value is the flat sequence.      *)
LEMMA FlatIs ==
    ASSUME NEW S, NEW ss \in Seq(Seq(S)), ss # << >>
    PROVE  \E f : Flat(f, ss) /\ FlattenSeq(ss) = f[Len(ss)]
<1>1. Len(ss) \in Nat /\ 1 \in Nat /\ 1 <= Len(ss) /\ Len(ss) # 0
  BY EmptySeq
<1>2. PICK f : Exact(f, "flat", ss, ss[1], 1, Len(ss))
  BY <1>1, Exists
<1>3. f = [i \in 1 .. Len(ss) |-> IF i = 1 THEN ss[i] ELSE Join(f[i - 1], ss[i])]
  BY <1>2 DEF Exact, Over
<1>4. f = [i \in 1 .. Len(ss) |-> IF i = 1 THEN ss[i] ELSE f[i - 1] \o ss[i]]
  BY <1>3, Zenon DEF Join
<1> DEFINE g == CHOOSE flatten : flatten = [i \in 1 .. Len(ss) |-> IF i = 1 THEN ss[i] ELSE flatten[i - 1] \o ss[i]]
<1>5. g = [i \in 1 .. Len(ss) |-> IF i = 1 THEN ss[i] ELSE g[i - 1] \o ss[i]]
  BY <1>4, Zenon
<1>6. FlattenSeq(ss) = g[Len(ss)]
  BY <1>1, Zenon DEF FlattenSeq
<1> HIDE DEF g
<1>7. 1 \in 1 .. Len(ss) /\ \A i \in 2 .. Len(ss) : i \in 1 .. Len(ss) /\ i # 1
  BY <1>1
<1>8. g[1] = ss[1] /\ \A i \in 2 .. Len(ss) : g[i] = g[i - 1] \o ss[i]
  BY <1>5, <1>7, Zenon
<1> QED
  BY <1>6, <1>8 DEF Flat

(* Sequences of values flatten to a sequence of values.                    *)
LEMMA FlatTyped ==
    ASSUME NEW S, NEW ss \in Seq(Seq(S)), NEW f, Flat(f, ss)
    PROVE  \A i \in 1 .. Len(ss) : f[i] \in Seq(S)
<1> DEFINE T == {i \in Nat : i \in 1 .. Len(ss) => f[i] \in Seq(S)}
<1>1. 0 \in T
  OBVIOUS
<1>2. ASSUME NEW i \in Nat, i \in T PROVE i + 1 \in T
  <2>1. CASE i = 0
    BY <2>1 DEF Flat
  <2>2. CASE i # 0 /\ i + 1 \in 1 .. Len(ss)
    <3>1. i + 1 \in 2 .. Len(ss) /\ (i + 1) - 1 = i /\ i \in 1 .. Len(ss)
      BY <2>2
    <3>2. f[i + 1] = f[i] \o ss[i + 1]
      BY <3>1 DEF Flat
    <3>3. f[i] \in Seq(S) /\ ss[i + 1] \in Seq(S)
      BY <3>1, <1>2
    <3>4. f[i + 1] \in Seq(S)
      BY <3>2, <3>3, ConcatProperties
    <3> QED
      BY <3>4
  <2> QED
    BY <2>1, <2>2
<1>3. Nat \subseteq T
  <2> HIDE DEF T
  <2> QED
    BY <1>1, <1>2, Induction
<1> QED
  BY <1>3

(* No sequences flatten to the empty one.                                  *)
LEMMA FlatEmpty == FlattenSeq(<< >>) = << >>
  BY DEF FlattenSeq

(* The same of FlattenSeq.                                                 *)
LEMMA FlattenTyped ==
    ASSUME NEW S, NEW ss \in Seq(Seq(S))
    PROVE  FlattenSeq(ss) \in Seq(S)
<1>1. CASE ss = << >>
  <2>1. FlattenSeq(ss) = << >>
    BY <1>1, FlatEmpty
  <2> QED
    BY <2>1, EmptySeq
<1>2. CASE ss # << >>
  <2>1. PICK f : Flat(f, ss) /\ FlattenSeq(ss) = f[Len(ss)]
    BY <1>2, FlatIs
  <2>2. Len(ss) \in 1 .. Len(ss)
    BY <1>2, EmptySeq
  <2> QED
    BY <2>1, <2>2, FlatTyped
<1> QED
  BY <1>1, <1>2

(* A sequence more, and what it flattens to is longer by it.               *)
LEMMA FlattenAppend ==
    ASSUME NEW S, NEW ss \in Seq(Seq(S)), NEW s \in Seq(S)
    PROVE  FlattenSeq(Append(ss, s)) = FlattenSeq(ss) \o s
<1> DEFINE tt == Append(ss, s)
<1>1. /\ tt \in Seq(Seq(S)) /\ tt # << >> /\ Len(tt) = Len(ss) + 1
      /\ tt[Len(ss) + 1] = s /\ \A i \in 1 .. Len(ss) : tt[i] = ss[i]
  BY AppendProperties
<1> HIDE DEF tt
<1>2. PICK g : Flat(g, tt) /\ FlattenSeq(tt) = g[Len(tt)]
  BY <1>1, FlatIs
<1>3. CASE ss = << >>
  <2>1. Len(tt) = 1 /\ tt[1] = s
    BY <1>1, <1>3
  <2>2. FlattenSeq(tt) = s
    BY <1>2, <2>1 DEF Flat
  <2> QED
    BY <2>2, <1>3, FlatEmpty DEF tt
<1>4. CASE ss # << >>
  <2>1. PICK f : Flat(f, ss) /\ FlattenSeq(ss) = f[Len(ss)]
    BY <1>4, FlatIs
  <2>2. Len(ss) \in Nat /\ 1 <= Len(ss)
    BY <1>4, EmptySeq
  <2> DEFINE T == {i \in Nat : i \in 1 .. Len(ss) => g[i] = f[i]}
  <2>3. 0 \in T
    OBVIOUS
  <2>4. ASSUME NEW i \in Nat, i \in T PROVE i + 1 \in T
    <3>1. CASE i = 0
      BY <3>1, <1>1, <1>2, <2>1, <2>2 DEF Flat
    <3>2. CASE i # 0 /\ i + 1 \in 1 .. Len(ss)
      <4>1. /\ i + 1 \in 2 .. Len(ss) /\ i + 1 \in 2 .. Len(tt)
            /\ (i + 1) - 1 = i /\ i \in 1 .. Len(ss)
        BY <3>2, <1>1
      <4>2. f[i + 1] = f[i] \o ss[i + 1] /\ g[i + 1] = g[i] \o tt[i + 1]
        BY <4>1, <1>2, <2>1 DEF Flat
      <4>3. tt[i + 1] = ss[i + 1] /\ g[i] = f[i]
        BY <4>1, <2>4, <1>1, <3>2
      <4>4. g[i + 1] = f[i + 1]
        BY <4>2, <4>3
      <4> QED
        BY <4>4
    <3> QED
      BY <3>1, <3>2
  <2>5. Nat \subseteq T
    <3> HIDE DEF T
    <3> QED
      BY <2>3, <2>4, Induction
  <2>6. g[Len(ss)] = f[Len(ss)]
    BY <2>2, <2>5
  <2>7. Len(tt) \in 2 .. Len(tt) /\ Len(tt) - 1 = Len(ss)
    BY <1>1, <2>2
  <2>8. g[Len(tt)] = g[Len(ss)] \o s
    BY <1>1, <1>2, <2>7 DEF Flat
  <2> QED
    BY <1>2, <2>1, <2>6, <2>8 DEF tt
<1> QED
  BY <1>3, <1>4

-----------------------------------------------------------------------------
(* The transformers that may stand in an expression of a level, by the     *)
(* expressions of the level below.                                         *)
Transformer(expressions) == Simple \cup (Nested \X expressions)

(* The argument that each transformer comes with.                          *)
LEMMA ArgumentIs ==
    ASSUME NEW E, NEW tr \in Transformer(E)
    PROVE  /\ tr[1] \in {"greater-than", "lesser-than", "greater-or-equal", "lesser-or-equal", "equals"} => tr[2] \in Int
           /\ tr[1] = "between" => tr[2] \in Int \X Int
           /\ tr[1] = "get" => tr[2] \in Text
           /\ tr[1] = "get-idx" => tr[2] \in Nat
           /\ tr[1] \in OfRegex => tr[2] \in Regexes
           /\ tr[1] \in Nested => tr[2] \in E
<1> USE DEF Bare, Bounded, OfRegex, Nested
<1>1. CASE tr \in {<<op>> : op \in Bare}
  BY <1>1
<1>2. CASE tr \in Bounded \X Int
  BY <1>2
<1>3. CASE tr \in ({"between"} \X (Int \X Int)) \cup ({"in"} \X SUBSET Int) \cup ({"get"} \X Text)
  BY <1>3
<1>4. CASE tr \in ({"get-idx"} \X Nat) \cup ({"equals-string"} \X Text) \cup ({"in-strings"} \X SUBSET Text)
  BY <1>4
<1>5. CASE tr \in OfRegex \X Regexes
  BY <1>5
<1>6. CASE tr \in Nested \X E
  BY <1>6
<1> QED
  BY <1>1, <1>2, <1>3, <1>4, <1>5, <1>6 DEF Transformer, Simple

(* An expression is empty, or one of the level below and a transformer     *)
(* more.                                                                   *)
LEMMA ExpressionsIn ==
    ASSUME NEW n \in 1 .. Nesting, NEW ts \in Expressions[n]
    PROVE  ts = << >> \/ (ts # << >> /\ Front(ts) \in Expressions[n - 1] /\ Last(ts) \in Transformer(Expressions[n - 1]))
<1>1. Expressions[n] = ExpressionsOver(Expressions[n - 1])
  BY ExpressionsAre
<1>2. ts \in Seq(Transformer(Expressions[n - 1])) /\ (ts = << >> \/ Front(ts) \in Expressions[n - 1])
  BY <1>1 DEF ExpressionsOver, Transformer
<1>3. ts # << >> => Last(ts) \in Transformer(Expressions[n - 1])
  BY <1>2, EmptySeq DEF Last
<1> QED
  BY <1>2, <1>3

(* The type of an expression is the type of its last transformer.          *)
LEMMA TypingIs ==
    ASSUME NEW n \in 1 .. Nesting, NEW ts \in Expressions[n], NEW t \in Type \cup {TypeError}
    PROVE  Typing[n][ts][t] =
                IF ts = << >> THEN t
                ELSE IF Typing[n - 1][Front(ts)][t] = TypeError THEN TypeError
                ELSE TypeFor(Typing[n - 1], Last(ts), Typing[n - 1][Front(ts)][t])
<1>1. Typing[n] = TypingOver(n, Typing[n - 1])
  BY TypingAre
<1> DEFINE Outcome(es, u) ==
                IF es = << >> THEN u
                ELSE IF Typing[n - 1][Front(es)][u] = TypeError THEN TypeError
                ELSE TypeFor(Typing[n - 1], Last(es), Typing[n - 1][Front(es)][u])
<1>2. Typing[n] = [es \in Expressions[n] |-> [u \in Type \cup {TypeError} |-> Outcome(es, u)]]
  BY <1>1 DEF TypingOver
<1>3. Typing[n][ts][t] = Outcome(ts, t)
  <2> HIDE DEF Outcome
  <2> QED
    BY <1>2
<1> QED
  BY <1>3

(* Its value is what the last transformer makes of the value of the        *)
(* others.                                                                 *)
LEMMA EvaluationIs ==
    ASSUME NEW n \in 1 .. Nesting, NEW ts \in Expressions[n], NEW v \in Value \cup {Panic}
    PROVE  Evaluation[n][ts][v] =
                IF ts = << >> THEN v
                ELSE IF Evaluation[n - 1][Front(ts)][v] = Panic THEN Panic
                ELSE EvalOne(Evaluation[n - 1], Last(ts), Evaluation[n - 1][Front(ts)][v])
<1>1. Evaluation[n] = EvaluationOver(n, Evaluation[n - 1])
  BY EvaluationAre
<1> DEFINE Outcome(es, u) ==
                IF es = << >> THEN u
                ELSE IF Evaluation[n - 1][Front(es)][u] = Panic THEN Panic
                ELSE EvalOne(Evaluation[n - 1], Last(es), Evaluation[n - 1][Front(es)][u])
<1>2. Evaluation[n] = [es \in Expressions[n] |-> [u \in Value \cup {Panic} |-> Outcome(es, u)]]
  BY <1>1 DEF EvaluationOver
<1>3. Evaluation[n][ts][v] = Outcome(ts, v)
  <2> HIDE DEF Outcome
  <2> QED
    BY <1>2
<1> QED
  BY <1>3

(* Where the last of the transformers may compare maps.                    *)
Risky(typeOf, sorts, tr, t) ==
    \/ tr[1] = "sort" /\ MapsWithin(t[2])
    \/ tr[1] = "sort-by" /\ MapsWithin(typeOf[tr[2]][t[2]])
    \/ tr[1] \in Nested /\ t[2] \in sorts[tr[2]]

(* And it sorts maps where the others or the last one do.                  *)
LEMMA MapSortsIn ==
    ASSUME NEW n \in 1 .. Nesting, NEW ts \in Expressions[n], NEW t \in Type
    PROVE  t \in MapSorts[n][ts] <=>
                /\ ts # << >>
                /\ \/ t \in MapSorts[n - 1][Front(ts)]
                   \/ Risky(Typing[n - 1], MapSorts[n - 1], Last(ts), Typing[n - 1][Front(ts)][t])
<1>1. MapSorts[n] = MapSortsOver(n, Typing[n - 1], MapSorts[n - 1])
  BY MapSortsAre
<1> DEFINE Within(es, u) ==
                /\ es # << >>
                /\ \/ u \in MapSorts[n - 1][Front(es)]
                   \/ Risky(Typing[n - 1], MapSorts[n - 1], Last(es), Typing[n - 1][Front(es)][u])
<1>2. MapSorts[n] = [es \in Expressions[n] |-> {u \in Type : Within(es, u)}]
  BY <1>1, Zenon DEF MapSortsOver, Risky
<1>3. t \in MapSorts[n][ts] <=> Within(ts, t)
  <2> HIDE DEF Within
  <2> QED
    BY <1>2
<1> QED
  BY <1>3

(* A type that the language can write in full is itself.                   *)
LEMMA ShallowIs == \A t : Shallow(t) \in Type \cup {TypeError} /\ (Shallow(t) # TypeError => Shallow(t) = t)
  BY DEF Shallow

(* A transformer has a type, or none.                                      *)
LEMMA TypeForTyped ==
    ASSUME NEW typeOf, NEW tr, NEW t \in Type
    PROVE  TypeFor(typeOf, tr, t) \in Type \cup {TypeError}
<1>1. {BoolT, NumberT, StringT} \subseteq Type
  BY TypeIs
<1>2. Kind(t) \in {"array", "map"} => t[2] \in Type
  BY TypeIs
<1> QED
  BY <1>1, <1>2, ShallowIs DEF TypeFor

(* So does an expression.                                                  *)
LEMMA TypingTyped ==
    \A n \in 0 .. Nesting : \A ts \in Expressions[n] :
        /\ Typing[n][ts][TypeError] = TypeError
        /\ \A t \in Type : Typing[n][ts][t] \in Type \cup {TypeError}
<1> DEFINE T == {n \in 0 .. Nesting : \A ts \in Expressions[n] :
                    /\ Typing[n][ts][TypeError] = TypeError
                    /\ \A t \in Type : Typing[n][ts][t] \in Type \cup {TypeError}}
<1>1. 0 \in T
  BY Levels, ExpressionsAre
<1>2. ASSUME NEW n \in 1 .. Nesting, n - 1 \in T PROVE n \in T
  <2>1. ASSUME NEW ts \in Expressions[n]
        PROVE  /\ Typing[n][ts][TypeError] = TypeError
               /\ \A t \in Type : Typing[n][ts][t] \in Type \cup {TypeError}
    <3>1. ts = << >> \/ (ts # << >> /\ Front(ts) \in Expressions[n - 1])
      BY ExpressionsIn
    <3>2. ts # << >> => /\ Typing[n - 1][Front(ts)][TypeError] = TypeError
                        /\ \A t \in Type : Typing[n - 1][Front(ts)][t] \in Type \cup {TypeError}
      BY <1>2, <3>1
    <3>3. Typing[n][ts][TypeError] = TypeError
      BY <3>2, TypingIs
    <3>4. ASSUME NEW t \in Type PROVE Typing[n][ts][t] \in Type \cup {TypeError}
      <4>1. Typing[n][ts][t] =
                IF ts = << >> THEN t
                ELSE IF Typing[n - 1][Front(ts)][t] = TypeError THEN TypeError
                ELSE TypeFor(Typing[n - 1], Last(ts), Typing[n - 1][Front(ts)][t])
        BY TypingIs
      <4>2. \A u \in Type : TypeFor(Typing[n - 1], Last(ts), u) \in Type \cup {TypeError}
        BY TypeForTyped
      <4> QED
        BY <3>2, <4>1, <4>2
    <3> QED
      BY <3>3, <3>4
  <2> QED
    BY <2>1, Levels
<1>3. 0 .. Nesting \subseteq T
  <2> HIDE DEF T
  <2> QED
    BY <1>1, <1>2, ByLevel
<1> QED
  BY <1>3

(* Nothing comes after a panic.                                            *)
LEMMA PanicStays == \A n \in 0 .. Nesting : \A ts \in Expressions[n] : Evaluation[n][ts][Panic] = Panic
<1> DEFINE T == {n \in 0 .. Nesting : \A ts \in Expressions[n] : Evaluation[n][ts][Panic] = Panic}
<1>1. 0 \in T
  BY Levels, ExpressionsAre
<1>2. ASSUME NEW n \in 1 .. Nesting, n - 1 \in T PROVE n \in T
  <2>1. ASSUME NEW ts \in Expressions[n] PROVE Evaluation[n][ts][Panic] = Panic
    <3>1. ts = << >> \/ (ts # << >> /\ Front(ts) \in Expressions[n - 1])
      BY ExpressionsIn
    <3> QED
      BY <1>2, <3>1, EvaluationIs
  <2> QED
    BY <2>1, Levels
<1>3. 0 .. Nesting \subseteq T
  <2> HIDE DEF T
  <2> QED
    BY <1>1, <1>2, ByLevel
<1> QED
  BY <1>3

-----------------------------------------------------------------------------
(* An expression that was accepted gives values of its type, or sorts      *)
(* maps.                                                                   *)
Sound(E, typeOf, eval, sorts) ==
    \A ts \in E, t \in Type :
        /\ typeOf[ts][t] \in Type \cup {TypeError}
        /\ typeOf[ts][t] # TypeError =>
                \A v \in Of(t) : \/ eval[ts][v] \in Of(typeOf[ts][t])
                                 \/ eval[ts][v] = Panic /\ t \in sorts[ts]

(* The values of type bool.                                                *)
Truths == {Null, Bool(TRUE), Bool(FALSE)}

(* The values of the three plain types, of arrays and of maps.             *)
LEMMA TruthsAre == Of(BoolT) = Truths /\ \A b \in BOOLEAN : Bool(b) \in Of(BoolT)
<1>1. Of(BoolT) = {Null} \cup {Bool(b) : b \in BOOLEAN}
  BY OfIs, TypeIs
<1>2. {Bool(b) : b \in BOOLEAN} = {Bool(TRUE), Bool(FALSE)}
  OBVIOUS
<1> QED
  BY <1>1, <1>2 DEF Truths

LEMMA NumbersAre == Of(NumberT) = {Null} \cup ({"number"} \X Int) /\ \A n \in Int : Num(n) \in Of(NumberT)
<1>1. Of(NumberT) = {Null} \cup ({"number"} \X Int)
  BY OfIs, TypeIs
<1> QED
  BY <1>1 DEF Num

LEMMA StringsAre == Of(StringT) = {Null} \cup ({"string"} \X Text) /\ \A s \in Text : Str(s) \in Of(StringT)
<1>1. Of(StringT) = {Null} \cup ({"string"} \X Text)
  BY OfIs, TypeIs
<1> QED
  BY <1>1 DEF Str

LEMMA ArraysAre ==
    ASSUME NEW t, ArrayT(t) \in Type
    PROVE  /\ t \in Type
           /\ Of(ArrayT(t)) = {Null} \cup ({"array"} \X Seq(Of(t)))
           /\ \A s \in Seq(Of(t)) : Arr(s) \in Of(ArrayT(t))
<1>1. Of(ArrayT(t)) = {Null} \cup ({"array"} \X Seq(Of(t)))
  <2>1. Kind(ArrayT(t)) = "array" /\ ArrayT(t)[2] = t
    BY DEF Kind, ArrayT
  <2> QED
    BY <2>1, OfIs
<1>2. t \in Type
  BY TypeIs DEF ArrayT
<1> QED
  BY <1>1, <1>2 DEF Arr

LEMMA ObjectsAre ==
    ASSUME NEW t, MapT(t) \in Type
    PROVE  /\ t \in Type
           /\ Of(MapT(t)) = {Null} \cup ({"map"} \X Maps(Of(t)))
           /\ \A f \in Maps(Of(t)) : Obj(f) \in Of(MapT(t))
<1>1. Of(MapT(t)) = {Null} \cup ({"map"} \X Maps(Of(t)))
  <2>1. Kind(MapT(t)) = "map" /\ MapT(t)[2] = t
    BY DEF Kind, MapT
  <2> QED
    BY <2>1, OfIs
<1>2. t \in Type
  BY TypeIs DEF MapT
<1> QED
  BY <1>1, <1>2 DEF Obj

(* Kinds tell the values apart.                                            *)
LEMMA KindsAre ==
    /\ Kind(BoolT) = "bool" /\ Kind(NumberT) = "number" /\ Kind(StringT) = "string"
    /\ \A t : Kind(ArrayT(t)) = "array" /\ Kind(MapT(t)) = "map"
    /\ BoolT # NumberT /\ BoolT # StringT /\ NumberT # StringT
    /\ \A t : {ArrayT(t), MapT(t)} \cap {BoolT, NumberT, StringT, TypeError} = {}
  BY DEF Kind, BoolT, NumberT, StringT, ArrayT, MapT, TypeError

(* The transformers that each kind of value accepts, with their types.     *)
LEMMA BoolTyping ==
    ASSUME NEW typeOf, NEW tr, TypeFor(typeOf, tr, BoolT) # TypeError
    PROVE  \/ tr[1] \in {"is-null", "is-not-null", "not"} /\ TypeFor(typeOf, tr, BoolT) = BoolT
           \/ tr[1] = "as-string" /\ TypeFor(typeOf, tr, BoolT) = StringT
  BY KindsAre DEF TypeFor, Lengthy

LEMMA NumberTyping ==
    ASSUME NEW typeOf, NEW tr, TypeFor(typeOf, tr, NumberT) # TypeError
    PROVE  \/ tr[1] \in {"is-null", "is-not-null"} \cup OfNumber /\ TypeFor(typeOf, tr, NumberT) = BoolT
           \/ tr[1] = "as-string" /\ TypeFor(typeOf, tr, NumberT) = StringT
  BY KindsAre DEF TypeFor, Lengthy, OfNumber, Bounded

LEMMA StringTyping ==
    ASSUME NEW typeOf, NEW tr, TypeFor(typeOf, tr, StringT) # TypeError
    PROVE  \/ /\ tr[1] \in {"is-null", "is-not-null", "equals-string", "in-strings", "matches", "is-empty"}
              /\ TypeFor(typeOf, tr, StringT) = BoolT
           \/ /\ tr[1] \in {"hash", "as-number", "length"}
              /\ TypeFor(typeOf, tr, StringT) = NumberT
           \/ /\ tr[1] \in {"pretty", "replace", "as-string"}
              /\ TypeFor(typeOf, tr, StringT) = StringT
           \/ tr[1] = "capture" /\ TypeFor(typeOf, tr, StringT) = MapT(StringT)
           \/ tr[1] = "all-captures" /\ TypeFor(typeOf, tr, StringT) = ArrayT(MapT(StringT))
  BY KindsAre, ShallowIs DEF TypeFor, Lengthy, OfNumber, Bounded, OfText

LEMMA ArrayTyping ==
    ASSUME NEW typeOf, NEW tr, NEW t, Kind(t) = "array", TypeFor(typeOf, tr, t) # TypeError
    PROVE  \/ tr[1] \in {"is-null", "is-not-null", "is-empty"} /\ TypeFor(typeOf, tr, t) = BoolT
           \/ tr[1] = "length" /\ TypeFor(typeOf, tr, t) = NumberT
           \/ tr[1] = "get-idx" /\ TypeFor(typeOf, tr, t) = t[2]
           \/ tr[1] = "flatten" /\ TypeFor(typeOf, tr, t) = t[2] /\ Kind(t[2]) = "array"
           \/ tr[1] = "each" /\ TypeFor(typeOf, tr, t) = ArrayT(typeOf[tr[2]][t[2]])
           \/ tr[1] = "filter" /\ TypeFor(typeOf, tr, t) = t /\ typeOf[tr[2]][t[2]] = BoolT
           \/ tr[1] \in {"any", "all"} /\ TypeFor(typeOf, tr, t) = BoolT /\ typeOf[tr[2]][t[2]] = BoolT
           \/ tr[1] = "sort" /\ TypeFor(typeOf, tr, t) = t /\ Sortable(t[2])
           \/ tr[1] = "sort-by" /\ TypeFor(typeOf, tr, t) = t /\ Sortable(typeOf[tr[2]][t[2]])
<1>1. t \notin {BoolT, NumberT, StringT}
  BY KindsAre
<1> DEFINE inner == typeOf[tr[2]][t[2]]
<1>2. Shallow(<<Kind(t), inner>>) # TypeError => Shallow(<<Kind(t), inner>>) = ArrayT(inner)
  BY ShallowIs DEF ArrayT
<1> HIDE DEF inner
<1>3. TypeFor(typeOf, tr, t) =
        CASE tr[1] \in {"is-null", "is-not-null"} -> BoolT
          [] tr[1] = "length" -> NumberT
          [] tr[1] = "is-empty" -> BoolT
          [] tr[1] = "get-idx" -> t[2]
          [] tr[1] = "flatten" /\ Kind(t[2]) = "array" -> t[2]
          [] tr[1] = "each" -> Shallow(<<Kind(t), inner>>)
          [] tr[1] = "filter" /\ inner = BoolT -> t
          [] tr[1] \in {"any", "all"} /\ inner = BoolT -> BoolT
          [] tr[1] = "sort" /\ Sortable(t[2]) -> t
          [] tr[1] = "sort-by" /\ Sortable(inner) -> t
          [] OTHER -> TypeError
  BY <1>1 DEF TypeFor, Lengthy, OfNumber, Bounded, OfText, inner
<1> QED
  BY <1>2, <1>3 DEF inner

LEMMA MapTyping ==
    ASSUME NEW typeOf, NEW tr, NEW t, Kind(t) = "map", TypeFor(typeOf, tr, t) # TypeError
    PROVE  \/ tr[1] \in {"is-null", "is-not-null", "is-empty"} /\ TypeFor(typeOf, tr, t) = BoolT
           \/ tr[1] = "length" /\ TypeFor(typeOf, tr, t) = NumberT
           \/ tr[1] = "get" /\ TypeFor(typeOf, tr, t) = t[2]
           \/ tr[1] = "each" /\ TypeFor(typeOf, tr, t) = MapT(typeOf[tr[2]][t[2]])
           \/ tr[1] = "filter" /\ TypeFor(typeOf, tr, t) = t /\ typeOf[tr[2]][t[2]] = BoolT
<1>1. t \notin {BoolT, NumberT, StringT}
  BY KindsAre
<1> DEFINE inner == typeOf[tr[2]][t[2]]
<1>2. Shallow(<<Kind(t), inner>>) # TypeError => Shallow(<<Kind(t), inner>>) = MapT(inner)
  BY ShallowIs DEF MapT
<1> HIDE DEF inner
<1>3. TypeFor(typeOf, tr, t) =
        CASE tr[1] \in {"is-null", "is-not-null"} -> BoolT
          [] tr[1] = "length" -> NumberT
          [] tr[1] = "is-empty" -> BoolT
          [] tr[1] = "get" -> t[2]
          [] tr[1] = "each" -> Shallow(<<Kind(t), inner>>)
          [] tr[1] = "filter" /\ inner = BoolT -> t
          [] OTHER -> TypeError
  BY <1>1 DEF TypeFor, Lengthy, OfNumber, Bounded, OfText, inner
<1> QED
  BY <1>2, <1>3 DEF inner

-----------------------------------------------------------------------------
(* The constants about texts.                                              *)
LEMMA TextsAre ==
    /\ IsFiniteSet(Text)
    /\ \A v : Written(v) \in Text
    /\ \A s \in Text : /\ Place(s) \in DOMAIN Texts /\ Place(s) \in Int /\ Texts[Place(s)] = s
                       /\ LengthOf[s] \in Nat
    /\ \A s \in DOMAIN NumberOf : NumberOf[s] \in Int
    /\ \A s \in DOMAIN PrettyOf : PrettyOf[s] \in Text
<1>1. Texts \in Seq(STRING) /\ Texts # << >>
  BY ValuesAssumption
<1>2. Text = {Texts[i] : i \in DOMAIN Texts}
  BY DEF Text, Range
<1>3. IsFiniteSet(Text)
  <2>1. Texts \in Surjection(DOMAIN Texts, Text)
    BY <1>1, <1>2 DEF Surjection
  <2>2. IsFiniteSet(DOMAIN Texts)
    BY <1>1, FS_Interval
  <2> QED
    BY <2>1, <2>2, FS_Surjection
<1>4. \A v : Written(v) \in Text
  <2>1. Texts[1] \in Text
    BY <1>1, <1>2, EmptySeq
  <2>2. TextOf \in [DOMAIN TextOf -> Text]
    BY ValuesAssumption
  <2> QED
    BY <2>1, <2>2 DEF Written
<1>5. ASSUME NEW s \in Text PROVE Place(s) \in DOMAIN Texts /\ Place(s) \in Int /\ Texts[Place(s)] = s
  <2>1. \E i \in DOMAIN Texts : Texts[i] = s
    BY <1>2
  <2>2. Place(s) \in DOMAIN Texts /\ Texts[Place(s)] = s
    BY <2>1, Zenon DEF Place
  <2> QED
    BY <1>1, <2>2
<1>6. LengthOf \in [Text -> Nat]
  BY ValuesAssumption
<1>7. NumberOf \in [DOMAIN NumberOf -> Int]
  BY ValuesAssumption
<1>8. PrettyOf \in [DOMAIN PrettyOf -> Text]
  BY ValuesAssumption
<1> QED
  BY <1>3, <1>4, <1>5, <1>6, <1>7, <1>8

(* A test of a number is true or false.                                    *)
LEMMA NumberTestIs == \A op, x, a : NumberTest(op, x, a) \in BOOLEAN
  BY DEF NumberTest

(* Null, of every type, goes through.                                      *)
LEMMA EvalNull ==
    ASSUME NEW typeOf, NEW eval, NEW tr, NEW t \in Type, TypeFor(typeOf, tr, t) # TypeError
    PROVE  EvalOne(eval, tr, Null) \in Of(TypeFor(typeOf, tr, t))
<1>1. CASE tr[1] \in {"is-null", "is-not-null"}
  <2>1. TypeFor(typeOf, tr, t) = BoolT
    <3>1. CASE Kind(t) \in {"array", "map"}
      BY <1>1, <3>1, ArrayTyping, MapTyping
    <3>2. CASE t \in {BoolT, NumberT, StringT}
      <4>1. CASE t = BoolT
        BY <1>1, <4>1, BoolTyping
      <4>2. CASE t = NumberT
        BY <1>1, <4>2, NumberTyping DEF OfNumber, Bounded
      <4>3. CASE t = StringT
        BY <1>1, <4>3, StringTyping
      <4> QED
        BY <3>2, <4>1, <4>2, <4>3
    <3> QED
      BY <3>1, <3>2, TypeIs
  <2>2. EvalOne(eval, tr, Null) = Bool((Null = Null) = (tr[1] = "is-null"))
    BY <1>1 DEF EvalOne
  <2>3. ((Null = Null) = (tr[1] = "is-null")) \in BOOLEAN
    OBVIOUS
  <2> QED
    BY <2>1, <2>2, <2>3, TruthsAre
<1>2. CASE tr[1] \notin {"is-null", "is-not-null"}
  <2>1. EvalOne(eval, tr, Null) = Null
    BY <1>2 DEF EvalOne
  <2> QED
    BY <2>1, TypeForTyped, OfAreValues
<1> QED
  BY <1>1, <1>2

(* A test for null gives a truth.                                          *)
LEMMA EvalNullTest ==
    ASSUME NEW eval, NEW tr, tr[1] \in {"is-null", "is-not-null"}, NEW v
    PROVE  EvalOne(eval, tr, v) \in Of(BoolT)
<1>1. EvalOne(eval, tr, v) = Bool((v = Null) = (tr[1] = "is-null"))
  BY DEF EvalOne
<1>2. ((v = Null) = (tr[1] = "is-null")) \in BOOLEAN
  OBVIOUS
<1> QED
  BY <1>1, <1>2, TruthsAre

(* What a transformer makes of a truth, of a type that was accepted.       *)
LEMMA EvalBool ==
    ASSUME NEW typeOf, NEW eval, NEW tr, TypeFor(typeOf, tr, BoolT) # TypeError, NEW v \in Of(BoolT), v # Null
    PROVE  EvalOne(eval, tr, v) \in Of(TypeFor(typeOf, tr, BoolT))
<1>1. v \in {Bool(TRUE), Bool(FALSE)} /\ Kind(v) = "bool"
  <2>1. v \in {Bool(TRUE), Bool(FALSE)}
    BY TruthsAre DEF Truths
  <2>2. Kind(Bool(TRUE)) = "bool" /\ Kind(Bool(FALSE)) = "bool"
    BY DEF Kind, Bool
  <2> QED
    BY <2>1, <2>2
<1>2. CASE tr[1] \in {"is-null", "is-not-null"}
  BY <1>2, BoolTyping, EvalNullTest
<1>3. CASE tr[1] = "not"
  <2>1. EvalOne(eval, tr, v) = Bool(~ v[2])
    BY <1>1, <1>3 DEF EvalOne, OfNumber, Bounded
  <2>2. Bool(~ v[2]) \in {Bool(TRUE), Bool(FALSE)}
    BY <1>1 DEF Bool
  <2> QED
    BY <1>3, <2>1, <2>2, BoolTyping, TruthsAre
<1>4. CASE tr[1] = "as-string"
  <2>1. EvalOne(eval, tr, v) = Str(Written(v))
    BY <1>1, <1>4 DEF EvalOne, OfNumber, Bounded
  <2> QED
    BY <1>4, <2>1, BoolTyping, StringsAre, TextsAre
<1> QED
  BY <1>2, <1>3, <1>4, BoolTyping

(* Of a number.                                                            *)
LEMMA EvalNumber ==
    ASSUME NEW E, NEW typeOf, NEW eval, NEW tr \in Transformer(E), TypeFor(typeOf, tr, NumberT) # TypeError,
           NEW v \in Of(NumberT), v # Null
    PROVE  EvalOne(eval, tr, v) \in Of(TypeFor(typeOf, tr, NumberT))
<1>1. v[2] \in Int /\ Kind(v) = "number"
  BY NumbersAre DEF Kind
<1>2. CASE tr[1] \in {"is-null", "is-not-null"}
  BY <1>2, NumberTyping, EvalNullTest DEF OfNumber, Bounded
<1>3. CASE tr[1] \in OfNumber
  <2>1. EvalOne(eval, tr, v) = Bool(NumberTest(tr[1], v[2], tr[2]))
    BY <1>1, <1>3 DEF EvalOne, OfNumber, Bounded
  <2>2. TypeFor(typeOf, tr, NumberT) = BoolT
    BY <1>3, NumberTyping DEF OfNumber, Bounded
  <2> QED
    BY <1>1, <1>3, <2>1, <2>2, NumberTestIs, TruthsAre
<1>4. CASE tr[1] = "as-string"
  <2>1. EvalOne(eval, tr, v) = Str(Written(v))
    BY <1>1, <1>4 DEF EvalOne, OfNumber, Bounded
  <2>2. TypeFor(typeOf, tr, NumberT) = StringT
    BY <1>4, NumberTyping DEF OfNumber, Bounded
  <2> QED
    BY <2>1, <2>2, StringsAre, TextsAre
<1> QED
  BY <1>2, <1>3, <1>4, NumberTyping

(* What a regular expression finds is a sequence of maps of strings.       *)
LEMMA FindsAre ==
    ASSUME NEW re \in Regexes, NEW s
    PROVE  Finds(re, s) \in Seq(Maps(Of(StringT))) /\ re.into \in Text
<1>1. re.found \in [DOMAIN re.found -> Seq(Maps({"string"} \X Text))] /\ re.into \in Text
  BY RegexesAssumption
<1>2. {"string"} \X Text \subseteq Of(StringT)
  BY StringsAre
<1>3. Seq(Maps({"string"} \X Text)) \subseteq Seq(Maps(Of(StringT)))
  BY <1>2, MapsGrow, SeqGrow
<1>4. << >> \in Seq(Maps(Of(StringT)))
  BY EmptySeq
<1> QED
  BY <1>1, <1>3, <1>4 DEF Finds

(* Of a string.                                                            *)
LEMMA EvalString ==
    ASSUME NEW E, NEW typeOf, NEW eval, NEW tr \in Transformer(E), TypeFor(typeOf, tr, StringT) # TypeError,
           NEW v \in Of(StringT), v # Null
    PROVE  EvalOne(eval, tr, v) \in Of(TypeFor(typeOf, tr, StringT))
<1> DEFINE t == TypeFor(typeOf, tr, StringT)
           s == v[2]
           found == Finds(tr[2], s)
<1>1. s \in Text /\ Kind(v) = "string"
  BY StringsAre DEF Kind
<1>2. t \in Type
  BY TypeForTyped, TypeIs
<1>3. tr[1] \in OfRegex => found \in Seq(Maps(Of(StringT))) /\ tr[2].into \in Text
  BY ArgumentIs, FindsAre
<1>4. tr[1] \notin {"is-null", "is-not-null"} => EvalOne(eval, tr, v) = OnText(tr[1], s, tr)
  BY <1>1 DEF EvalOne
<1> HIDE DEF t, s
<1>5. CASE tr[1] \in {"is-null", "is-not-null"}
  BY <1>5, StringTyping, EvalNullTest DEF t
<1>6. CASE tr[1] \in {"equals-string", "in-strings", "matches", "is-empty"}
  <2>1. t = BoolT
    BY <1>6, StringTyping DEF t
  <2>2. CASE tr[1] = "equals-string"
    <3>1. OnText(tr[1], s, tr) = Bool(s = tr[2]) /\ (s = tr[2]) \in BOOLEAN
      BY <2>2 DEF OnText
    <3> QED
      BY <3>1, <1>4, <1>6, <2>1, TruthsAre DEF t
  <2>3. CASE tr[1] = "in-strings"
    <3>1. OnText(tr[1], s, tr) = Bool(s \in tr[2]) /\ (s \in tr[2]) \in BOOLEAN
      BY <2>3 DEF OnText
    <3> QED
      BY <3>1, <1>4, <1>6, <2>1, TruthsAre DEF t
  <2>4. CASE tr[1] = "matches"
    <3>1. OnText(tr[1], s, tr) = Bool(found # << >>) /\ (found # << >>) \in BOOLEAN
      BY <2>4 DEF OnText
    <3> QED
      BY <3>1, <1>4, <1>6, <2>1, TruthsAre DEF t
  <2>5. CASE tr[1] = "is-empty"
    <3>1. OnText(tr[1], s, tr) = Bool(LengthOf[s] = 0) /\ (LengthOf[s] = 0) \in BOOLEAN
      BY <2>5 DEF OnText
    <3>2. EvalOne(eval, tr, v) = Bool(LengthOf[s] = 0)
      BY <3>1, <1>4, <2>5
    <3> QED
      BY <3>1, <3>2, <2>1, TruthsAre DEF t
  <2> QED
    BY <1>6, <2>2, <2>3, <2>4, <2>5
<1>7. CASE tr[1] \in {"hash", "as-number", "length"}
  <2>1. t = NumberT
    BY <1>7, StringTyping DEF t
  <2>2. OnText(tr[1], s, tr) = Null \/ \E n \in Int : OnText(tr[1], s, tr) = Num(n)
    <3>1. CASE tr[1] = "hash"
      <4>1. OnText(tr[1], s, tr) = Num(Place(s))
        BY <3>1 DEF OnText
      <4> QED
        BY <1>1, <4>1, TextsAre
    <3>2. CASE tr[1] = "as-number"
      <4>1. OnText(tr[1], s, tr) = IF s \in DOMAIN NumberOf THEN Num(NumberOf[s]) ELSE Null
        BY <3>2 DEF OnText
      <4> QED
        BY <4>1, TextsAre
    <3>3. CASE tr[1] = "length"
      <4>1. OnText(tr[1], s, tr) = Num(LengthOf[s])
        BY <3>3 DEF OnText
      <4> QED
        BY <1>1, <4>1, TextsAre
    <3> QED
      BY <1>7, <3>1, <3>2, <3>3
  <2> QED
    BY <1>4, <1>7, <2>1, <2>2, NumbersAre DEF t
<1>8. CASE tr[1] \in {"pretty", "replace", "as-string"}
  <2>1. t = StringT
    BY <1>8, StringTyping DEF t
  <2>2. \E x \in Text : OnText(tr[1], s, tr) = Str(x)
    <3>1. CASE tr[1] = "pretty"
      <4>1. OnText(tr[1], s, tr) = Str(IF s \in DOMAIN PrettyOf THEN PrettyOf[s] ELSE s)
        BY <3>1 DEF OnText
      <4> QED
        BY <1>1, <4>1, TextsAre
    <3>2. CASE tr[1] = "replace"
      <4>1. OnText(tr[1], s, tr) = Str(IF found = << >> THEN s ELSE tr[2].into)
        BY <3>2 DEF OnText
      <4>2. tr[2].into \in Text
        BY <1>3, <3>2 DEF OfRegex
      <4> QED
        BY <1>1, <4>1, <4>2
    <3>3. CASE tr[1] = "as-string"
      <4>1. OnText(tr[1], s, tr) = Str(s)
        BY <3>3 DEF OnText
      <4> QED
        BY <1>1, <4>1
    <3> QED
      BY <1>8, <3>1, <3>2, <3>3
  <2> QED
    BY <1>4, <1>8, <2>1, <2>2, StringsAre DEF t
<1>9. CASE tr[1] = "capture"
  <2>1. t = MapT(StringT)
    BY <1>9, StringTyping DEF t
  <2>2. OnText(tr[1], s, tr) = IF found = << >> THEN Null ELSE Obj(found[1])
    BY <1>9 DEF OnText
  <2>3. found # << >> => found[1] \in Maps(Of(StringT))
    BY <1>3, <1>9, EmptySeq DEF OfRegex
  <2>4. Null \in Of(MapT(StringT)) /\ \A f \in Maps(Of(StringT)) : Obj(f) \in Of(MapT(StringT))
    BY <1>2, <2>1, ObjectsAre
  <2> QED
    BY <1>4, <1>9, <2>1, <2>2, <2>3, <2>4 DEF t
<1>10. CASE tr[1] = "all-captures"
  <2>1. t = ArrayT(MapT(StringT))
    BY <1>10, StringTyping DEF t
  <2>2. OnText(tr[1], s, tr) = Arr([i \in DOMAIN found |-> Obj(found[i])])
    BY <1>10 DEF OnText
  <2>3. found \in Seq(Maps(Of(StringT)))
    BY <1>3, <1>10 DEF OfRegex
  <2>4. MapT(StringT) \in Type /\ \A x \in Seq(Of(MapT(StringT))) : Arr(x) \in Of(t)
    BY <1>2, <2>1, ArraysAre
  <2>5. \A f \in Maps(Of(StringT)) : Obj(f) \in Of(MapT(StringT))
    BY <2>4, ObjectsAre
  <2>6. [i \in DOMAIN found |-> Obj(found[i])] \in Seq(Of(MapT(StringT)))
    BY <2>3, <2>5
  <2> QED
    BY <1>4, <1>10, <2>2, <2>4, <2>6 DEF t
<1> QED
  BY <1>5, <1>6, <1>7, <1>8, <1>9, <1>10, StringTyping DEF t

-----------------------------------------------------------------------------
(* A function on the places of a sequence is a sequence.                   *)
LEMMA MadeIsSeq ==
    ASSUME NEW S, NEW s \in Seq(S), NEW T, NEW f \in [DOMAIN s -> T]
    PROVE  f \in Seq(T) /\ Len(f) = Len(s)
<1>1. DOMAIN s = 1 .. Len(s) /\ Len(s) \in Nat
  OBVIOUS
<1>2. f \in [1 .. Len(s) -> T]
  BY <1>1
<1> QED
  BY <1>1, <1>2

(* A sequence by the bijection q of its places; one whose keys come out in *)
(* order;                                                                  *)
Rearranged(s, q) == Arr([i \in DOMAIN s |-> s[q[i]]])

InOrder(keys, p) == \A i, j \in DOMAIN p : i < j => Compare(keys[p[i]], keys[p[j]]) # "greater"

(* and keys that any two compare.                                          *)
Comparable(s, keys) ==
    \A i, j \in DOMAIN s : i < j => Panic \notin {keys[i], keys[j]} /\ Compare(keys[i], keys[j]) # "panic"

(* A sort gives some rearrangement, an ordered one if there is any.        *)
LEMMA SortedIs ==
    ASSUME NEW S, NEW s \in Seq(S), NEW keys
    PROVE  /\ ~ Comparable(s, keys) => Sorted(s, keys) = Panic
           /\ Comparable(s, keys) =>
                \E q \in Bijection(DOMAIN s, DOMAIN s) :
                    /\ Sorted(s, keys) = Rearranged(s, q)
                    /\ (\E p \in Bijection(DOMAIN s, DOMAIN s) : InOrder(keys, p)) => InOrder(keys, q)
<1> DEFINE ps == Bijection(DOMAIN s, DOMAIN s)
           good == {p \in ps : \A i, j \in DOMAIN s : i < j => Compare(keys[p[i]], keys[p[j]]) # "greater"}
           q == IF good # {} THEN CHOOSE p \in good : TRUE ELSE CHOOSE p \in ps : TRUE
           fails == \E i, j \in DOMAIN s : i < j /\ (Panic \in {keys[i], keys[j]} \/ Compare(keys[i], keys[j]) = "panic")
<1>1. Sorted(s, keys) = IF fails THEN Panic ELSE Rearranged(s, q)
  BY Zenon DEF Sorted, Rearranged
<1>2. ps # {}
  <2>1. [i \in DOMAIN s |-> i] \in ps
    BY DEF Bijection, Injection, Surjection, IsInjective
  <2> QED
    BY <2>1
<1>3. \A p \in ps : DOMAIN p = DOMAIN s
  BY DEF Bijection, Injection
<1>4. \A p \in ps : p \in good <=> InOrder(keys, p)
  BY <1>3 DEF InOrder
<1>5. q \in ps /\ (good # {} => q \in good)
  <2> HIDE DEF ps
  <2> QED
    BY <1>2
<1>6. (\E p \in ps : InOrder(keys, p)) => InOrder(keys, q)
  <2> HIDE DEF ps, q, good
  <2> QED
    BY <1>4, <1>5
<1>7. fails <=> ~ Comparable(s, keys)
  BY DEF Comparable
<1> HIDE DEF q, fails, good
<1> QED
  BY <1>1, <1>5, <1>6, <1>7

(* It keeps to the values.                                                 *)
LEMMA RearrangedTyped ==
    ASSUME NEW S, NEW s \in Seq(S), NEW q \in Bijection(DOMAIN s, DOMAIN s)
    PROVE  \E x \in Seq(S) : Rearranged(s, q) = Arr(x) /\ x = [i \in DOMAIN s |-> s[q[i]]]
<1>1. q \in [DOMAIN s -> DOMAIN s]
  BY DEF Bijection, Injection
<1>2. [i \in DOMAIN s |-> s[q[i]]] \in [DOMAIN s -> S]
  BY <1>1
<1>3. [i \in DOMAIN s |-> s[q[i]]] \in Seq(S)
  BY <1>2, MadeIsSeq
<1> QED
  BY <1>3 DEF Rearranged

(* So do the elements that a filter takes.                                 *)
LEMMA ChosenTyped ==
    ASSUME NEW S, NEW s \in Seq(S), NEW I
    PROVE  Chosen(s, I) \in Seq(S)
<1> DEFINE ss == [i \in DOMAIN s |-> IF i \in I THEN <<s[i]>> ELSE << >>]
<1>1. \A i \in DOMAIN s : <<s[i]>> \in Seq(S) /\ << >> \in Seq(S)
  <2>1. \A i \in DOMAIN s : s[i] \in S
    OBVIOUS
  <2> QED
    BY <2>1, EmptySeq
<1>2. ss \in Seq(Seq(S))
  <2>1. \A i \in DOMAIN s : (IF i \in I THEN <<s[i]>> ELSE << >>) \in Seq(S)
    BY <1>1
  <2>2. ss \in [DOMAIN s -> Seq(S)]
    BY <2>1
  <2> HIDE DEF ss
  <2> QED
    BY <2>2, MadeIsSeq
<1>3. Chosen(s, I) = FlattenSeq(ss)
  BY DEF Chosen
<1> HIDE DEF ss
<1> QED
  BY <1>2, <1>3, FlattenTyped

(* What a transformer makes of the elements of an array.                   *)
LEMMA EvalElements ==
    ASSUME NEW E, NEW typeOf, NEW eval, NEW sorts, Sound(E, typeOf, eval, sorts),
           NEW tr \in Transformer(E), tr[1] \in Nested,
           NEW t \in Type, Kind(t) = "array", TypeFor(typeOf, tr, t) # TypeError,
           NEW s \in Seq(Of(t[2])), NEW made, made = [i \in DOMAIN s |-> eval[tr[2]][s[i]]]
    PROVE  \/ OnElements(tr[1], s, made) \in Of(TypeFor(typeOf, tr, t))
           \/ OnElements(tr[1], s, made) = Panic /\ Risky(typeOf, sorts, tr, t)
<1> DEFINE u == t[2]
           inner == typeOf[tr[2]][u]
           op == tr[1]
<1>1. u \in Type /\ tr[2] \in E /\ inner \in Type \cup {TypeError} /\ t = ArrayT(u)
  BY TypeIs, ArgumentIs DEF Sound, ArrayT
<1>2. \/ op = "each" /\ TypeFor(typeOf, tr, t) = ArrayT(inner)
      \/ op = "filter" /\ TypeFor(typeOf, tr, t) = t /\ inner = BoolT
      \/ op \in {"any", "all"} /\ TypeFor(typeOf, tr, t) = BoolT /\ inner = BoolT
      \/ op = "sort-by" /\ TypeFor(typeOf, tr, t) = t /\ Sortable(inner)
  BY ArrayTyping DEF Nested
<1>3. inner # TypeError
  <2>1. CASE op = "each"
    <3>1. TypeFor(typeOf, tr, t) \in Type /\ TypeFor(typeOf, tr, t) = ArrayT(inner)
      BY <1>2, <2>1, TypeForTyped
    <3>2. ArrayT(inner) \in Type
      BY <3>1
    <3>3. inner \in Type
      BY <3>2, ArraysAre
    <3> QED
      BY <3>3, TypeIs
  <2>2. CASE op # "each"
    BY <1>2, <2>2, KindsAre, TypeIs DEF Sortable
  <2> QED
    BY <2>1, <2>2
<1>4. inner \in Type /\ \A i \in DOMAIN s : made[i] \in Of(inner) \/ (made[i] = Panic /\ u \in sorts[tr[2]])
  <2>1. \A i \in DOMAIN s : s[i] \in Of(u)
    OBVIOUS
  <2> QED
    BY <1>1, <1>3, <2>1 DEF Sound
<1>5. Arr(s) \in Of(t) /\ \A x \in Seq(Of(u)) : Arr(x) \in Of(t)
  BY <1>1, ArraysAre
<1> HIDE DEF inner, u
<1>6. CASE op = "sort-by"
  <2>1. OnElements(op, s, made) = Sorted(s, made)
    BY <1>6 DEF OnElements
  <2>2. Sorted(s, made) \in Of(t) \/ (Sorted(s, made) = Panic /\ ~ Comparable(s, made))
    <3>1. CASE Comparable(s, made)
      <4>1. PICK q \in Bijection(DOMAIN s, DOMAIN s) : Sorted(s, made) = Rearranged(s, q)
        BY <3>1, SortedIs
      <4>2. \E x \in Seq(Of(u)) : Rearranged(s, q) = Arr(x)
        BY RearrangedTyped DEF u
      <4> QED
        BY <4>1, <4>2, <1>5
    <3>2. CASE ~ Comparable(s, made)
      BY <3>2, SortedIs
    <3> QED
      BY <3>1, <3>2
  <2>3. ASSUME ~ Comparable(s, made) PROVE Risky(typeOf, sorts, tr, t)
    <3>1. PICK i, j \in DOMAIN s : Panic \in {made[i], made[j]} \/ Compare(made[i], made[j]) = "panic"
      BY <2>3 DEF Comparable
    <3>2. CASE Panic \in {made[i], made[j]}
      <4>1. Panic \notin Of(inner)
        BY <1>4, OfAreValues, ValueIs
      <4>2. u \in sorts[tr[2]]
        BY <1>4, <3>2, <4>1
      <4> QED
        BY <4>2 DEF Risky, u
    <3>3. CASE Panic \notin {made[i], made[j]} /\ Compare(made[i], made[j]) = "panic"
      <4>1. made[i] \in Of(inner) /\ made[j] \in Of(inner)
        BY <1>4, <3>3
      <4>2. Sortable(inner)
        BY <1>2, <1>6
      <4>3. MapsWithin(inner)
        BY <1>4, <4>1, <4>2, <3>3, SortableCompare DEF Orders
      <4> QED
        BY <4>3, <1>6 DEF Risky, inner, u
    <3> QED
      BY <3>1, <3>2, <3>3
  <2> QED
    BY <1>2, <1>6, <2>1, <2>2, <2>3
<1>7. CASE op # "sort-by"
  <2> DEFINE Decides(i) == op \in {"any", "all"} /\ (Holds(made[i]) <=> op = "any")
             reached == {i \in DOMAIN s : \A j \in DOMAIN s : j < i => ~ Decides(j)}
             chosen == {i \in reached : Holds(made[i])}
             fails == \E i \in reached : made[i] = Panic \/ (op # "each" /\ ~ IsTruth(made[i]))
  <2>1. OnElements(op, s, made) =
            IF fails THEN Panic
            ELSE CASE op = "each" -> Arr(made)
                   [] op = "any" -> Bool(chosen # {})
                   [] op = "all" -> Bool(chosen = DOMAIN s)
                   [] op = "filter" -> Arr(Chosen(s, chosen))
    BY <1>7, Zenon DEF OnElements
  <2>2. ASSUME fails PROVE Risky(typeOf, sorts, tr, t)
    <3>1. PICK i \in DOMAIN s : made[i] = Panic \/ (op # "each" /\ ~ IsTruth(made[i]))
      BY <2>2
    <3>2. made[i] \notin Of(inner)
      <4>1. CASE made[i] = Panic
        BY <1>4, <4>1, OfAreValues, ValueIs
      <4>2. CASE op # "each" /\ ~ IsTruth(made[i])
        <5>1. inner = BoolT
          BY <1>2, <1>7, <4>2
        <5> QED
          BY <4>2, <5>1, TruthsAre DEF IsTruth, Truths
      <4> QED
        BY <3>1, <4>1, <4>2
    <3>3. u \in sorts[tr[2]]
      BY <1>4, <3>2
    <3> QED
      BY <3>3 DEF Risky, u
  <2>3. CASE fails
    BY <2>1, <2>2, <2>3
  <2>4. CASE ~ fails
    <3>1. CASE op = "each"
      <4>1. \A i \in DOMAIN s : i \in reached
        BY <3>1
      <4>2. \A i \in DOMAIN s : made[i] \in Of(inner)
        BY <1>4, <2>4, <4>1
      <4>3. made \in Seq(Of(inner))
        BY <4>2
      <4>4. ArrayT(inner) \in Type
        BY <1>2, <3>1, TypeForTyped
      <4>5. Arr(made) \in Of(ArrayT(inner))
        BY <4>3, <4>4, ArraysAre
      <4>6. OnElements(op, s, made) = Arr(made)
        BY <2>1, <2>4, <3>1
      <4> QED
        BY <1>2, <3>1, <4>5, <4>6
    <3>2. CASE op = "any"
      <4>1. OnElements(op, s, made) = Bool(chosen # {}) /\ (chosen # {}) \in BOOLEAN
        BY <2>1, <2>4, <3>2
      <4> HIDE DEF chosen
      <4> QED
        BY <1>2, <3>2, <4>1, TruthsAre
    <3>3. CASE op = "all"
      <4>1. OnElements(op, s, made) = Bool(chosen = DOMAIN s) /\ (chosen = DOMAIN s) \in BOOLEAN
        BY <2>1, <2>4, <3>3
      <4> HIDE DEF chosen
      <4> QED
        BY <1>2, <3>3, <4>1, TruthsAre
    <3>4. CASE op = "filter"
      <4>1. OnElements(op, s, made) = Arr(Chosen(s, chosen))
        BY <2>1, <2>4, <3>4
      <4> HIDE DEF chosen
      <4>2. Chosen(s, chosen) \in Seq(Of(u))
        BY ChosenTyped DEF u
      <4> QED
        BY <1>2, <1>5, <3>4, <4>1, <4>2
    <3> QED
      BY <1>2, <1>7, <3>1, <3>2, <3>3, <3>4
  <2> HIDE DEF fails
  <2> QED
    BY <2>3, <2>4
<1> QED
  BY <1>6, <1>7

-----------------------------------------------------------------------------
(* Of an array.                                                            *)
LEMMA EvalArray ==
    ASSUME NEW E, NEW typeOf, NEW eval, NEW sorts, Sound(E, typeOf, eval, sorts),
           NEW tr \in Transformer(E),
           NEW t \in Type, Kind(t) = "array", TypeFor(typeOf, tr, t) # TypeError,
           NEW v \in Of(t), v # Null
    PROVE  \/ EvalOne(eval, tr, v) \in Of(TypeFor(typeOf, tr, t))
           \/ EvalOne(eval, tr, v) = Panic /\ Risky(typeOf, sorts, tr, t)
<1> DEFINE s == v[2]
           op == tr[1]
           w == EvalOne(eval, tr, v)
           u == t[2]
<1>1. s \in Seq(Of(u)) /\ Kind(v) = "array" /\ v = Arr(s)
  <2>1. v \in {"array"} \X Seq(Of(u))
    BY OfIs
  <2> QED
    BY <2>1 DEF Kind, Arr
<1>2. u \in Type /\ Null \in Of(u)
  BY TypeIs, OfAreValues
<1>3. \A i \in DOMAIN s : s[i] \in Of(u)
  BY <1>1
<1>4. op \notin {"is-null", "is-not-null"} \cup {"not", "as-string"} \cup OfNumber => w = OnSequence(eval, op, s, tr)
  BY <1>1 DEF EvalOne
<1>5. {"length", "is-empty", "get-idx", "flatten", "sort", "each", "filter", "any", "all", "sort-by"}
            \cap ({"is-null", "is-not-null"} \cup {"not", "as-string"} \cup OfNumber) = {}
  BY DEF OfNumber, Bounded
<1> HIDE DEF w, s, u
<1>6. CASE op \in {"is-null", "is-not-null"}
  BY <1>6, ArrayTyping, EvalNullTest
<1>7. CASE op = "is-empty"
  <2>1. w = Bool(s = << >>) /\ (s = << >>) \in BOOLEAN
    BY <1>4, <1>5, <1>7 DEF OnSequence, Nested
  <2>2. TypeFor(typeOf, tr, t) = BoolT
    BY <1>7, ArrayTyping
  <2> QED
    BY <2>1, <2>2, TruthsAre DEF w
<1>8. CASE op = "length"
  <2>1. w = Num(Len(s)) /\ Len(s) \in Int
    BY <1>1, <1>4, <1>5, <1>8 DEF OnSequence, Nested
  <2>2. TypeFor(typeOf, tr, t) = NumberT
    BY <1>8, ArrayTyping
  <2> QED
    BY <2>1, <2>2, NumbersAre DEF w
<1>9. CASE op = "get-idx"
  <2>1. w = IF tr[2] + 1 \in DOMAIN s THEN s[tr[2] + 1] ELSE Null
    BY <1>4, <1>5, <1>9 DEF OnSequence, Nested
  <2>2. w \in Of(u)
    BY <1>2, <1>3, <2>1
  <2>3. TypeFor(typeOf, tr, t) = u
    BY <1>9, ArrayTyping DEF u
  <2> QED
    BY <2>2, <2>3 DEF w
<1>10. CASE op = "flatten"
  <2>1. TypeFor(typeOf, tr, t) = u /\ Kind(u) = "array"
    BY <1>10, ArrayTyping DEF u
  <2>2. Of(u) = {Null} \cup ({"array"} \X Seq(Of(u[2])))
    BY <1>2, <2>1, OfIs
  <2>3. \A i \in DOMAIN s : Kind(s[i]) \in {"array", "null"}
    BY <1>3, <2>2 DEF Kind, Null
  <2> DEFINE ss == [i \in DOMAIN s |-> IF s[i] = Null THEN << >> ELSE s[i][2]]
  <2>4. w = Arr(FlattenSeq(ss))
    <3>1. w = IF \E i \in DOMAIN s : Kind(s[i]) \notin {"array", "null"} THEN Panic ELSE Arr(FlattenSeq(ss))
      BY <1>4, <1>5, <1>10 DEF OnSequence, Nested
    <3> QED
      BY <3>1, <2>3
  <2>5. ss \in [DOMAIN s -> Seq(Of(u[2]))]
    <3>1. << >> \in Seq(Of(u[2]))
      BY EmptySeq
    <3>2. \A i \in DOMAIN s : s[i] # Null => s[i][2] \in Seq(Of(u[2]))
      BY <1>3, <2>2
    <3> QED
      BY <3>1, <3>2
  <2> HIDE DEF ss
  <2>6. ss \in Seq(Seq(Of(u[2])))
    BY <1>1, <2>5, MadeIsSeq
  <2>7. FlattenSeq(ss) \in Seq(Of(u[2]))
    BY <2>6, FlattenTyped
  <2>8. w \in Of(u)
    BY <2>2, <2>4, <2>7 DEF Arr
  <2> QED
    BY <2>1, <2>8 DEF w
<1>11. CASE op = "sort"
  <2>1. TypeFor(typeOf, tr, t) = t /\ Sortable(u)
    BY <1>11, ArrayTyping DEF u
  <2>2. w = Sorted(s, s)
    BY <1>4, <1>5, <1>11 DEF OnSequence, Nested
  <2>3. CASE Comparable(s, s)
    <3>1. PICK q \in Bijection(DOMAIN s, DOMAIN s) : Sorted(s, s) = Rearranged(s, q)
      BY <1>1, <2>3, SortedIs
    <3>2. PICK x \in Seq(Of(u)) : Rearranged(s, q) = Arr(x)
      BY <1>1, RearrangedTyped
    <3>3. Of(t) = {Null} \cup ({"array"} \X Seq(Of(u)))
      BY OfIs DEF u
    <3>4. w \in Of(t)
      BY <2>2, <3>1, <3>2, <3>3 DEF Arr
    <3> QED
      BY <2>1, <3>4 DEF w
  <2>4. CASE ~ Comparable(s, s)
    <3>1. w = Panic
      BY <1>1, <2>2, <2>4, SortedIs
    <3>2. PICK i, j \in DOMAIN s : Panic \in {s[i], s[j]} \/ Compare(s[i], s[j]) = "panic"
      BY <2>4 DEF Comparable
    <3>3. Panic \notin Of(u)
      BY <1>2, OfAreValues, ValueIs
    <3>4. Compare(s[i], s[j]) \notin Orders
      BY <1>3, <3>2, <3>3 DEF Orders
    <3>5. MapsWithin(u)
      BY <1>2, <1>3, <2>1, <3>4, SortableCompare
    <3> QED
      BY <1>11, <3>1, <3>5 DEF Risky, w, u
  <2> QED
    BY <2>3, <2>4
<1>12. CASE op \in {"each", "filter", "any", "all", "sort-by"}
  <2> DEFINE made == [i \in DOMAIN s |-> eval[tr[2]][s[i]]]
  <2>1. w = OnElements(op, s, made)
    BY <1>4, <1>5, <1>12 DEF OnSequence, Nested
  <2>2. op \in Nested
    BY <1>12 DEF Nested
  <2>3. s \in Seq(Of(t[2]))
    BY <1>1 DEF u
  <2>4. \/ OnElements(op, s, made) \in Of(TypeFor(typeOf, tr, t))
        \/ OnElements(op, s, made) = Panic /\ Risky(typeOf, sorts, tr, t)
    BY <2>2, <2>3, EvalElements
  <2> QED
    BY <2>1, <2>4 DEF w
<1> QED
  BY <1>6, <1>7, <1>8, <1>9, <1>10, <1>11, <1>12, ArrayTyping

(* The entries of a map.                                                   *)
LEMMA EntriesAre ==
    ASSUME NEW S, NEW f \in Maps(S)
    PROVE  /\ \A k \in Text : f[k] # Absent => f[k] \in S
           /\ Cardinality(Entries(f)) \in Int
<1>1. Entries(f) \subseteq Text
  BY DEF Entries
<1>2. Cardinality(Entries(f)) \in Int
  BY <1>1, TextsAre, FS_Subset, FS_CardinalityType
<1> QED
  BY <1>2 DEF Maps

(* Of a map.                                                               *)
LEMMA EvalMap ==
    ASSUME NEW E, NEW typeOf, NEW eval, NEW sorts, Sound(E, typeOf, eval, sorts),
           NEW tr \in Transformer(E),
           NEW t \in Type, Kind(t) = "map", TypeFor(typeOf, tr, t) # TypeError,
           NEW v \in Of(t), v # Null
    PROVE  \/ EvalOne(eval, tr, v) \in Of(TypeFor(typeOf, tr, t))
           \/ EvalOne(eval, tr, v) = Panic /\ Risky(typeOf, sorts, tr, t)
<1> DEFINE f == v[2]
           op == tr[1]
           w == EvalOne(eval, tr, v)
           u == t[2]
           inner == typeOf[tr[2]][u]
           made == [k \in Text |-> IF f[k] = Absent THEN Absent ELSE eval[tr[2]][f[k]]]
<1>1. Of(t) = {Null} \cup ({"map"} \X Maps(Of(u))) /\ t = MapT(u)
  BY OfIs, TypeIs DEF MapT
<1>2. f \in Maps(Of(u)) /\ Kind(v) = "map"
  BY <1>1 DEF Kind
<1>3. u \in Type /\ Null \in Of(u) /\ Panic \notin Of(u) /\ Absent \notin Of(u)
  BY TypeIs, OfAreValues, ValueIs
<1>4. /\ \A k \in Text : f[k] # Absent => f[k] \in Of(u)
      /\ Cardinality(Entries(f)) \in Int
  BY <1>2, EntriesAre
<1>5. op \notin {"is-null", "is-not-null"} \cup {"not", "as-string"} \cup OfNumber => w = OnMap(eval, op, f, tr)
  BY <1>2 DEF EvalOne
<1>6. {"length", "is-empty", "get", "each", "filter"}
            \cap ({"is-null", "is-not-null"} \cup {"not", "as-string"} \cup OfNumber) = {}
  BY DEF OfNumber, Bounded
<1> HIDE DEF w, f, u, inner
<1>7. OnMap(eval, op, f, tr) =
        CASE op = "length" -> Num(Cardinality(Entries(f)))
          [] op = "is-empty" -> Bool(Entries(f) = {})
          [] op = "get" -> IF f[tr[2]] = Absent THEN Null ELSE f[tr[2]]
          [] op = "each" -> IF \E k \in Text : made[k] = Panic THEN Panic ELSE Obj(made)
          [] op = "filter" ->
                IF \E k \in Entries(f) : ~ IsTruth(made[k]) THEN Panic
                ELSE Obj([k \in Text |-> IF Holds(made[k]) THEN f[k] ELSE Absent])
          [] OTHER -> Panic
  BY Zenon DEF OnMap
<1> HIDE DEF made
<1>8. ASSUME op \in {"each", "filter"}, inner # TypeError
      PROVE  /\ inner \in Type /\ Panic \notin Of(inner)
             /\ \A k \in Text : f[k] = Absent => made[k] = Absent
             /\ \A k \in Text : f[k] # Absent => \/ made[k] \in Of(inner)
                                                 \/ made[k] = Panic /\ Risky(typeOf, sorts, tr, t)
  <2>1. tr[2] \in E /\ op \in Nested
    BY <1>8, ArgumentIs DEF Nested
  <2>2. inner \in Type /\ \A x \in Of(u) : eval[tr[2]][x] \in Of(inner) \/ (eval[tr[2]][x] = Panic /\ u \in sorts[tr[2]])
    BY <1>3, <1>8, <2>1 DEF Sound, inner
  <2>3. u \in sorts[tr[2]] => Risky(typeOf, sorts, tr, t)
    BY <2>1 DEF Risky, u
  <2>4. Panic \notin Of(inner)
    BY <2>2, OfAreValues, ValueIs
  <2> QED
    BY <1>4, <2>2, <2>3, <2>4 DEF made
<1>9. CASE op \in {"is-null", "is-not-null"}
  BY <1>9, MapTyping, EvalNullTest
<1>10. CASE op = "is-empty"
  <2>1. w = Bool(Entries(f) = {}) /\ (Entries(f) = {}) \in BOOLEAN
    BY <1>5, <1>6, <1>7, <1>10
  <2>2. TypeFor(typeOf, tr, t) = BoolT
    BY <1>10, MapTyping
  <2> QED
    BY <2>1, <2>2, TruthsAre DEF w
<1>11. CASE op = "length"
  <2>1. w = Num(Cardinality(Entries(f)))
    BY <1>5, <1>6, <1>7, <1>11
  <2>2. TypeFor(typeOf, tr, t) = NumberT
    BY <1>11, MapTyping
  <2> QED
    BY <1>4, <2>1, <2>2, NumbersAre DEF w
<1>12. CASE op = "get"
  <2>1. w = IF f[tr[2]] = Absent THEN Null ELSE f[tr[2]]
    BY <1>5, <1>6, <1>7, <1>12
  <2>2. tr[2] \in Text
    BY <1>12, ArgumentIs
  <2>3. w \in Of(u)
    BY <1>3, <1>4, <2>1, <2>2
  <2>4. TypeFor(typeOf, tr, t) = u
    BY <1>12, MapTyping DEF u
  <2> QED
    BY <2>3, <2>4 DEF w
<1>13. CASE op = "each"
  <2>1. TypeFor(typeOf, tr, t) = MapT(inner) /\ MapT(inner) \in Type
    BY <1>13, MapTyping, TypeForTyped DEF inner, u
  <2>2. inner \in Type /\ inner # TypeError
    BY <2>1, ObjectsAre, TypeIs
  <2>3. w = IF \E k \in Text : made[k] = Panic THEN Panic ELSE Obj(made)
    BY <1>5, <1>6, <1>7, <1>13
  <2>4. CASE \E k \in Text : made[k] = Panic
    <3>1. PICK k \in Text : made[k] = Panic
      BY <2>4
    <3>2. f[k] # Absent
      BY <1>8, <1>13, <2>2, <3>1 DEF Panic, Absent
    <3>3. Risky(typeOf, sorts, tr, t)
      BY <1>8, <1>13, <2>2, <3>1, <3>2
    <3> QED
      BY <2>3, <2>4, <3>3 DEF w
  <2>5. CASE ~ \E k \in Text : made[k] = Panic
    <3>1. made \in Maps(Of(inner))
      <4>1. \A k \in Text : made[k] \in Of(inner) \cup {Absent}
        BY <1>8, <1>13, <2>2, <2>5
      <4> QED
        BY <4>1 DEF made, Maps
    <3>2. Obj(made) \in Of(MapT(inner))
      BY <2>1, <3>1, ObjectsAre
    <3> QED
      BY <2>1, <2>3, <2>5, <3>2 DEF w
  <2> QED
    BY <2>4, <2>5
<1>14. CASE op = "filter"
  <2>1. TypeFor(typeOf, tr, t) = t /\ inner = BoolT
    BY <1>14, MapTyping DEF inner, u
  <2>2. inner # TypeError
    BY <2>1, TypeIs
  <2> DEFINE kept == [k \in Text |-> IF Holds(made[k]) THEN f[k] ELSE Absent]
  <2>3. w = IF \E k \in Entries(f) : ~ IsTruth(made[k]) THEN Panic ELSE Obj(kept)
    BY <1>5, <1>6, <1>7, <1>14
  <2>4. CASE \E k \in Entries(f) : ~ IsTruth(made[k])
    <3>1. PICK k \in Text : f[k] # Absent /\ ~ IsTruth(made[k])
      BY <2>4 DEF Entries
    <3>2. made[k] \notin Of(inner)
      BY <2>1, <3>1, TruthsAre DEF IsTruth, Truths
    <3>3. Risky(typeOf, sorts, tr, t)
      BY <1>8, <1>14, <2>2, <3>1, <3>2
    <3> QED
      BY <2>3, <2>4, <3>3 DEF w
  <2>5. CASE ~ \E k \in Entries(f) : ~ IsTruth(made[k])
    <3>1. kept \in Maps(Of(u))
      BY <1>4 DEF Maps
    <3>2. Obj(kept) \in Of(t)
      BY <1>1, <3>1 DEF Obj
    <3> QED
      BY <2>1, <2>3, <2>5, <3>2 DEF w
  <2> QED
    BY <2>4, <2>5
<1> QED
  BY <1>9, <1>10, <1>11, <1>12, <1>13, <1>14, MapTyping

(* Of any value: it is of the type that was accepted, or maps were sorted. *)
LEMMA EvalFits ==
    ASSUME NEW E, NEW typeOf, NEW eval, NEW sorts, Sound(E, typeOf, eval, sorts),
           NEW tr \in Transformer(E), NEW t \in Type, TypeFor(typeOf, tr, t) # TypeError, NEW v \in Of(t)
    PROVE  \/ EvalOne(eval, tr, v) \in Of(TypeFor(typeOf, tr, t))
           \/ EvalOne(eval, tr, v) = Panic /\ Risky(typeOf, sorts, tr, t)
<1>1. CASE v = Null
  BY <1>1, EvalNull
<1>2. CASE v # Null
  <2>1. CASE t = BoolT
    BY <1>2, <2>1, EvalBool
  <2>2. CASE t = NumberT
    BY <1>2, <2>2, EvalNumber
  <2>3. CASE t = StringT
    BY <1>2, <2>3, EvalString
  <2>4. CASE Kind(t) = "array"
    BY <1>2, <2>4, EvalArray
  <2>5. CASE Kind(t) = "map"
    BY <1>2, <2>5, EvalMap
  <2> QED
    BY <2>1, <2>2, <2>3, <2>4, <2>5, TypeIs
<1> QED
  BY <1>1, <1>2

(* Expressions are sound at each level.                                    *)
LEMMA Soundness ==
    \A n \in 0 .. Nesting : Sound(Expressions[n], Typing[n], Evaluation[n], MapSorts[n])
<1> DEFINE T == {n \in 0 .. Nesting : Sound(Expressions[n], Typing[n], Evaluation[n], MapSorts[n])}
<1>1. 0 \in T
  BY Levels, ExpressionsAre DEF Sound
<1>2. ASSUME NEW n \in 1 .. Nesting, n - 1 \in T PROVE n \in T
  <2>1. ASSUME NEW ts \in Expressions[n], NEW t \in Type
        PROVE  /\ Typing[n][ts][t] \in Type \cup {TypeError}
               /\ Typing[n][ts][t] # TypeError =>
                    \A v \in Of(t) : \/ Evaluation[n][ts][v] \in Of(Typing[n][ts][t])
                                     \/ Evaluation[n][ts][v] = Panic /\ t \in MapSorts[n][ts]
    <3>1. Typing[n][ts][t] \in Type \cup {TypeError}
      BY TypingTyped, Levels
    <3>2. ASSUME Typing[n][ts][t] # TypeError, NEW v \in Of(t)
          PROVE  \/ Evaluation[n][ts][v] \in Of(Typing[n][ts][t])
                 \/ Evaluation[n][ts][v] = Panic /\ t \in MapSorts[n][ts]
      <4>1. v \in Value
        BY OfAreValues
      <4>2. CASE ts = << >>
        BY <4>1, <4>2, TypingIs, EvaluationIs
      <4>3. CASE ts # << >>
        <5> DEFINE b == Typing[n - 1][Front(ts)][t]
                   x == Evaluation[n - 1][Front(ts)][v]
        <5>1. Front(ts) \in Expressions[n - 1] /\ Last(ts) \in Transformer(Expressions[n - 1])
          BY <4>3, ExpressionsIn
        <5>2. b # TypeError /\ Typing[n][ts][t] = TypeFor(Typing[n - 1], Last(ts), b)
          BY <3>2, <4>3, TypingIs
        <5>3. Sound(Expressions[n - 1], Typing[n - 1], Evaluation[n - 1], MapSorts[n - 1])
          BY <1>2
        <5>4. b \in Type /\ (x \in Of(b) \/ (x = Panic /\ t \in MapSorts[n - 1][Front(ts)]))
          BY <5>1, <5>2, <5>3 DEF Sound
        <5>5. Evaluation[n][ts][v] = IF x = Panic THEN Panic ELSE EvalOne(Evaluation[n - 1], Last(ts), x)
          BY <4>1, <4>3, EvaluationIs
        <5>6. t \in MapSorts[n][ts] <=> \/ t \in MapSorts[n - 1][Front(ts)]
                                        \/ Risky(Typing[n - 1], MapSorts[n - 1], Last(ts), b)
          BY <4>3, MapSortsIn
        <5> HIDE DEF b, x
        <5>7. CASE x = Panic
          <6>1. Panic \notin Of(b)
            BY <5>4, OfAreValues, ValueIs
          <6> QED
            BY <5>4, <5>5, <5>6, <5>7, <6>1
        <5>8. CASE x # Panic
          <6>1. x \in Of(b)
            BY <5>4, <5>8
          <6>2. \/ EvalOne(Evaluation[n - 1], Last(ts), x) \in Of(TypeFor(Typing[n - 1], Last(ts), b))
                \/ /\ EvalOne(Evaluation[n - 1], Last(ts), x) = Panic
                   /\ Risky(Typing[n - 1], MapSorts[n - 1], Last(ts), b)
            BY <3>2, <5>1, <5>2, <5>3, <5>4, <6>1, EvalFits
          <6> QED
            BY <5>2, <5>5, <5>6, <5>8, <6>2
        <5> QED
          BY <5>7, <5>8
      <4> QED
        BY <4>2, <4>3
    <3> QED
      BY <3>1, <3>2
  <2>2. n \in 0 .. Nesting
    BY Levels
  <2>3. Sound(Expressions[n], Typing[n], Evaluation[n], MapSorts[n])
    BY <2>1 DEF Sound
  <2> QED
    BY <2>2, <2>3
<1>3. 0 .. Nesting \subseteq T
  <2> HIDE DEF T
  <2> QED
    BY <1>1, <1>2, ByLevel
<1> QED
  BY <1>3

(* Transformers on values of a type that they accept.                      *)
LEMMA ExpressionsSound ==
    ASSUME NEW ts \in Expression
    PROVE  /\ TypeOfAll(ts, TypeError) = TypeError
           /\ Eval(ts, Panic) = Panic
           /\ \A t \in Type :
                /\ TypeOfAll(ts, t) \in Type \cup {TypeError}
                /\ TypeOfAll(ts, t) # TypeError =>
                    \A v \in Of(t) : \/ Eval(ts, v) \in Of(TypeOfAll(ts, t))
                                     \/ Eval(ts, v) = Panic /\ SortsMaps(ts, t)
<1>1. Nesting \in 0 .. Nesting
  BY Deep
<1> QED
  BY <1>1, Soundness, TypingTyped, PanicStays DEF Sound, Expression, TypeOfAll, Eval, SortsMaps

-----------------------------------------------------------------------------
(* What the three sorts of extractors are.                                 *)
LEMMA PlainIs == /\ DOMAIN Plain = {"name", "text", "html", "attr", "id", "attrs", "classes"}
                 /\ \A name \in DOMAIN Plain : Plain[name] \in Type
                 /\ DOMAIN Plain \cap (One \cup Many) = {} /\ One \cap Many = {}
<1>1. MapT(StringT) \in Type /\ ArrayT(StringT) \in Type
  <2>1. Nesting - 1 \in 1 .. Nesting
    BY Deep
  <2>2. StringT \in Types[Nesting - 1]
    BY <2>1, TypesIn
  <2> QED
    BY <2>2, TypeIs DEF MapT, ArrayT
<1> QED
  BY <1>1, TypeIs DEF Plain, One, Many

(* What an element is made of.                                             *)
LEMMA PageIs ==
    ASSUME NEW node \in Nodes
    PROVE  /\ \A name \in DOMAIN Plain : Owns[node][name] \in Of(Plain[name])
           /\ \A x \in One \cup Many : Near[node][x] \in Seq(Nodes)
<1>1. \A name \in DOMAIN Plain : Owns[node][name] \in Of(Plain[name])
  BY RulesAssumption
<1>2. Near \in [Nodes -> [One \cup Many -> Seq(Nodes)]]
  BY RulesAssumption
<1> QED
  BY <1>1, <1>2

(* An extractor of a level.                                                *)
LEMMA ExtractorsIn ==
    ASSUME NEW n \in 1 .. Nesting, NEW e \in Extractors[n]
    PROVE  /\ e.ts \in Expression
           /\ e.explodes \in BOOLEAN
           /\ \/ e.ext[1] \in DOMAIN Plain
              \/ e.ext[1] \in One \cup Many /\ e.ext[2] \in Extractors[n - 1]
<1>1. Extractors[n] = ExtractorsOver(Extractors[n - 1])
  BY ExtractorsAre
<1>2. e.ext \in {<<name>> : name \in DOMAIN Plain} \cup ((One \cup Many) \X Extractors[n - 1])
  BY <1>1 DEF ExtractorsOver
<1>3. e.ts \in Expression /\ e.explodes \in BOOLEAN
  BY <1>1 DEF ExtractorsOver
<1>4. CASE e.ext \in {<<name>> : name \in DOMAIN Plain}
  BY <1>3, <1>4
<1>5. CASE e.ext \in (One \cup Many) \X Extractors[n - 1]
  BY <1>3, <1>5
<1> QED
  BY <1>2, <1>4, <1>5

(* Its type, and what it finds.                                            *)
LEMMA ExtractorTypeIs ==
    ASSUME NEW n \in 1 .. Nesting, NEW e \in Extractors[n]
    PROVE  ExtractorType[n][e] = TypeOfAll(e.ts, BaseType(ExtractorType[n - 1], e))
<1>1. ExtractorType[n] = ExtractorTypeOver(n, ExtractorType[n - 1])
  BY ExtractorTypeAre
<1> QED
  BY <1>1, Zenon DEF ExtractorTypeOver

LEMMA ExtractionIs ==
    ASSUME NEW n \in 1 .. Nesting, NEW e \in Extractors[n], NEW node \in Nodes
    PROVE  Extraction[n][e][node] = Eval(e.ts, Base(Extraction[n - 1], e, node))
<1>1. Extraction[n] = ExtractionOver(n, Extraction[n - 1])
  BY ExtractionAre
<1>2. Extraction[n][e] = [x \in Nodes |-> Eval(e.ts, Base(Extraction[n - 1], e, x))]
  BY <1>1, Zenon DEF ExtractionOver
<1> QED
  BY <1>2, Zenon

(* Where it sorts maps.                                                    *)
LEMMA SortsMapsInIs ==
    ASSUME NEW n \in 1 .. Nesting, NEW e \in Extractors[n]
    PROVE  e \in SortsMapsIn[n] <=>
                \/ SortsMaps(e.ts, BaseType(ExtractorType[n - 1], e))
                \/ e.ext[1] \notin DOMAIN Plain /\ e.ext[2] \in SortsMapsIn[n - 1]
<1>1. SortsMapsIn[n] = SortsMapsInOver(n, SortsMapsIn[n - 1])
  BY SortsMapsInAre
<1> QED
  BY <1>1, Zenon DEF SortsMapsInOver

(* Extractors that were accepted find values of their types, or sort maps. *)
Extracts(E, typeOf, extract, sorts) ==
    \A e \in E :
        /\ typeOf[e] \in Type \cup {TypeError}
        /\ typeOf[e] # TypeError =>
                \A node \in Nodes : \/ extract[e][node] \in Of(typeOf[e])
                                    \/ extract[e][node] = Panic /\ e \in sorts

(* What an expression finds in each of the elements that it looks at.      *)
There(extract, e, node) ==
    [i \in DOMAIN Near[node][e.ext[1]] |-> extract[e.ext[2]][Near[node][e.ext[1]][i]]]

(* What there is before the transformers, case by case.                    *)
LEMMA BaseIs ==
    ASSUME NEW extract, NEW e, NEW node
    PROVE  /\ e.ext[1] \in DOMAIN Plain => Base(extract, e, node) = Owns[node][e.ext[1]]
           /\ e.ext[1] \in One =>
                Base(extract, e, node) = IF Near[node][e.ext[1]] = << >> THEN Null
                                         ELSE There(extract, e, node)[1]
           /\ e.ext[1] \in Many =>
                Base(extract, e, node) = IF Panic \in Range(There(extract, e, node)) THEN Panic
                                         ELSE Arr(There(extract, e, node))
<1> DEFINE near == Near[node][e.ext[1]]
           there == There(extract, e, node)
           own == Owns[node][e.ext[1]]
           one == IF near = << >> THEN Null ELSE there[1]
           many == IF Panic \in Range(there) THEN Panic ELSE Arr(there)
<1>1. there = [i \in DOMAIN near |-> extract[e.ext[2]][near[i]]]
  BY Zenon DEF There
<1>2. Base(extract, e, node) = CASE e.ext[1] \in DOMAIN Plain -> own
                                 [] e.ext[1] \in One -> one
                                 [] e.ext[1] \in Many -> many
  BY <1>1, Zenon DEF Base
<1>3. DOMAIN Plain \cap (One \cup Many) = {} /\ One \cap Many = {}
  BY PlainIs
<1> HIDE DEF near, there, own, one, many
<1>4. /\ e.ext[1] \in DOMAIN Plain => Base(extract, e, node) = own
      /\ e.ext[1] \in One => Base(extract, e, node) = one
      /\ e.ext[1] \in Many => Base(extract, e, node) = many
  BY <1>2, <1>3
<1> QED
  BY <1>4, Zenon DEF near, there, own, one, many

(* It is of the type of the extractor, if the extractors within are sound. *)
LEMMA BaseFits ==
    ASSUME NEW E, NEW typeOf, NEW extract, NEW sorts, Extracts(E, typeOf, extract, sorts),
           NEW e, \/ e.ext[1] \in DOMAIN Plain
                  \/ e.ext[1] \in One \cup Many /\ e.ext[2] \in E
    PROVE  /\ BaseType(typeOf, e) \in Type \cup {TypeError}
           /\ BaseType(typeOf, e) # TypeError =>
                \A node \in Nodes : \/ Base(extract, e, node) \in Of(BaseType(typeOf, e))
                                    \/ /\ Base(extract, e, node) = Panic
                                       /\ e.ext[1] \notin DOMAIN Plain /\ e.ext[2] \in sorts
<1> DEFINE t == BaseType(typeOf, e)
           u == typeOf[e.ext[2]]
<1>1. CASE e.ext[1] \in DOMAIN Plain
  <2>1. t = Plain[e.ext[1]]
    BY <1>1, PlainIs DEF BaseType
  <2>2. \A node \in Nodes : Base(extract, e, node) = Owns[node][e.ext[1]]
    BY <1>1, BaseIs
  <2> QED
    BY <1>1, <2>1, <2>2, PlainIs, PageIs
<1>2. CASE e.ext[1] \in One
  <2>1. t = u /\ e.ext[1] \notin DOMAIN Plain /\ e.ext[2] \in E
    BY <1>2, PlainIs DEF BaseType
  <2>2. u \in Type \cup {TypeError}
    BY <2>1 DEF Extracts
  <2>3. ASSUME u # TypeError, NEW node \in Nodes
        PROVE  \/ Base(extract, e, node) \in Of(u)
               \/ Base(extract, e, node) = Panic /\ e.ext[2] \in sorts
    <3> DEFINE near == Near[node][e.ext[1]]
               there == There(extract, e, node)
    <3>1. Base(extract, e, node) = IF near = << >> THEN Null ELSE there[1]
      BY <1>2, BaseIs
    <3>2. near \in Seq(Nodes)
      BY <1>2, PageIs
    <3>9. there = [i \in DOMAIN near |-> extract[e.ext[2]][near[i]]]
      BY Zenon DEF There
    <3> HIDE DEF near, there
    <3>3. Null \in Of(u)
      BY <2>2, <2>3, OfAreValues
    <3>4. near # << >> => 1 \in DOMAIN near /\ near[1] \in Nodes
      BY <3>2, EmptySeq
    <3>5. \A x \in Nodes : extract[e.ext[2]][x] \in Of(u) \/ (extract[e.ext[2]][x] = Panic /\ e.ext[2] \in sorts)
      BY <2>1, <2>3 DEF Extracts
    <3> QED
      BY <3>1, <3>3, <3>4, <3>5, <3>9
  <2> QED
    BY <2>1, <2>2, <2>3
<1>3. CASE e.ext[1] \in Many
  <2>1. t = Shallow(ArrayT(u)) /\ e.ext[1] \notin DOMAIN Plain /\ e.ext[2] \in E
    BY <1>3, PlainIs DEF BaseType
  <2>2. ASSUME t # TypeError, NEW node \in Nodes
        PROVE  \/ Base(extract, e, node) \in Of(t)
               \/ Base(extract, e, node) = Panic /\ e.ext[2] \in sorts
    <3> DEFINE near == Near[node][e.ext[1]]
               there == There(extract, e, node)
    <3>1. Base(extract, e, node) = IF Panic \in Range(there) THEN Panic ELSE Arr(there)
      BY <1>3, BaseIs
    <3>2. near \in Seq(Nodes)
      BY <1>3, PageIs
    <3>9. there = [i \in DOMAIN near |-> extract[e.ext[2]][near[i]]]
      BY Zenon DEF There
    <3> HIDE DEF near, there, t, u
    <3>3. t = ArrayT(u) /\ ArrayT(u) \in Type
      BY <2>1, <2>2, ShallowIs
    <3>4. u \in Type /\ u # TypeError /\ \A s \in Seq(Of(u)) : Arr(s) \in Of(t)
      BY <3>3, ArraysAre, TypeIs
    <3>5. \A x \in Nodes : extract[e.ext[2]][x] \in Of(u) \/ (extract[e.ext[2]][x] = Panic /\ e.ext[2] \in sorts)
      BY <2>1, <3>4 DEF Extracts, u
    <3>6. \A i \in DOMAIN near : there[i] \in Of(u) \/ (there[i] = Panic /\ e.ext[2] \in sorts)
      BY <3>2, <3>5, <3>9
    <3>7. CASE Panic \in Range(there)
      <4>1. PICK i \in DOMAIN near : there[i] = Panic
        BY <3>7, <3>9 DEF Range
      <4>2. Panic \notin Of(u)
        BY <3>4, OfAreValues, ValueIs
      <4> QED
        BY <3>1, <3>6, <3>7, <4>1, <4>2
    <3>8. CASE Panic \notin Range(there)
      <4>1. \A i \in DOMAIN near : there[i] # Panic
        BY <3>8, <3>9 DEF Range
      <4>2. there \in [DOMAIN near -> Of(u)]
        BY <3>6, <3>9, <4>1
      <4>3. there \in Seq(Of(u))
        BY <3>2, <4>2, MadeIsSeq
      <4> QED
        BY <3>1, <3>4, <3>8, <4>3
    <3> QED
      BY <3>7, <3>8
  <2> QED
    BY <2>1, <2>2, ShallowIs
<1> QED
  BY <1>1, <1>2, <1>3

(* Extractors are sound at each level.                                     *)
LEMMA ExtractionSound ==
    \A n \in 0 .. Nesting : Extracts(Extractors[n], ExtractorType[n], Extraction[n], SortsMapsIn[n])
<1> DEFINE T == {n \in 0 .. Nesting : Extracts(Extractors[n], ExtractorType[n], Extraction[n], SortsMapsIn[n])}
<1>1. 0 \in T
  BY Levels, ExtractorsAre DEF Extracts
<1>2. ASSUME NEW n \in 1 .. Nesting, n - 1 \in T PROVE n \in T
  <2>1. ASSUME NEW e \in Extractors[n]
        PROVE  /\ ExtractorType[n][e] \in Type \cup {TypeError}
               /\ ExtractorType[n][e] # TypeError =>
                    \A node \in Nodes : \/ Extraction[n][e][node] \in Of(ExtractorType[n][e])
                                        \/ Extraction[n][e][node] = Panic /\ e \in SortsMapsIn[n]
    <3> DEFINE b == BaseType(ExtractorType[n - 1], e)
    <3>1. /\ e.ts \in Expression
          /\ \/ e.ext[1] \in DOMAIN Plain
             \/ e.ext[1] \in One \cup Many /\ e.ext[2] \in Extractors[n - 1]
      BY ExtractorsIn
    <3>2. Extracts(Extractors[n - 1], ExtractorType[n - 1], Extraction[n - 1], SortsMapsIn[n - 1])
      BY <1>2
    <3>3. /\ b \in Type \cup {TypeError}
          /\ b # TypeError =>
                \A node \in Nodes : \/ Base(Extraction[n - 1], e, node) \in Of(b)
                                    \/ /\ Base(Extraction[n - 1], e, node) = Panic
                                       /\ e.ext[1] \notin DOMAIN Plain /\ e.ext[2] \in SortsMapsIn[n - 1]
      BY <3>1, <3>2, BaseFits
    <3>4. ExtractorType[n][e] = TypeOfAll(e.ts, b)
      BY ExtractorTypeIs
    <3>5. e \in SortsMapsIn[n] <=> \/ SortsMaps(e.ts, b)
                                   \/ e.ext[1] \notin DOMAIN Plain /\ e.ext[2] \in SortsMapsIn[n - 1]
      BY SortsMapsInIs
    <3>6. \A node \in Nodes : Extraction[n][e][node] = Eval(e.ts, Base(Extraction[n - 1], e, node))
      BY ExtractionIs
    <3> HIDE DEF b
    <3>7. ExtractorType[n][e] \in Type \cup {TypeError}
      BY <3>1, <3>3, <3>4, ExpressionsSound
    <3>8. ASSUME ExtractorType[n][e] # TypeError, NEW node \in Nodes
          PROVE  \/ Extraction[n][e][node] \in Of(ExtractorType[n][e])
                 \/ Extraction[n][e][node] = Panic /\ e \in SortsMapsIn[n]
      <4>1. b \in Type /\ b # TypeError
        BY <3>1, <3>3, <3>4, <3>8, ExpressionsSound
      <4>2. CASE Base(Extraction[n - 1], e, node) \in Of(b)
        BY <3>1, <3>4, <3>5, <3>6, <3>8, <4>1, <4>2, ExpressionsSound
      <4>3. CASE Base(Extraction[n - 1], e, node) \notin Of(b)
        BY <3>1, <3>3, <3>5, <3>6, <4>1, <4>3, ExpressionsSound
      <4> QED
        BY <4>2, <4>3
    <3> QED
      BY <3>7, <3>8
  <2>2. n \in 0 .. Nesting
    BY Levels
  <2>3. Extracts(Extractors[n], ExtractorType[n], Extraction[n], SortsMapsIn[n])
    BY <2>1 DEF Extracts
  <2> QED
    BY <2>2, <2>3
<1>3. 0 .. Nesting \subseteq T
  <2> HIDE DEF T
  <2> QED
    BY <1>1, <1>2, ByLevel
<1> QED
  BY <1>3

(* What an extractor finds in an element, of those that were accepted.     *)
LEMMA ExplodingSound ==
    ASSUME NEW e \in Extractor, TypeOfExploding(e) # TypeError, NEW node \in Nodes
    PROVE  /\ TypeOfExploding(e) \in Type
           /\ ExtractExploding(e, node) \in Seq(Of(TypeOfExploding(e)) \cup {Panic})
           /\ Panic \in Range(ExtractExploding(e, node)) =>
                e \in SortsMapsIn[Nesting] \/ (e.explodes /\ Extract(e, node) = Null)
<1> DEFINE t == TypeOfExpr(e)
           v == Extract(e, node)
           u == TypeOfExploding(e)
<1>1. e.explodes \in BOOLEAN
  BY Deep, ExtractorsIn DEF Extractor
<1>2. t \in Type \cup {TypeError} /\ (t # TypeError => v \in Of(t) \/ (v = Panic /\ e \in SortsMapsIn[Nesting]))
  <2>1. Nesting \in 0 .. Nesting
    BY Deep
  <2> QED
    BY <2>1, ExtractionSound DEF Extracts, Extractor, TypeOfExpr, Extract
<1>3. u = IF ~ e.explodes THEN t ELSE IF Kind(t) = "array" THEN t[2] ELSE TypeError
  BY DEF TypeOfExploding
<1>4. ExtractExploding(e, node) = IF ~ e.explodes THEN <<v>> ELSE IF Kind(v) = "array" THEN v[2] ELSE <<Panic>>
  BY DEF ExtractExploding
<1>5. \A x : x \in Of(u) \cup {Panic} => <<x>> \in Seq(Of(u) \cup {Panic}) /\ Range(<<x>>) = {x}
  BY DEF Range
<1> HIDE DEF t, v, u
<1>6. CASE ~ e.explodes
  <2>1. u = t /\ t \in Type
    BY <1>2, <1>3, <1>6 DEF u
  <2>2. v \in Of(u) \cup {Panic} /\ ExtractExploding(e, node) = <<v>>
    BY <1>2, <1>4, <1>6, <2>1, TypeIs
  <2>3. Panic \notin Of(u)
    BY <2>1, OfAreValues, ValueIs
  <2>4. Range(<<v>>) = {v}
    BY <1>5, <2>2
  <2>5. v = Panic => e \in SortsMapsIn[Nesting]
    BY <1>2, <2>1, <2>3, TypeIs
  <2> QED
    BY <1>5, <2>1, <2>2, <2>4, <2>5 DEF u, v
<1>7. CASE e.explodes
  <2>1. Kind(t) = "array" /\ u = t[2]
    BY <1>3, <1>7 DEF u
  <2>2. t \in Type /\ u \in Type
    <3>1. Kind(TypeError) = "error"
      BY DEF Kind, TypeError
    <3> QED
      BY <1>2, <2>1, <3>1, TypeIs
  <2>3. Of(t) = {Null} \cup ({"array"} \X Seq(Of(u))) /\ Panic \notin Of(u)
    BY <2>1, <2>2, OfIs, OfAreValues, ValueIs
  <2>4. CASE v \in {"array"} \X Seq(Of(u))
    <3>1. ExtractExploding(e, node) = v[2] /\ v[2] \in Seq(Of(u))
      BY <1>4, <1>7, <2>4 DEF Kind
    <3>2. Seq(Of(u)) \subseteq Seq(Of(u) \cup {Panic})
      BY SeqGrow
    <3>3. Panic \notin Range(v[2])
      <4>1. \A i \in DOMAIN v[2] : v[2][i] \in Of(u)
        BY <3>1
      <4> QED
        BY <2>3, <4>1 DEF Range
    <3> QED
      BY <2>2, <3>1, <3>2, <3>3 DEF u
  <2>5. CASE v \notin {"array"} \X Seq(Of(u))
    <3>1. v = Null \/ (v = Panic /\ e \in SortsMapsIn[Nesting])
      BY <1>2, <2>2, <2>3, <2>5, TypeIs
    <3>2. Kind(v) # "array"
      BY <3>1 DEF Kind, Null, Panic
    <3>3. ExtractExploding(e, node) = <<Panic>>
      BY <1>4, <1>7, <3>2
    <3> QED
      BY <1>5, <1>7, <2>2, <3>1, <3>3 DEF u, v
  <2> QED
    BY <2>4, <2>5
<1> QED
  BY <1>1, <1>6, <1>7

-----------------------------------------------------------------------------
(* The kinds of aggregators.                                               *)
Aggregators == {"count", "count-not-null", "first", "collect", "distinct", "sum", "group"}

(* A rule of a level.                                                      *)
LEMMA RulingsIn ==
    ASSUME NEW n \in 1 .. Nesting, NEW r \in Rulings[n]
    PROVE  /\ r.ts \in Expression
           /\ r.agg[1] \in Aggregators
           /\ r.agg[1] # "count" => r.agg[2] \in Extractor
           /\ r.agg[1] = "group" => r.agg[3] \in Rulings[n - 1]
<1>1. Rulings[n] = RulingsOver(Rulings[n - 1])
  BY RulingsAre
<1>2. /\ r.agg \in {<<"count">>}
                   \cup ({"count-not-null", "first", "collect", "distinct", "sum"} \X Extractor)
                   \cup ({"group"} \X Extractor \X Rulings[n - 1])
      /\ r.ts \in Expression
  BY <1>1 DEF RulingsOver
<1>3. CASE r.agg = <<"count">>
  BY <1>2, <1>3 DEF Aggregators
<1>4. CASE r.agg \in {"count-not-null", "first", "collect", "distinct", "sum"} \X Extractor
  BY <1>2, <1>4 DEF Aggregators
<1>5. CASE r.agg \in {"group"} \X Extractor \X Rulings[n - 1]
  BY <1>2, <1>5 DEF Aggregators
<1> QED
  BY <1>2, <1>3, <1>4, <1>5

(* What a rule takes from an element has a type, or none.                  *)
LEMMA ExplodingTyped == \A e \in Extractor : TypeOfExploding(e) \in Type \cup {TypeError}
<1> TAKE e \in Extractor
<1>1. TypeOfExpr(e) \in Type \cup {TypeError}
  <2>1. Nesting \in 0 .. Nesting
    BY Deep
  <2> QED
    BY <2>1, ExtractionSound DEF Extracts, Extractor, TypeOfExpr
<1>2. Kind(TypeError) = "error"
  BY DEF Kind, TypeError
<1>3. \A t \in Type \cup {TypeError} : Kind(t) = "array" => t[2] \in Type
  BY <1>2, TypeIs
<1> QED
  BY <1>1, <1>3 DEF TypeOfExploding

(* The type of a rule is that of its transformers, after the aggregator.   *)
LEMMA RuleTypeIs ==
    ASSUME NEW n \in 1 .. Nesting, NEW r \in Rulings[n]
    PROVE  RuleType[n][r] = TypeOfAll(r.ts, AggregatorType(RuleType[n - 1], r))
<1>1. RuleType[n] = RuleTypeOver(n, RuleType[n - 1])
  BY RuleTypeAre
<1> QED
  BY <1>1, Zenon DEF RuleTypeOver

(* The types of the aggregators, of those that were accepted.              *)
LEMMA AggregatorTypeIs ==
    ASSUME NEW n \in 1 .. Nesting, NEW r \in Rulings[n], NEW typeOf
    PROVE  LET a == AggregatorType(typeOf, r)
               t == TypeOfExploding(r.agg[2])
               inner == typeOf[r.agg[3]]
           IN  /\ a \in Type \cup {TypeError}
               /\ a # TypeError =>
                    /\ r.agg[1] # "count" => t \in Type
                    /\ r.agg[1] \in {"count", "count-not-null", "sum"} => a = NumberT
                    /\ r.agg[1] = "count-not-null" => t = BoolT
                    /\ r.agg[1] = "sum" => t = NumberT
                    /\ r.agg[1] = "first" => a = t
                    /\ r.agg[1] \in {"collect", "distinct"} => a = ArrayT(t)
                    /\ r.agg[1] = "group" => t = StringT /\ inner \in Type /\ a = MapT(inner)
<1> DEFINE a == AggregatorType(typeOf, r)
           t == TypeOfExploding(r.agg[2])
           inner == typeOf[r.agg[3]]
           kind == r.agg[1]
<1>1. kind # "count" => t \in Type \cup {TypeError}
  BY RulingsIn, ExplodingTyped
<1>2. kind \in Aggregators
  BY RulingsIn
<1>3. a = CASE kind = "count" -> NumberT
            [] kind = "count-not-null" /\ t = BoolT -> NumberT
            [] kind = "first" -> t
            [] kind \in {"collect", "distinct"} -> Shallow(ArrayT(t))
            [] kind = "sum" /\ t = NumberT -> NumberT
            [] kind = "group" /\ t = StringT -> Shallow(MapT(inner))
            [] OTHER -> TypeError
  BY DEF AggregatorType
<1> HIDE DEF a, t, inner, kind
<1>4. {BoolT, NumberT, StringT} \subseteq Type /\ TypeError \notin Type
  BY TypeIs
<1>5. Shallow(ArrayT(t)) # TypeError => Shallow(ArrayT(t)) = ArrayT(t) /\ ArrayT(t) \in Type /\ t \in Type
  BY ShallowIs, ArraysAre
<1>6. Shallow(MapT(inner)) # TypeError => Shallow(MapT(inner)) = MapT(inner) /\ MapT(inner) \in Type /\ inner \in Type
  BY ShallowIs, ObjectsAre
<1>7. a \in Type \cup {TypeError}
  BY <1>1, <1>3, <1>4, <1>5, <1>6
<1>8. a # TypeError =>
        /\ kind # "count" => t \in Type
        /\ kind \in {"count", "count-not-null", "sum"} => a = NumberT
        /\ kind = "count-not-null" => t = BoolT
        /\ kind = "sum" => t = NumberT
        /\ kind = "first" => a = t
        /\ kind \in {"collect", "distinct"} => a = ArrayT(t)
        /\ kind = "group" => t = StringT /\ inner \in Type /\ a = MapT(inner)
  BY <1>1, <1>2, <1>3, <1>4, <1>5, <1>6 DEF Aggregators
<1> QED
  BY <1>7, <1>8 DEF a, t, inner, kind

(* An accepted rule has an accepted aggregator.                            *)
LEMMA RuleAccepted ==
    ASSUME NEW n \in 1 .. Nesting, NEW r \in Rulings[n]
    PROVE  /\ RuleType[n][r] \in Type \cup {TypeError}
           /\ RuleType[n][r] # TypeError => AggregatorType(RuleType[n - 1], r) \in Type
<1> DEFINE a == AggregatorType(RuleType[n - 1], r)
<1>1. RuleType[n][r] = TypeOfAll(r.ts, a)
  BY RuleTypeIs
<1>2. a \in Type \cup {TypeError}
  BY AggregatorTypeIs
<1>3. r.ts \in Expression
  BY RulingsIn
<1> HIDE DEF a
<1>4. RuleType[n][r] \in Type \cup {TypeError} /\ (RuleType[n][r] # TypeError => a \in Type)
  BY <1>1, <1>2, <1>3, ExpressionsSound
<1> QED
  BY <1>4 DEF a

(* The states of a level, and those of a rule.                             *)
LEMMA StatesIn ==
    ASSUME NEW n \in 1 .. Nesting
    PROVE  States[n] = ({"count", "count-not-null", "sum"} \X Int) \cup ({"first"} \X Value)
                \cup ({"collect"} \X Seq(Value)) \cup ({"distinct"} \X SUBSET Value)
                \cup ({"group"} \X Maps(States[n - 1]))
<1>1. States[n] = StatesOver(States[n - 1])
  BY StatesAre
<1> QED
  BY <1>1 DEF StatesOver

LEMMA StateTypesIs ==
    ASSUME NEW n \in 1 .. Nesting, NEW r \in Rulings[n]
    PROVE  LET kind == r.agg[1]
               vs == Of(TypeOfExploding(r.agg[2]))
               T == StateTypes[n][r]
           IN  /\ kind \in {"count", "count-not-null", "sum"} => T = {kind} \X Int
               /\ kind = "first" => T = {kind} \X vs
               /\ kind = "collect" => T = {kind} \X Seq(vs)
               /\ kind = "distinct" => T = {kind} \X {V \in SUBSET vs : IsFiniteSet(V)}
               /\ kind = "group" => T = {kind} \X Maps(StateTypes[n - 1][r.agg[3]])
<1> DEFINE kind == r.agg[1]
           vs == Of(TypeOfExploding(r.agg[2]))
           T == StateTypes[n][r]
           lists == Seq(vs)
           sets == {V \in SUBSET vs : IsFiniteSet(V)}
           groups == Maps(StateTypes[n - 1][r.agg[3]])
<1>1. StateTypes[n] = StateTypesOver(n, StateTypes[n - 1])
  BY StateTypesAre
<1>2. T = {kind} \X CASE kind \in {"count", "count-not-null", "sum"} -> Int
                      [] kind = "first" -> vs
                      [] kind = "collect" -> lists
                      [] kind = "distinct" -> sets
                      [] kind = "group" -> groups
  BY <1>1, Zenon DEF StateTypesOver
<1> HIDE DEF kind, vs, T, lists, sets, groups
<1>3. /\ kind \in {"count", "count-not-null", "sum"} => T = {kind} \X Int
      /\ kind = "first" => T = {kind} \X vs
      /\ kind = "collect" => T = {kind} \X lists
      /\ kind = "distinct" => T = {kind} \X sets
      /\ kind = "group" => T = {kind} \X groups
  BY <1>2
<1> QED
  BY <1>3, Zenon DEF kind, vs, T, lists, sets, groups

(* A state is of the kind of its rule, and is no panic.                    *)
LEMMA StateKinds ==
    ASSUME NEW n \in 1 .. Nesting, NEW r \in Rulings[n], NEW a \in StateTypes[n][r]
    PROVE  a = <<r.agg[1], a[2]>> /\ a # Panic /\ a # Absent
<1>1. r.agg[1] \in Aggregators
  BY RulingsIn
<1>2. \E S : StateTypes[n][r] = {r.agg[1]} \X S
  BY <1>1, StateTypesIs, Zenon DEF Aggregators
<1>3. a = <<r.agg[1], a[2]>> /\ a[1] = r.agg[1]
  BY <1>2
<1>4. Panic[1] = "panic" /\ Absent[1] = "absent"
  BY DEF Panic, Absent
<1> QED
  BY <1>1, <1>3, <1>4 DEF Aggregators

(* A rule begins in one of its states.                                     *)
LEMMA FreshTyped ==
    ASSUME NEW n \in 1 .. Nesting, NEW r \in Rulings[n], RuleType[n][r] # TypeError
    PROVE  Fresh(r.agg[1]) \in StateTypes[n][r]
<1> DEFINE kind == r.agg[1]
           t == TypeOfExploding(r.agg[2])
<1>1. kind \in Aggregators
  BY RulingsIn
<1>2. kind # "count" => t \in Type
  BY RuleAccepted, AggregatorTypeIs, TypeIs
<1>3. kind # "count" => Null \in Of(t)
  BY <1>2, OfAreValues
<1> HIDE DEF kind, t
<1>4. Fresh(kind) = <<kind, CASE kind \in {"count", "count-not-null", "sum"} -> 0
              [] kind = "first" -> Null
              [] kind = "collect" -> << >>
              [] kind = "distinct" -> {}
              [] kind = "group" -> [k \in Text |-> Absent]>>
  BY DEF Fresh
<1>5. CASE kind \in {"count", "count-not-null", "sum"}
  BY <1>4, <1>5, StateTypesIs DEF kind
<1>6. CASE kind = "first"
  <2>1. Fresh(kind) = <<kind, Null>>
    BY <1>4, <1>6
  <2>2. StateTypes[n][r] = {kind} \X Of(t)
    BY <1>6, StateTypesIs DEF kind, t
  <2> QED
    BY <1>3, <1>6, <2>1, <2>2 DEF kind
<1>7. CASE kind = "collect"
  <2>1. Fresh(kind) = <<kind, << >> >>
    BY <1>4, <1>7
  <2>2. StateTypes[n][r] = {kind} \X Seq(Of(t))
    BY <1>7, StateTypesIs DEF kind, t
  <2> QED
    BY <2>1, <2>2, EmptySeq DEF kind
<1>8. CASE kind = "distinct"
  <2>1. Fresh(kind) = <<kind, {}>>
    BY <1>4, <1>8, Zenon
  <2>2. StateTypes[n][r] = {kind} \X {V \in SUBSET Of(t) : IsFiniteSet(V)}
    BY <1>8, StateTypesIs DEF kind, t
  <2>3. IsFiniteSet({})
    BY FS_EmptySet
  <2> QED
    BY <2>1, <2>2, <2>3 DEF kind
<1>9. CASE kind = "group"
  <2>1. Fresh(kind) = <<kind, [k \in Text |-> Absent]>>
    BY <1>4, <1>9
  <2>2. StateTypes[n][r] = {kind} \X Maps(StateTypes[n - 1][r.agg[3]])
    BY <1>9, StateTypesIs DEF kind
  <2>3. [k \in Text |-> Absent] \in Maps(StateTypes[n - 1][r.agg[3]])
    BY DEF Maps
  <2> QED
    BY <2>1, <2>2, <2>3 DEF kind
<1> QED
  BY <1>1, <1>5, <1>6, <1>7, <1>8, <1>9 DEF Aggregators

-----------------------------------------------------------------------------
(* The states of each type are states, so that Feeding and Ending tell of  *)
(* them.                                                                   *)
LEMMA StatesTyped ==
    \A n \in 0 .. Nesting : \A r \in Rulings[n] : RuleType[n][r] # TypeError => StateTypes[n][r] \subseteq States[n]
<1> DEFINE T == {n \in 0 .. Nesting : \A r \in Rulings[n] :
                    RuleType[n][r] # TypeError => StateTypes[n][r] \subseteq States[n]}
<1>1. 0 \in T
  BY Levels, RulingsAre
<1>2. ASSUME NEW n \in 1 .. Nesting, n - 1 \in T PROVE n \in T
  <2>1. ASSUME NEW r \in Rulings[n], RuleType[n][r] # TypeError
        PROVE  StateTypes[n][r] \subseteq States[n]
    <3> DEFINE kind == r.agg[1]
               vs == Of(TypeOfExploding(r.agg[2]))
    <3>1. kind \in Aggregators /\ (kind = "group" => r.agg[3] \in Rulings[n - 1])
      BY RulingsIn
    <3>2. AggregatorType(RuleType[n - 1], r) # TypeError
      BY <2>1, RuleAccepted, TypeIs
    <3>3. kind # "count" => vs \subseteq Value
      BY <3>2, AggregatorTypeIs, OfAreValues
    <3>4. kind = "group" => RuleType[n - 1][r.agg[3]] # TypeError
      BY <3>2, AggregatorTypeIs, TypeIs
    <3>5. kind = "group" => StateTypes[n - 1][r.agg[3]] \subseteq States[n - 1]
      BY <1>2, <3>1, <3>4
    <3>6. CASE kind \in {"count", "count-not-null", "sum"}
      BY <3>6, StatesIn, StateTypesIs
    <3>7. CASE kind = "first"
      BY <3>3, <3>7, StatesIn, StateTypesIs
    <3>8. CASE kind = "collect"
      <4>1. Seq(vs) \subseteq Seq(Value)
        BY <3>3, <3>8, SeqGrow
      <4>2. StateTypes[n][r] = {kind} \X Seq(vs)
        BY <3>8, StateTypesIs
      <4> QED
        BY <3>8, <4>1, <4>2, StatesIn
    <3>9. CASE kind = "distinct"
      <4>1. {V \in SUBSET vs : IsFiniteSet(V)} \subseteq SUBSET Value
        BY <3>3, <3>9
      <4>2. StateTypes[n][r] = {kind} \X {V \in SUBSET vs : IsFiniteSet(V)}
        BY <3>9, StateTypesIs
      <4> QED
        BY <3>9, <4>1, <4>2, StatesIn
    <3>10. CASE kind = "group"
      <4>1. Maps(StateTypes[n - 1][r.agg[3]]) \subseteq Maps(States[n - 1])
        BY <3>5, <3>10, MapsGrow
      <4>2. StateTypes[n][r] = {kind} \X Maps(StateTypes[n - 1][r.agg[3]])
        BY <3>10, StateTypesIs
      <4> QED
        BY <3>10, <4>1, <4>2, StatesIn
    <3> QED
      BY <3>1, <3>6, <3>7, <3>8, <3>9, <3>10 DEF Aggregators
  <2> QED
    BY <2>1, Levels
<1>3. 0 .. Nesting \subseteq T
  <2> HIDE DEF T
  <2> QED
    BY <1>1, <1>2, ByLevel
<1> QED
  BY <1>3

(* An element into a state.                                                *)
LEMMA FeedingIs ==
    ASSUME NEW n \in 1 .. Nesting, NEW r \in Rulings[n], NEW node \in Nodes, NEW a \in States[n]
    PROVE  Feeding[n][r][node][a] =
                IF r.agg[1] = "count" THEN <<"count", a[2] + 1>>
                ELSE IF r.agg[1] = "first" /\ a[2] # Null THEN a
                ELSE AddAll(Feeding[n - 1][r.agg[3]][node], r, a, ExtractExploding(r.agg[2], node))
<1>1. Feeding[n] = FeedingOver(n, Feeding[n - 1])
  BY FeedingAre
<1> DEFINE Outcome(q, x, b) ==
                CASE q.agg[1] = "count" -> <<"count", b[2] + 1>>
                  [] q.agg[1] = "first" /\ b[2] # Null -> b
                  [] OTHER -> AddAll(Feeding[n - 1][q.agg[3]][x], q, b, ExtractExploding(q.agg[2], x))
<1>2. Feeding[n] = [q \in Rulings[n] |-> [x \in Nodes |-> [b \in States[n] |-> Outcome(q, x, b)]]]
  BY <1>1 DEF FeedingOver
<1>3. Feeding[n][r][node][a] = Outcome(r, node, a)
  <2> HIDE DEF Outcome
  <2> QED
    BY <1>2
<1> QED
  BY <1>3

(* The end of a state.                                                     *)
LEMMA EndingIs ==
    ASSUME NEW n \in 1 .. Nesting, NEW r \in Rulings[n], NEW a \in States[n]
    PROVE  Ending[n][r][a] = Eval(r.ts, Result(Ending[n - 1], r, a))
<1>1. Ending[n] = EndingOver(n, Ending[n - 1])
  BY EndingAre
<1> DEFINE Outcome(q, b) == Eval(q.ts, Result(Ending[n - 1], q, b))
<1>2. Ending[n] = [q \in Rulings[n] |-> [b \in States[n] |-> Outcome(q, b)]]
  BY <1>1 DEF EndingOver
<1>3. Ending[n][r][a] = Outcome(r, a)
  <2> HIDE DEF Outcome
  <2> QED
    BY <1>2
<1> QED
  BY <1>3

(* The states between the values of one element.                           *)
Adds(f, feed, r, a, vs) == /\ f[0] = a
                           /\ \A i \in 1 .. Len(vs) : f[i] = AddTo(feed, r, f[i - 1], vs[i])

(* There are such states.                                                  *)
LEMMA AddAllIs ==
    ASSUME NEW feed, NEW r, NEW a, NEW vs, Len(vs) \in Nat
    PROVE  \E f : Adds(f, feed, r, a, vs) /\ AddAll(feed, r, a, vs) = f[Len(vs)]
<1> DEFINE arg == [feed |-> feed, r |-> r, vs |-> vs]
<1>0. 0 \in Nat /\ 0 <= Len(vs)
  OBVIOUS
<1>1. PICK f : Exact(f, "adding", arg, a, 0, Len(vs))
  <2> HIDE DEF arg
  <2> QED
    BY <1>0, Exists
<1>2. f = [i \in 0 .. Len(vs) |-> IF i = 0 THEN a ELSE AddTo(arg.feed, arg.r, f[i - 1], arg.vs[i])]
  <2> HIDE DEF arg
  <2> QED
    BY <1>1 DEF Exact, Over
<1>3. arg.feed = feed /\ arg.r = r /\ arg.vs = vs
  OBVIOUS
<1> HIDE DEF arg
<1>4. f = [i \in 0 .. Len(vs) |-> IF i = 0 THEN a ELSE AddTo(feed, r, f[i - 1], vs[i])]
  BY <1>2, <1>3, Zenon
<1> DEFINE g == CHOOSE after : after = [i \in 0 .. Len(vs) |-> IF i = 0 THEN a ELSE AddTo(feed, r, after[i - 1], vs[i])]
<1>5. g = [i \in 0 .. Len(vs) |-> IF i = 0 THEN a ELSE AddTo(feed, r, g[i - 1], vs[i])]
  BY <1>4, Zenon
<1>6. AddAll(feed, r, a, vs) = g[Len(vs)]
  BY Zenon DEF AddAll
<1> HIDE DEF g
<1>7. 0 \in 0 .. Len(vs) /\ \A i \in 1 .. Len(vs) : i \in 0 .. Len(vs) /\ i # 0
  OBVIOUS
<1>8. g[0] = a /\ \A i \in 1 .. Len(vs) : g[i] = AddTo(feed, r, g[i - 1], vs[i])
  BY <1>5, <1>7, Zenon
<1> QED
  BY <1>6, <1>8 DEF Adds

(* A set of states that each value keeps to is kept to by all of them.     *)
LEMMA AddAllKeeps ==
    ASSUME NEW feed, NEW r, NEW S, NEW a \in S, NEW vs, Len(vs) \in Nat,
           \A x \in S, i \in 1 .. Len(vs) : AddTo(feed, r, x, vs[i]) \in S
    PROVE  AddAll(feed, r, a, vs) \in S
<1>1. PICK f : Adds(f, feed, r, a, vs) /\ AddAll(feed, r, a, vs) = f[Len(vs)]
  BY AddAllIs
<1> DEFINE T == {i \in 0 .. Len(vs) : f[i] \in S}
<1>2. 0 \in T
  BY <1>1 DEF Adds
<1>3. ASSUME NEW i \in 0 .. Len(vs) - 1, i \in T PROVE i + 1 \in T
  <2>1. i + 1 \in 1 .. Len(vs) /\ (i + 1) - 1 = i /\ i + 1 \in 0 .. Len(vs)
    OBVIOUS
  <2>2. f[i + 1] = AddTo(feed, r, f[i], vs[i + 1])
    BY <1>1, <2>1 DEF Adds
  <2> QED
    BY <1>3, <2>1, <2>2
<1>4. 0 .. Len(vs) \subseteq T
  <2> HIDE DEF T
  <2> QED
    BY <1>2, <1>3, InductionUpTo
<1> QED
  BY <1>1, <1>4

-----------------------------------------------------------------------------
(* The rule of the groups is of the level below.                           *)
LEMMA GroupRule ==
    ASSUME NEW n \in 1 .. Nesting, NEW r \in Rulings[n], r.agg[1] = "group", RuleType[n][r] # TypeError
    PROVE  /\ n - 1 \in 1 .. Nesting
           /\ r.agg[3] \in Rulings[n - 1]
           /\ RuleType[n - 1][r.agg[3]] \in Type
           /\ RuleType[n - 1][r.agg[3]] # TypeError
           /\ TypeOfExploding(r.agg[2]) = StringT
<1>1. r.agg[3] \in Rulings[n - 1]
  BY RulingsIn
<1>2. n - 1 \in 1 .. Nesting
  <2>1. CASE n = 1
    BY <1>1, <2>1, RulingsAre
  <2>2. CASE n # 1
    BY <2>2, Deep
  <2> QED
    BY <2>1, <2>2
<1>3. AggregatorType(RuleType[n - 1], r) # TypeError
  BY RuleAccepted, TypeIs
<1>4. RuleType[n - 1][r.agg[3]] \in Type /\ TypeOfExploding(r.agg[2]) = StringT
  BY <1>3, AggregatorTypeIs
<1> QED
  BY <1>1, <1>2, <1>4, TypeIs

(* A value of its type leads from a state of the rule to another.          *)
LEMMA AddTyped ==
    ASSUME NEW n \in 1 .. Nesting, NEW r \in Rulings[n], RuleType[n][r] # TypeError, r.agg[1] # "count",
           NEW a \in StateTypes[n][r], NEW v \in Of(TypeOfExploding(r.agg[2])),
           NEW feed, NEW S \in SUBSET {Panic},
           r.agg[1] = "group" =>
                \A x \in StateTypes[n - 1][r.agg[3]] : feed[x] \in StateTypes[n - 1][r.agg[3]] \cup S
    PROVE  AddTo(feed, r, a, v) \in StateTypes[n][r] \cup S
<1> DEFINE kind == r.agg[1]
           t == TypeOfExploding(r.agg[2])
           x == a[2]
           new == feed[StateOf(x, v[2], r.agg[3])]
           next == AddTo(feed, r, a, v)
<1>1. kind \in Aggregators
  BY RulingsIn
<1>2. /\ t \in Type
      /\ kind = "count-not-null" => t = BoolT
      /\ kind = "sum" => t = NumberT
      /\ kind = "group" => t = StringT
  BY RuleAccepted, AggregatorTypeIs, TypeIs
<1>3. a = <<kind, x>> /\ a # Panic
  BY StateKinds
<1>4. v # Panic
  BY <1>2, OfAreValues, ValueIs
<1>5. next = CASE kind = "count-not-null" /\ IsTruth(v) -> <<kind, IF Holds(v) THEN x + 1 ELSE x>>
               [] kind = "first" -> <<kind, IF x = Null THEN v ELSE x>>
               [] kind = "collect" -> <<kind, Append(x, v)>>
               [] kind = "distinct" -> <<kind, x \cup {v}>>
               [] kind \in {"sum", "group"} /\ v = Null -> a
               [] kind = "sum" /\ Kind(v) = "number" -> <<kind, x + v[2]>>
               [] kind = "group" /\ Kind(v) = "string" ->
                    IF new = Panic THEN Panic ELSE <<kind, [x EXCEPT ![v[2]] = new]>>
               [] OTHER -> Panic
  BY <1>3, <1>4, Zenon DEF AddTo
<1> HIDE DEF kind, x, new, next
<1>6. CASE kind = "count-not-null"
  <2>1. IsTruth(v)
    BY <1>2, <1>6, TruthsAre DEF IsTruth, Truths, t
  <2>2. next = <<kind, IF Holds(v) THEN x + 1 ELSE x>>
    BY <1>5, <1>6, <2>1
  <2>3. StateTypes[n][r] = {kind} \X Int
    BY <1>6, StateTypesIs DEF kind
  <2>4. x \in Int
    BY <1>3, <2>3
  <2> QED
    BY <2>2, <2>3, <2>4 DEF next
<1>7. CASE kind = "first"
  <2>1. next = <<kind, IF x = Null THEN v ELSE x>>
    BY <1>5, <1>7
  <2>2. StateTypes[n][r] = {kind} \X Of(t)
    BY <1>7, StateTypesIs DEF kind
  <2>3. x \in Of(t)
    BY <1>3, <2>2
  <2> QED
    BY <2>1, <2>2, <2>3 DEF next
<1>8. CASE kind = "collect"
  <2>1. next = <<kind, Append(x, v)>>
    BY <1>5, <1>8
  <2>2. StateTypes[n][r] = {kind} \X Seq(Of(t))
    BY <1>8, StateTypesIs DEF kind
  <2>3. x \in Seq(Of(t))
    BY <1>3, <2>2
  <2>4. Append(x, v) \in Seq(Of(t))
    BY <2>3, AppendProperties
  <2> QED
    BY <2>1, <2>2, <2>4 DEF next
<1>9. CASE kind = "distinct"
  <2>1. next = <<kind, x \cup {v}>>
    BY <1>5, <1>9, Zenon
  <2>2. StateTypes[n][r] = {kind} \X {V \in SUBSET Of(t) : IsFiniteSet(V)}
    BY <1>9, StateTypesIs DEF kind
  <2>3. x \in SUBSET Of(t) /\ IsFiniteSet(x)
    BY <1>3, <2>2
  <2>4. IsFiniteSet(x \cup {v})
    BY <2>3, FS_AddElement
  <2> QED
    BY <2>1, <2>2, <2>3, <2>4 DEF next
<1>10. CASE kind = "sum"
  <2>1. v = Null \/ (v \in {"number"} \X Int)
    BY <1>2, <1>10, NumbersAre DEF t
  <2>2. StateTypes[n][r] = {kind} \X Int
    BY <1>10, StateTypesIs DEF kind
  <2>3. x \in Int
    BY <1>3, <2>2
  <2>4. CASE v = Null
    BY <1>5, <1>10, <2>4 DEF next, Kind, Null
  <2>5. CASE v \in {"number"} \X Int
    <3>1. Kind(v) = "number" /\ v # Null /\ v[2] \in Int
      BY <2>5 DEF Kind, Null
    <3>2. next = <<kind, x + v[2]>>
      BY <1>5, <1>10, <3>1
    <3> QED
      BY <2>2, <2>3, <3>1, <3>2 DEF next
  <2> QED
    BY <2>1, <2>4, <2>5
<1>11. CASE kind = "group"
  <2> DEFINE q == r.agg[3]
             G == StateTypes[n - 1][q]
  <2>1. v = Null \/ (v \in {"string"} \X Text)
    BY <1>2, <1>11, StringsAre DEF t
  <2>2. StateTypes[n][r] = {kind} \X Maps(G)
    BY <1>11, StateTypesIs DEF kind
  <2>3. x \in Maps(G)
    BY <1>3, <2>2
  <2>4. CASE v = Null
    BY <1>5, <1>11, <2>4 DEF next, Kind, Null
  <2>5. CASE v \in {"string"} \X Text
    <3>1. Kind(v) = "string" /\ v # Null /\ v[2] \in Text
      BY <2>5 DEF Kind, Null
    <3>2. next = IF new = Panic THEN Panic ELSE <<kind, [x EXCEPT ![v[2]] = new]>>
      BY <1>5, <1>11, <3>1
    <3>3. Fresh(q.agg[1]) \in G
      BY <1>11, GroupRule, FreshTyped DEF kind
    <3>4. x[v[2]] \in G \cup {Absent}
      BY <2>3, <3>1 DEF Maps
    <3>5. StateOf(x, v[2], q) \in G
      BY <3>3, <3>4 DEF StateOf
    <3>6. new \in G \cup S
      BY <1>11, <3>5 DEF kind, new
    <3>7. CASE new \in G
      <4>1. new # Panic
        BY <1>11, <3>7, GroupRule, StateKinds DEF kind
      <4>2. [x EXCEPT ![v[2]] = new] \in Maps(G)
        BY <2>3, <3>7 DEF Maps
      <4> QED
        BY <2>2, <3>2, <4>1, <4>2 DEF next
    <3>8. CASE new \in S
      BY <3>2, <3>8 DEF next
    <3> QED
      BY <3>6, <3>7, <3>8
  <2> QED
    BY <2>1, <2>4, <2>5
<1> QED
  BY <1>1, <1>6, <1>7, <1>8, <1>9, <1>10, <1>11 DEF Aggregators, kind

(* The rules known to panic, by level.                                     *)
KnownBy(ns) ==
    LET known[n \in 0 .. Nesting] == IF n = 0 THEN {} ELSE KnownPanicsOver(n, ns, known[n - 1])
    IN  known

(* That is what KnownPanics is, level by level.                            *)
LEMMA KnownAre ==
    ASSUME NEW ns
    PROVE  /\ KnownPanics(ns) = KnownBy(ns)[Nesting]
           /\ \A n \in 1 .. Nesting : KnownBy(ns)[n] = KnownPanicsOver(n, ns, KnownBy(ns)[n - 1])
<1>1. PICK f : Exact(f, "known", ns, {}, 0, Nesting)
  BY Exists, Deep
<1>2. f = [n \in 0 .. Nesting |-> IF n = 0 THEN {} ELSE KnownPanicsOver(n, ns, f[n - 1])]
  BY <1>1 DEF Exact, Over
<1> DEFINE g == CHOOSE known : known = [n \in 0 .. Nesting |-> IF n = 0 THEN {} ELSE KnownPanicsOver(n, ns, known[n - 1])]
<1>3. g = [n \in 0 .. Nesting |-> IF n = 0 THEN {} ELSE KnownPanicsOver(n, ns, g[n - 1])]
  BY <1>2, Zenon
<1>4. KnownBy(ns) = g /\ KnownPanics(ns) = g[Nesting]
  BY Zenon DEF KnownBy, KnownPanics
<1> HIDE DEF g
<1>5. \A n \in 1 .. Nesting : g[n] = KnownPanicsOver(n, ns, g[n - 1])
  BY <1>3, Levels, Zenon
<1> QED
  BY <1>4, <1>5, Zenon

(* The ways a rule is known to panic.                                      *)
LEMMA KnownIs ==
    ASSUME NEW ns, NEW n \in 1 .. Nesting, NEW r \in Rulings[n]
    PROVE  r \in KnownBy(ns)[n] <=>
                \/ SortsMaps(r.ts, AggregatorType(RuleType[n - 1], r))
                \/ /\ r.agg[1] # "count"
                   /\ \/ r.agg[2] \in SortsMapsIn[Nesting]
                      \/ r.agg[2].explodes /\ \E node \in Range(ns) : Extract(r.agg[2], node) = Null
                \/ r.agg[1] = "group" /\ r.agg[3] \in KnownBy(ns)[n - 1]
<1>1. KnownBy(ns)[n] = KnownPanicsOver(n, ns, KnownBy(ns)[n - 1])
  BY KnownAre
<1> QED
  BY <1>1, Zenon DEF KnownPanicsOver

-----------------------------------------------------------------------------
(* Nothing comes after a panic.                                            *)
LEMMA AddPanics == \A feed, r, a, v : Panic \in {a, v} => AddTo(feed, r, a, v) = Panic
  BY Zenon DEF AddTo

(* What a rule may answer, on elements that include node, when its type    *)
(* was accepted: a T, or a panic that is known.                            *)
Answers(n, r, node, x, T) ==
    \/ x \in T
    \/ x = Panic /\ \A ns : node \in Range(ns) => r \in KnownBy(ns)[n]

(* An element leads from a state of the rule to another, or to a known     *)
(* panic.                                                                  *)
LEMMA FeedingSound ==
    \A n \in 0 .. Nesting : \A r \in Rulings[n] : RuleType[n][r] # TypeError =>
        \A node \in Nodes, a \in StateTypes[n][r] :
            Answers(n, r, node, Feeding[n][r][node][a], StateTypes[n][r])
<1> DEFINE T == {n \in 0 .. Nesting : \A r \in Rulings[n] : RuleType[n][r] # TypeError =>
                    \A node \in Nodes, a \in StateTypes[n][r] :
                        Answers(n, r, node, Feeding[n][r][node][a], StateTypes[n][r])}
<1>1. 0 \in T
  BY Levels, RulingsAre
<1>2. ASSUME NEW n \in 1 .. Nesting, n - 1 \in T PROVE n \in T
  <2>1. ASSUME NEW r \in Rulings[n], RuleType[n][r] # TypeError, NEW node \in Nodes, NEW a \in StateTypes[n][r]
        PROVE  Answers(n, r, node, Feeding[n][r][node][a], StateTypes[n][r])
    <3> DEFINE kind == r.agg[1]
               e == r.agg[2]
               t == TypeOfExploding(e)
               q == r.agg[3]
               vs == ExtractExploding(e, node)
               feed == Feeding[n - 1][q][node]
               G == StateTypes[n][r]
               S == {x \in {Panic} : \A ns : node \in Range(ns) => r \in KnownBy(ns)[n]}
    <3>1. a \in States[n] /\ n \in 0 .. Nesting
      BY <2>1, StatesTyped, Levels
    <3>2. Feeding[n][r][node][a] = IF kind = "count" THEN <<"count", a[2] + 1>>
                                   ELSE IF kind = "first" /\ a[2] # Null THEN a
                                   ELSE AddAll(feed, r, a, vs)
      BY <3>1, FeedingIs
    <3>3. CASE kind = "count"
      <4>1. G = {kind} \X Int
        BY <3>3, StateTypesIs
      <4>2. Feeding[n][r][node][a] = <<"count", a[2] + 1>>
        BY <3>2, <3>3, Zenon
      <4>3. a[2] \in Int
        BY <4>1, <2>1
      <4> QED
        BY <3>3, <4>1, <4>2, <4>3 DEF Answers
    <3>4. CASE kind # "count"
      <4>1. e \in Extractor /\ t \in Type /\ t # TypeError
        BY <2>1, <3>4, RulingsIn, RuleAccepted, AggregatorTypeIs, TypeIs
      <4>2. vs \in Seq(Of(t) \cup {Panic})
        BY <4>1, ExplodingSound
      <4>3. Panic \in Range(vs) => Panic \in S
        <5>1. SUFFICES ASSUME Panic \in Range(vs), NEW ns, node \in Range(ns)
                       PROVE  r \in KnownBy(ns)[n]
          OBVIOUS
        <5>2. e \in SortsMapsIn[Nesting] \/ (e.explodes /\ Extract(e, node) = Null)
          BY <4>1, <5>1, ExplodingSound
        <5> QED
          BY <3>4, <5>1, <5>2, KnownIs
      <4>4. kind = "group" => \A x \in StateTypes[n - 1][q] : feed[x] \in StateTypes[n - 1][q] \cup S
        <5>1. SUFFICES ASSUME kind = "group", NEW x \in StateTypes[n - 1][q], feed[x] \notin StateTypes[n - 1][q]
                       PROVE  feed[x] \in S
          OBVIOUS
        <5>2. q \in Rulings[n - 1] /\ RuleType[n - 1][q] # TypeError
          BY <2>1, <5>1, GroupRule
        <5>3. Answers(n - 1, q, node, feed[x], StateTypes[n - 1][q])
          BY <1>2, <5>1, <5>2
        <5>4. feed[x] = Panic /\ \A ns : node \in Range(ns) => q \in KnownBy(ns)[n - 1]
          BY <5>1, <5>3 DEF Answers
        <5>5. \A ns : node \in Range(ns) => r \in KnownBy(ns)[n]
          BY <5>1, <5>4, KnownIs
        <5> QED
          BY <5>4, <5>5
      <4> HIDE DEF kind, e, t, q, vs, feed, S
      <4>5. ASSUME NEW x \in G \cup S, NEW i \in 1 .. Len(vs) PROVE AddTo(feed, r, x, vs[i]) \in G \cup S
        <5>1. vs[i] \in Of(t) \cup {Panic} /\ vs[i] \in Range(vs)
          BY <4>2 DEF Range
        <5>2. S \in SUBSET {Panic}
          BY DEF S
        <5>3. CASE vs[i] = Panic
          BY <4>3, <5>1, <5>3, AddPanics
        <5>4. CASE x \in S
          BY <5>2, <5>4, AddPanics
        <5>5. CASE vs[i] \in Of(t) /\ x \in G
          <6>1. vs[i] \in Of(TypeOfExploding(r.agg[2])) /\ x \in StateTypes[n][r]
            BY <5>5 DEF t, e
          <6>2. r.agg[1] = "group" =>
                    \A y \in StateTypes[n - 1][r.agg[3]] : feed[y] \in StateTypes[n - 1][r.agg[3]] \cup S
            BY <4>4 DEF kind, q
          <6> QED
            BY <2>1, <3>4, <5>2, <6>1, <6>2, AddTyped DEF kind
        <5> QED
          BY <4>5, <5>1, <5>3, <5>4, <5>5
      <4>6. a \in G \cup S /\ Len(vs) \in Nat
        BY <2>1, <4>2
      <4>7. AddAll(feed, r, a, vs) \in G \cup S
        <5> HIDE DEF G
        <5> QED
          BY <4>5, <4>6, AddAllKeeps
      <4>8. Feeding[n][r][node][a] \in G \cup S
        BY <2>1, <3>2, <3>4, <4>7 DEF kind
      <4> QED
        BY <4>8 DEF Answers, S
    <3> QED
      BY <3>3, <3>4
  <2> QED
    BY <2>1, Levels
<1>3. 0 .. Nesting \subseteq T
  <2> HIDE DEF T
  <2> QED
    BY <1>1, <1>2, ByLevel
<1> QED
  BY <1>3

(* The elements of a finite set, in some order.                            *)
LEMMA SetToSeqIs ==
    ASSUME NEW S, IsFiniteSet(S)
    PROVE  SetToSeq(S) \in Seq(S) /\ Range(SetToSeq(S)) = S
<1>1. Cardinality(S) \in Nat /\ ExistsBijection(1 .. Cardinality(S), S)
  BY FS_CardinalityType
<1>2. PICK g \in Bijection(1 .. Cardinality(S), S) : TRUE
  BY <1>1 DEF ExistsBijection
<1>3. g \in [1 .. Cardinality(S) -> S] /\ IsInjective(g)
  BY <1>2 DEF Bijection, Injection, IsInjective
<1> DEFINE f == SetToSeq(S)
<1>4. f \in [1 .. Cardinality(S) -> S] /\ IsInjective(f)
  BY <1>3, Zenon DEF SetToSeq
<1>5. f \in Seq(S)
  BY <1>1, <1>4
<1> HIDE DEF f
<1>6. f \in Injection(1 .. Cardinality(S), S)
  BY <1>4 DEF Injection
<1>7. IsFiniteSet(1 .. Cardinality(S)) /\ Cardinality(1 .. Cardinality(S)) = Cardinality(S)
  BY <1>1, FS_Interval
<1>8. f \in Surjection(1 .. Cardinality(S), S)
  BY <1>6, <1>7, FS_Injection
<1>9. Range(f) = S
  BY <1>4, <1>8 DEF Range, Surjection
<1> QED
  BY <1>5, <1>9 DEF f

-----------------------------------------------------------------------------
(* The end of a rule, of a type T, or a panic that is known.               *)
Ends(n, r, x, T) ==
    \/ x \in T
    \/ x = Panic /\ \A ns : r \in KnownBy(ns)[n]

(* A state of the rule ends as a value of its type, or as a known panic.   *)
LEMMA EndingSound ==
    \A n \in 0 .. Nesting : \A r \in Rulings[n] : RuleType[n][r] # TypeError =>
        \A a \in StateTypes[n][r] : Ends(n, r, Ending[n][r][a], Of(RuleType[n][r]))
<1> DEFINE T == {n \in 0 .. Nesting : \A r \in Rulings[n] : RuleType[n][r] # TypeError =>
                    \A a \in StateTypes[n][r] : Ends(n, r, Ending[n][r][a], Of(RuleType[n][r]))}
<1>1. 0 \in T
  BY Levels, RulingsAre
<1>2. ASSUME NEW n \in 1 .. Nesting, n - 1 \in T PROVE n \in T
  <2>1. ASSUME NEW r \in Rulings[n], RuleType[n][r] # TypeError, NEW a \in StateTypes[n][r]
        PROVE  Ends(n, r, Ending[n][r][a], Of(RuleType[n][r]))
    <3> DEFINE kind == r.agg[1]
               e == r.agg[2]
               t == TypeOfExploding(e)
               q == r.agg[3]
               x == a[2]
               end == Ending[n - 1]
               whole == Result(end, r, a)
               at == AggregatorType(RuleType[n - 1], r)
               groups == [k \in Text |-> IF x[k] = Absent THEN Absent ELSE end[q][x[k]]]
    <3>1. a \in States[n] /\ n \in 0 .. Nesting
      BY <2>1, StatesTyped, Levels
    <3>2. Ending[n][r][a] = Eval(r.ts, whole)
      BY <3>1, EndingIs
    <3>3. kind \in Aggregators /\ r.ts \in Expression
      BY RulingsIn
    <3>4. /\ at \in Type /\ at # TypeError
          /\ kind # "count" => t \in Type
          /\ kind \in {"count", "count-not-null", "sum"} => at = NumberT
          /\ kind = "first" => at = t
          /\ kind \in {"collect", "distinct"} => at = ArrayT(t)
          /\ kind = "group" => RuleType[n - 1][q] \in Type /\ at = MapT(RuleType[n - 1][q])
      BY <2>1, RuleAccepted, AggregatorTypeIs, TypeIs
    <3>5. whole = CASE kind \in {"count", "count-not-null", "sum"} -> Num(x)
                    [] kind = "first" -> x
                    [] kind = "collect" -> Arr(x)
                    [] kind = "distinct" -> Arr(SetToSeq(x))
                    [] kind = "group" -> IF Panic \in Range(groups) THEN Panic ELSE Obj(groups)
      BY Zenon DEF Result
    <3>6. a = <<kind, x>>
      BY <2>1, StateKinds
    <3>7. RuleType[n][r] = TypeOfAll(r.ts, at)
      BY RuleTypeIs
    <3>8. \A ns : SortsMaps(r.ts, at) => r \in KnownBy(ns)[n]
      BY KnownIs
    <3>9. \A ns : kind = "group" /\ q \in KnownBy(ns)[n - 1] => r \in KnownBy(ns)[n]
      BY KnownIs
    <3>10. ASSUME kind = "group", NEW k \in Text
           PROVE  \/ groups[k] \in Of(RuleType[n - 1][q]) \cup {Absent}
                  \/ groups[k] = Panic /\ \A ns : q \in KnownBy(ns)[n - 1]
      <4>1. q \in Rulings[n - 1] /\ RuleType[n - 1][q] # TypeError
        BY <2>1, <3>10, GroupRule
      <4>2. StateTypes[n][r] = {kind} \X Maps(StateTypes[n - 1][q])
        BY <3>10, StateTypesIs
      <4>3. x \in Maps(StateTypes[n - 1][q])
        BY <2>1, <4>2
      <4>4. x[k] \in StateTypes[n - 1][q] \cup {Absent}
        BY <3>10, <4>3 DEF Maps
      <4>5. \A b \in StateTypes[n - 1][q] : Ends(n - 1, q, end[q][b], Of(RuleType[n - 1][q]))
        BY <1>2, <4>1
      <4>6. groups[k] = IF x[k] = Absent THEN Absent ELSE end[q][x[k]]
        BY <3>10
      <4> HIDE DEF groups, x, q, end
      <4> QED
        BY <4>4, <4>5, <4>6 DEF Ends
    <3> HIDE DEF kind, e, t, q, x, whole, at, groups
    <3>11. Ends(n, r, whole, Of(at))
      <4>1. CASE kind \in {"count", "count-not-null", "sum"}
        <5>1. whole = Num(x)
          BY <3>5, <4>1
        <5>2. StateTypes[n][r] = {kind} \X Int
          BY <4>1, StateTypesIs DEF kind
        <5>3. x \in Int
          BY <2>1, <3>6, <5>2
        <5> QED
          BY <3>4, <4>1, <5>1, <5>3, NumbersAre DEF Ends
      <4>2. CASE kind = "first"
        <5>1. whole = x
          BY <3>5, <4>2
        <5>2. StateTypes[n][r] = {kind} \X Of(t)
          BY <4>2, StateTypesIs DEF kind, t, e
        <5> QED
          BY <2>1, <3>4, <3>6, <4>2, <5>1, <5>2 DEF Ends
      <4>3. CASE kind = "collect"
        <5>1. whole = Arr(x)
          BY <3>5, <4>3
        <5>2. StateTypes[n][r] = {kind} \X Seq(Of(t))
          BY <4>3, StateTypesIs DEF kind, t, e
        <5>3. x \in Seq(Of(t))
          BY <2>1, <3>6, <5>2
        <5> QED
          BY <3>4, <4>3, <5>1, <5>3, ArraysAre DEF Ends
      <4>4. CASE kind = "distinct"
        <5>1. whole = Arr(SetToSeq(x))
          BY <3>5, <4>4
        <5>2. StateTypes[n][r] = {kind} \X {V \in SUBSET Of(t) : IsFiniteSet(V)}
          BY <4>4, StateTypesIs DEF kind, t, e
        <5>3. x \in SUBSET Of(t) /\ IsFiniteSet(x)
          BY <2>1, <3>6, <5>2
        <5>4. SetToSeq(x) \in Seq(Of(t))
          BY <5>3, SetToSeqIs, SeqGrow
        <5> QED
          BY <3>4, <4>4, <5>1, <5>4, ArraysAre DEF Ends
      <4>5. CASE kind = "group"
        <5>1. whole = IF Panic \in Range(groups) THEN Panic ELSE Obj(groups)
          BY <3>5, <4>5
        <5>2. DOMAIN groups = Text /\ groups = [k \in Text |-> groups[k]]
          BY DEF groups
        <5>3. CASE Panic \in Range(groups)
          <6>1. PICK k \in Text : groups[k] = Panic
            BY <5>2, <5>3 DEF Range
          <6>2. Panic \notin Of(RuleType[n - 1][q]) \cup {Absent}
            BY <3>4, <4>5, OfAreValues, ValueIs DEF Panic, Absent
          <6>3. \A ns : q \in KnownBy(ns)[n - 1]
            BY <3>10, <4>5, <6>1, <6>2
          <6> QED
            BY <3>9, <4>5, <5>1, <5>3, <6>3 DEF Ends
        <5>4. CASE Panic \notin Range(groups)
          <6>1. \A k \in Text : groups[k] # Panic
            BY <5>2, <5>4 DEF Range
          <6>2. \A k \in Text : groups[k] \in Of(RuleType[n - 1][q]) \cup {Absent}
            BY <3>10, <4>5, <6>1
          <6>3. groups \in Maps(Of(RuleType[n - 1][q]))
            BY <5>2, <6>2 DEF Maps
          <6> QED
            BY <3>4, <4>5, <5>1, <5>4, <6>3, ObjectsAre DEF Ends
        <5> QED
          BY <5>3, <5>4
      <4> QED
        BY <3>3, <4>1, <4>2, <4>3, <4>4, <4>5 DEF Aggregators
    <3>12. TypeOfAll(r.ts, at) # TypeError
      BY <2>1, <3>7
    <3>13. CASE whole \in Of(at)
      <4>1. \/ Eval(r.ts, whole) \in Of(TypeOfAll(r.ts, at))
            \/ Eval(r.ts, whole) = Panic /\ SortsMaps(r.ts, at)
        BY <3>3, <3>4, <3>12, <3>13, ExpressionsSound
      <4> QED
        BY <3>2, <3>7, <3>8, <4>1 DEF Ends
    <3>14. CASE whole \notin Of(at)
      <4>1. whole = Panic /\ \A ns : r \in KnownBy(ns)[n]
        BY <3>11, <3>14 DEF Ends
      <4> QED
        BY <3>2, <3>3, <4>1, ExpressionsSound DEF Ends
    <3> QED
      BY <3>13, <3>14
  <2> QED
    BY <2>1, Levels
<1>3. 0 .. Nesting \subseteq T
  <2> HIDE DEF T
  <2> QED
    BY <1>1, <1>2, ByLevel
<1> QED
  BY <1>3

-----------------------------------------------------------------------------
(* A rule that was accepted keeps to the types of its states.              *)
Invariant ==
    /\ WellTyped
    /\ rule \in RuleSet
    /\ phase \in {"feed", "done"} => TypeOfRule(rule) # TypeError
    /\ phase = "load" => state = Fresh(rule.agg[1]) /\ fed = << >>
    /\ PanicsAreKnown

(* It holds of a rule as it is loaded,                                     *)
LEMMA InvariantStarts == Init => Invariant
<1> SUFFICES ASSUME Init PROVE Invariant
  OBVIOUS
<1>1. rule \in RuleSet /\ rule \in Ruling /\ MaxFed \in Nat
  BY RulesAssumption DEF Init
<1>2. fed \in Seq(Nodes) /\ Len(fed) <= MaxFed
  BY <1>1, EmptySeq DEF Init
<1> QED
  BY <1>1, <1>2 DEF Init, Invariant, WellTyped, PanicsAreKnown

(* and every step keeps it.                                                *)
LEMMA InvariantStays == Invariant /\ [Next]_vars => Invariant'
<1> SUFFICES ASSUME Invariant, [Next]_vars PROVE Invariant'
  OBVIOUS
<1>0. Nesting \in 1 .. Nesting /\ Nesting \in 0 .. Nesting
  BY Deep
<1>1. CASE Load
  <2>1. /\ rule' = rule /\ state' = state /\ fed' = fed
        /\ phase = "load" /\ phase' \in {"rejected", "feed"}
        /\ phase' = "feed" => TypeOfRule(rule) # TypeError
    BY <1>1 DEF Load
  <2>2. state = Fresh(rule.agg[1]) /\ rule \in Rulings[Nesting]
    BY <2>1 DEF Invariant, WellTyped, Ruling
  <2>3. phase' = "feed" => state \in StateTypes[Nesting][rule]
    BY <1>0, <2>1, <2>2, FreshTyped DEF TypeOfRule
  <2> QED
    BY <2>1, <2>3 DEF Invariant, WellTyped, PanicsAreKnown
<1>2. ASSUME NEW node \in Nodes, Feed(node) PROVE Invariant'
  <2>1. /\ rule' = rule /\ phase = "feed" /\ fed' = Append(fed, node) /\ Len(fed) < MaxFed
        /\ state' = Aggregate(rule, state, node)
        /\ phase' = IF state' = Panic THEN "panicked" ELSE "feed"
    BY <1>2 DEF Feed
  <2>2. /\ rule \in Rulings[Nesting] /\ TypeOfRule(rule) # TypeError /\ rule \in RuleSet /\ rule \in Ruling
        /\ state \in StateTypes[Nesting][rule] /\ fed \in Seq(Nodes)
    BY <2>1 DEF Invariant, WellTyped, Ruling
  <2>3. /\ fed' \in Seq(Nodes) /\ Len(fed') = Len(fed) + 1 /\ Len(fed) \in Nat /\ fed'[Len(fed')] = node
    BY <2>1, <2>2, AppendProperties
  <2>4. Len(fed') <= MaxFed
    BY <2>1, <2>3, RulesAssumption
  <2>5. node \in Range(fed')
    BY <2>3 DEF Range
  <2>6. Answers(Nesting, rule, node, state', StateTypes[Nesting][rule])
    BY <1>0, <2>1, <2>2, FeedingSound DEF TypeOfRule, Aggregate
  <2>7. CASE state' = Panic
    <3>1. state' \notin StateTypes[Nesting][rule]
      BY <1>0, <2>2, <2>7, StateKinds
    <3>2. rule \in KnownBy(fed')[Nesting]
      BY <2>5, <2>6, <3>1 DEF Answers
    <3>3. rule' \in KnownPanics(fed)'
      BY <2>1, <3>2, KnownAre
    <3> QED
      BY <2>1, <2>2, <2>3, <2>4, <2>7, <3>3 DEF Invariant, WellTyped, PanicsAreKnown
  <2>8. CASE state' # Panic
    <3>1. state' \in StateTypes[Nesting][rule]
      BY <2>6, <2>8 DEF Answers
    <3> QED
      BY <2>1, <2>2, <2>3, <2>4, <2>8, <3>1 DEF Invariant, WellTyped, PanicsAreKnown
  <2> QED
    BY <2>7, <2>8
<1>3. CASE End
  <2>1. /\ rule' = rule /\ state' = state /\ fed' = fed /\ phase = "feed"
        /\ value' = Finalize(rule, state)
        /\ phase' = IF value' = Panic THEN "panicked" ELSE "done"
    BY <1>3 DEF End
  <2>2. /\ rule \in Rulings[Nesting] /\ TypeOfRule(rule) # TypeError
        /\ state \in StateTypes[Nesting][rule]
    BY <2>1 DEF Invariant, WellTyped, Ruling
  <2>3. Ends(Nesting, rule, value', Of(TypeOfRule(rule)))
    BY <1>0, <2>1, <2>2, EndingSound DEF TypeOfRule, Finalize
  <2>4. TypeOfRule(rule) \in Type
    BY <1>0, <2>2, RuleAccepted DEF TypeOfRule
  <2>5. CASE value' = Panic
    <3>1. value' \notin Of(TypeOfRule(rule))
      BY <2>4, <2>5, OfAreValues, ValueIs
    <3>2. rule \in KnownPanics(fed)
      BY <2>3, <3>1, KnownAre DEF Ends
    <3>3. rule' \in KnownPanics(fed)'
      BY <2>1, <3>2
    <3> QED
      BY <2>1, <2>5, <3>3 DEF Invariant, WellTyped, PanicsAreKnown
  <2>6. CASE value' # Panic
    <3>1. value' \in Of(TypeOfRule(rule))
      BY <2>3, <2>6 DEF Ends
    <3> QED
      BY <2>1, <2>2, <2>6, <3>1 DEF Invariant, WellTyped, PanicsAreKnown
  <2> QED
    BY <2>5, <2>6
<1>4. CASE UNCHANGED vars
  BY <1>4 DEF vars, Invariant, WellTyped, PanicsAreKnown
<1> QED
  BY <1>1, <1>2, <1>3, <1>4 DEF Next

(* Every rule that validation accepts keeps its state and its value of the *)
(* types that validation gave them, whatever elements it is fed            *)
(* (Rules.WellTyped).                                                      *)
THEOREM RulesAreTyped == Spec => []WellTyped
  BY InvariantStarts, InvariantStays, PTL DEF Spec, Invariant

(* A rule that validation accepted panics in the known ways only: two maps *)
(* compared, or null exploded (Rules.PanicsAreKnown).                      *)
THEOREM RulesPanicAsKnown == Spec => []PanicsAreKnown
  BY InvariantStarts, InvariantStays, PTL DEF Spec, Invariant

-----------------------------------------------------------------------------
(* A sequence with a value more.                                           *)
LEMMA Appended ==
    ASSUME NEW S, NEW s \in Seq(S), NEW v
    PROVE  /\ Len(s) \in Nat /\ Len(Append(s, v)) = Len(s) + 1
           /\ DOMAIN Append(s, v) = DOMAIN s \cup {Len(s) + 1}
           /\ Append(s, v)[Len(s) + 1] = v
           /\ \A i \in DOMAIN s : i \in Nat /\ i < Len(s) + 1 /\ Append(s, v)[i] = s[i]
<1> DEFINE T == S \cup {v}
<1>1. s \in Seq(T) /\ v \in T
  BY SeqGrow
<1> HIDE DEF T
<1> QED
  BY <1>1, AppendProperties

(* Its values, the copies of one of them, and the places that are not      *)
(* null.                                                                   *)
LEMMA RangeAppend ==
    ASSUME NEW S, NEW s \in Seq(S), NEW v
    PROVE  Range(Append(s, v)) = Range(s) \cup {v}
  BY Appended DEF Range

LEMMA CopiesAppend ==
    ASSUME NEW S, NEW s \in Seq(S), NEW v, NEW x
    PROVE  /\ Copies(s, x) \in Nat
           /\ Copies(Append(s, v), x) = IF v = x THEN Copies(s, x) + 1 ELSE Copies(s, x)
<1> DEFINE t == Append(s, v)
           I == {i \in DOMAIN s : s[i] = x}
           J == {i \in DOMAIN t : t[i] = x}
           m == Len(s) + 1
<1>1. DOMAIN t = DOMAIN s \cup {m} /\ t[m] = v /\ m \notin DOMAIN s /\ \A i \in DOMAIN s : t[i] = s[i]
  BY Appended
<1>2. J = IF v = x THEN I \cup {m} ELSE I
  BY <1>1
<1>3. IsFiniteSet(I) /\ m \notin I
  <2>1. IsFiniteSet(DOMAIN s)
    <3>1. DOMAIN s = 1 .. Len(s) /\ Len(s) \in Int /\ 1 \in Int
      OBVIOUS
    <3> QED
      BY <3>1, FS_Interval
  <2> QED
    BY <1>1, <2>1, FS_Subset
<1> HIDE DEF I, J, m
<1>4. Cardinality(I) \in Nat
  BY <1>3, FS_CardinalityType
<1>5. Cardinality(J) = IF v = x THEN Cardinality(I) + 1 ELSE Cardinality(I)
  BY <1>2, <1>3, FS_AddElement
<1> QED
  BY <1>4, <1>5 DEF I, J, Copies

(* Nothing is in the empty sequence.                                       *)
LEMMA EmptyIs == /\ Range(<< >>) = {} /\ Given(<< >>) = {}
                 /\ \A x : Copies(<< >>, x) = 0
<1>1. DOMAIN << >> = {}
  BY EmptySeq
<1>2. \A x : {i \in DOMAIN << >> : << >>[i] = x} = {}
  BY <1>1, Zenon
<1>3. Cardinality({}) = 0
  BY FS_EmptySet
<1>4. \A x : Copies(<< >>, x) = 0
  BY <1>2, <1>3, Zenon DEF Copies
<1>5. Range(<< >>) = {} /\ Given(<< >>) = {}
  BY <1>1, Zenon DEF Range, Given
<1> QED
  BY <1>4, <1>5

(* A value is copied as often as it is there.                              *)
LEMMA CopiesNone ==
    ASSUME NEW S, NEW s \in Seq(S), NEW x, x \notin Range(s)
    PROVE  Copies(s, x) = 0
<1>1. {i \in DOMAIN s : s[i] = x} = {}
  BY DEF Range
<1> QED
  BY <1>1, FS_EmptySet, Zenon DEF Copies

(* The places that are not null.                                           *)
LEMMA GivenAppend ==
    ASSUME NEW S, NEW s \in Seq(S), NEW v
    PROVE  /\ Given(s) \in SUBSET DOMAIN s /\ IsFiniteSet(Given(s))
           /\ Len(s) + 1 \notin Given(s)
           /\ Given(Append(s, v)) = IF v = Null THEN Given(s) ELSE Given(s) \cup {Len(s) + 1}
<1>1. IsFiniteSet(DOMAIN s)
  <2>1. DOMAIN s = 1 .. Len(s) /\ Len(s) \in Int /\ 1 \in Int
    OBVIOUS
  <2> QED
    BY <2>1, FS_Interval
<1>2. Given(s) \in SUBSET DOMAIN s
  BY DEF Given
<1>3. IsFiniteSet(Given(s))
  BY <1>1, <1>2, FS_Subset
<1>4. Len(s) + 1 \notin Given(s)
  BY <1>2, Appended
<1>5. Given(Append(s, v)) = IF v = Null THEN Given(s) ELSE Given(s) \cup {Len(s) + 1}
  BY Appended DEF Given
<1> QED
  BY <1>2, <1>3, <1>4, <1>5

(* The first value that is not null stays the first.                       *)
LEMMA FirstAppend ==
    ASSUME NEW S, NEW s \in Seq(S), NEW v
    PROVE  /\ Given(s) # {} => /\ s[First(Given(s))] # Null
                               /\ Given(Append(s, v)) # {}
                               /\ Append(s, v)[First(Given(Append(s, v)))] = s[First(Given(s))]
           /\ Given(s) = {} /\ v # Null =>
                /\ Given(Append(s, v)) # {}
                /\ Append(s, v)[First(Given(Append(s, v)))] = v
           /\ Given(s) = {} /\ v = Null => Given(Append(s, v)) = {}
<1> DEFINE t == Append(s, v)
           I == Given(s)
           J == Given(t)
           m == Len(s) + 1
<1>1. /\ I \in SUBSET DOMAIN s /\ J = IF v = Null THEN I ELSE I \cup {m}
      /\ t[m] = v /\ \A i \in DOMAIN s : i \in Nat /\ i < m /\ t[i] = s[i]
  BY GivenAppend, Appended
<1>2. m \in Nat /\ I \in SUBSET Nat /\ J \in SUBSET Nat
  BY <1>1, Appended
<1>3. \A i \in I : s[i] # Null
  BY DEF Given
<1> HIDE DEF I, J, m, t
<1>4. I # {} => First(I) \in I /\ \A k \in I : First(I) <= k
  BY <1>2, FirstIs
<1>5. J # {} => First(J) \in J /\ \A k \in J : First(J) <= k
  BY <1>2, FirstIs
<1>6. CASE I # {}
  <2>1. J # {}
    BY <1>1, <1>6
  <2>2. First(J) = First(I)
    <3>1. First(J) <= First(I) /\ First(I) \in Nat /\ First(J) \in Nat /\ First(I) < m
      BY <1>1, <1>2, <1>4, <1>5, <1>6
    <3>2. First(J) \in I
      BY <1>1, <1>2, <1>5, <2>1, <3>1
    <3> QED
      BY <1>4, <1>6, <3>1, <3>2
  <2>3. First(I) \in DOMAIN s
    BY <1>1, <1>4, <1>6
  <2> QED
    BY <1>1, <1>3, <1>4, <1>6, <2>1, <2>2, <2>3 DEF I, J, t
<1>7. CASE I = {} /\ v # Null
  <2>1. J = {m}
    BY <1>1, <1>7
  <2>2. First(J) = m
    BY <1>5, <2>1
  <2> QED
    BY <1>1, <1>7, <2>1, <2>2 DEF I, J, t
<1>8. CASE I = {} /\ v = Null
  BY <1>1, <1>8 DEF I, J, t
<1> QED
  BY <1>6, <1>7, <1>8 DEF I, J, t

(* What is given adds up.                                                  *)
Total(s) == SumFunctionOnSet([i \in Given(s) |-> s[i][2]], Given(s))

(* A number more is added to the total; null is not.                       *)
LEMMA TotalAppend ==
    ASSUME NEW s \in Seq(Of(NumberT)), NEW v \in Of(NumberT)
    PROVE  /\ Total(s) \in Int
           /\ v = Null => Total(Append(s, v)) = Total(s)
           /\ v # Null => v[2] \in Int /\ Total(Append(s, v)) = Total(s) + v[2]
<1> DEFINE t == Append(s, v)
           m == Len(s) + 1
           I == Given(s)
           J == Given(t)
           f == [i \in I |-> s[i][2]]
           g == [i \in J |-> t[i][2]]
<1>1. /\ I \in SUBSET DOMAIN s /\ IsFiniteSet(I) /\ m \notin I
      /\ J = IF v = Null THEN I ELSE I \cup {m}
      /\ t[m] = v /\ \A i \in DOMAIN s : t[i] = s[i]
  BY GivenAppend, Appended
<1>2. \A u \in Of(NumberT) : u # Null => u[2] \in Int
  BY NumbersAre
<1>3. \A i \in I : s[i] \in Of(NumberT) /\ s[i] # Null
  BY DEF Given
<1>4. \A i \in I : f[i] \in Int /\ i \in J /\ f[i] = g[i]
  BY <1>1, <1>2, <1>3
<1>5. Total(s) = SumFunctionOnSet(f, I) /\ Total(t) = SumFunctionOnSet(g, J)
  BY Zenon DEF Total
<1>6. v # Null => m \in J /\ g[m] = v[2] /\ v[2] \in Int
  BY <1>1, <1>2
<1> HIDE DEF I, J, f, g, m, t
<1>7. SumFunctionOnSet(f, I) \in Int /\ SumFunctionOnSet(f, I) = SumFunctionOnSet(g, I)
  BY <1>1, <1>4, SumStep, SumSame
<1>8. CASE v = Null
  BY <1>1, <1>5, <1>7, <1>8 DEF t
<1>9. CASE v # Null
  <2>1. J = I \cup {m} /\ IsFiniteSet(J) /\ \A i \in J : g[i] \in Int
    <3>1. J = I \cup {m}
      BY <1>1, <1>9
    <3> QED
      BY <1>1, <1>4, <1>6, <1>9, <3>1, FS_AddElement
  <2>2. I \in SUBSET J /\ m \in J \ I
    BY <1>1, <2>1
  <2>3. SumFunctionOnSet(g, I \cup {m}) = g[m] + SumFunctionOnSet(g, I)
    BY <2>1, <2>2, SumAdd
  <2>4. Total(t) = v[2] + Total(s)
    BY <1>5, <1>6, <1>7, <1>9, <2>1, <2>3
  <2> QED
    BY <1>5, <1>6, <1>7, <1>9, <2>4 DEF t
<1> QED
  BY <1>8, <1>9

-----------------------------------------------------------------------------
(* Standing, case by case.                                                 *)
LEMMA StandingIs ==
    ASSUME NEW stands, NEW r, NEW all, NEW members
    PROVE  /\ r.agg[1] # "first" /\ Panic \in Range(all) => Standing(stands, r, all, members) = Panic
           /\ r.agg[1] = "first" =>
                Standing(stands, r, all, members) =
                    <<"first", IF Given(all) = {} THEN Null ELSE all[First(Given(all))]>>
           /\ Panic \notin Range(all) =>
                /\ r.agg[1] = "count-not-null" =>
                        Standing(stands, r, all, members) = <<"count-not-null", Copies(all, Yes)>>
                /\ r.agg[1] = "collect" => Standing(stands, r, all, members) = <<"collect", all>>
                /\ r.agg[1] = "distinct" => Standing(stands, r, all, members) = <<"distinct", Range(all)>>
                /\ r.agg[1] = "sum" => Standing(stands, r, all, members) = <<"sum", Total(all)>>
                /\ r.agg[1] = "group" =>
                        Standing(stands, r, all, members) =
                            <<"group", [k \in Text |-> IF Str(k) \in Range(all) THEN stands[r.agg[3]][members[k]]
                                                       ELSE Absent]>>
<1> DEFINE kind == r.agg[1]
           x == Standing(stands, r, all, members)
           copies == Copies(all, Yes)
           first == IF Given(all) = {} THEN Null ELSE all[First(Given(all))]
           range == Range(all)
           total == Total(all)
           groups == [k \in Text |-> IF Str(k) \in Range(all) THEN stands[r.agg[3]][members[k]] ELSE Absent]
<1>1. x = IF kind # "first" /\ Panic \in Range(all) THEN Panic
          ELSE <<kind, CASE kind = "count-not-null" -> copies
                         [] kind = "first" -> first
                         [] kind = "collect" -> all
                         [] kind = "distinct" -> range
                         [] kind = "sum" -> total
                         [] kind = "group" -> groups>>
  BY Zenon DEF Standing, Total
<1> HIDE DEF kind, x, copies, first, range, total, groups
<1>2. /\ kind # "first" /\ Panic \in Range(all) => x = Panic
      /\ kind = "first" => x = <<"first", first>>
      /\ Panic \notin Range(all) =>
            /\ kind = "count-not-null" => x = <<"count-not-null", copies>>
            /\ kind = "collect" => x = <<"collect", all>>
            /\ kind = "distinct" => x = <<"distinct", range>>
            /\ kind = "sum" => x = <<"sum", total>>
            /\ kind = "group" => x = <<"group", groups>>
  BY <1>1
<1> QED
  BY <1>2, Zenon DEF kind, x, copies, first, range, total, groups

(* What stands for elements, by the level below.                           *)
LEMMA StandsIs ==
    ASSUME NEW n \in 1 .. Nesting, NEW r \in Rulings[n], NEW ns \in Seq(Nodes)
    PROVE  Stands[n][r][ns] =
                IF r.agg[1] = "count" THEN <<"count", Len(ns)>>
                ELSE Standing(Stands[n - 1], r, All(r, ns), [k \in Text |-> Belonging(r, ns, k)])
<1>1. Stands[n] = StandsOver(n, Stands[n - 1])
  BY StandsAre
<1> DEFINE Outcome(q, ms) ==
                IF q.agg[1] = "count" THEN <<"count", Len(ms)>>
                ELSE Standing(Stands[n - 1], q, All(q, ms), [k \in Text |-> Belonging(q, ms, k)])
<1>2. Stands[n] = [q \in Rulings[n] |-> [ms \in Seq(Nodes) |-> Outcome(q, ms)]]
  BY <1>1 DEF StandsOver
<1>3. Stands[n][r][ns] = Outcome(r, ns)
  <2> HIDE DEF Outcome
  <2> QED
    BY <1>2
<1> QED
  BY <1>3

(* A value into a state, case by case.                                     *)
LEMMA AddIs ==
    ASSUME NEW feed, NEW r, NEW a, NEW v, a # Panic, v # Panic
    PROVE  /\ r.agg[1] = "count-not-null" /\ IsTruth(v) =>
                AddTo(feed, r, a, v) = <<"count-not-null", IF v = Yes THEN a[2] + 1 ELSE a[2]>>
           /\ r.agg[1] = "first" => AddTo(feed, r, a, v) = <<"first", IF a[2] = Null THEN v ELSE a[2]>>
           /\ r.agg[1] = "collect" => AddTo(feed, r, a, v) = <<"collect", Append(a[2], v)>>
           /\ r.agg[1] = "distinct" => AddTo(feed, r, a, v) = <<"distinct", a[2] \cup {v}>>
           /\ r.agg[1] \in {"sum", "group"} /\ v = Null => AddTo(feed, r, a, v) = a
           /\ r.agg[1] = "sum" /\ Kind(v) = "number" => AddTo(feed, r, a, v) = <<"sum", a[2] + v[2]>>
           /\ r.agg[1] = "group" /\ Kind(v) = "string" /\ AddTo(feed, r, a, v) # Panic =>
                /\ feed[StateOf(a[2], v[2], r.agg[3])] # Panic
                /\ AddTo(feed, r, a, v) =
                        <<"group", [a[2] EXCEPT ![v[2]] = feed[StateOf(a[2], v[2], r.agg[3])]]>>
<1> DEFINE kind == r.agg[1]
           x == a[2]
           new == feed[StateOf(x, v[2], r.agg[3])]
           next == AddTo(feed, r, a, v)
           truth == IsTruth(v)
           counted == IF v = Yes THEN x + 1 ELSE x
           first == IF x = Null THEN v ELSE x
           longer == Append(x, v)
           larger == x \cup {v}
           plus == x + v[2]
           grouped == [x EXCEPT ![v[2]] = new]
<1>1. next = CASE kind = "count-not-null" /\ truth -> <<kind, counted>>
               [] kind = "first" -> <<kind, first>>
               [] kind = "collect" -> <<kind, longer>>
               [] kind = "distinct" -> <<kind, larger>>
               [] kind \in {"sum", "group"} /\ v = Null -> a
               [] kind = "sum" /\ Kind(v) = "number" -> <<kind, plus>>
               [] kind = "group" /\ Kind(v) = "string" -> IF new = Panic THEN Panic ELSE <<kind, grouped>>
               [] OTHER -> Panic
  BY Zenon DEF AddTo, Holds, Yes
<1>2. Kind(v) \in {"number", "string"} => v # Null
  BY DEF Kind, Null
<1> HIDE DEF kind, x, new, next, truth, counted, first, longer, larger, plus, grouped
<1>3. /\ kind = "count-not-null" /\ truth => next = <<"count-not-null", counted>>
      /\ kind = "first" => next = <<"first", first>>
      /\ kind = "collect" => next = <<"collect", longer>>
      /\ kind = "distinct" => next = <<"distinct", larger>>
      /\ kind \in {"sum", "group"} /\ v = Null => next = a
      /\ kind = "sum" /\ Kind(v) = "number" => next = <<"sum", plus>>
      /\ kind = "group" /\ Kind(v) = "string" /\ next # Panic => new # Panic /\ next = <<"group", grouped>>
  BY <1>1, <1>2
<1> QED
  BY <1>3, Zenon DEF kind, x, new, next, truth, counted, first, longer, larger, plus, grouped

-----------------------------------------------------------------------------
(* What a rule may find.                                                   *)
Offered(r) == Of(TypeOfExploding(r.agg[2])) \cup {Panic}

(* How the state of a group follows its elements.                          *)
GroupsFollow(n, q, stands, feed, all, members, after, v) ==
    \A k \in Text :
        /\ stands[q][members[k]] # Absent
        /\ Str(k) \notin Range(all) => stands[q][members[k]] = Fresh(q.agg[1])
        /\ v # Str(k) => after[k] = members[k]
        /\ v = Str(k) /\ stands[q][members[k]] \in StateTypes[n][q] =>
                feed[stands[q][members[k]]] \in {Panic, stands[q][after[k]]}

(* One value more.                                                         *)
LEMMA AddStands ==
    ASSUME NEW n \in 1 .. Nesting, NEW r \in Rulings[n], RuleType[n][r] # TypeError, r.agg[1] # "count",
           NEW stands, NEW feed,
           NEW all \in Seq(Offered(r)), NEW members, NEW after,
           NEW v \in Offered(r),
           Standing(stands, r, all, members) \in StateTypes[n][r],
           AddTo(feed, r, Standing(stands, r, all, members), v) # Panic,
           r.agg[1] = "group" => GroupsFollow(n - 1, r.agg[3], stands, feed, all, members, after, v)
    PROVE  AddTo(feed, r, Standing(stands, r, all, members), v) = Standing(stands, r, Append(all, v), after)
<1>1. PICK a : a = Standing(stands, r, all, members)
  OBVIOUS
<1>2. PICK both : both = Append(all, v)
  OBVIOUS
<1>3. PICK b : b = Standing(stands, r, both, after)
  OBVIOUS
<1>4. PICK next : next = AddTo(feed, r, a, v)
  OBVIOUS
<1>0. SUFFICES next = b
  BY <1>1, <1>2, <1>3, <1>4
<1>5. PICK kind : kind = r.agg[1]
  OBVIOUS
<1>6. PICK q : q = r.agg[3]
  OBVIOUS
<1>7. PICK t : t = TypeOfExploding(r.agg[2])
  OBVIOUS
<1>8. /\ t \in Type /\ kind \in Aggregators
      /\ kind = "count-not-null" => t = BoolT
      /\ kind = "sum" => t = NumberT
      /\ kind = "group" => t = StringT
  BY <1>5, <1>7, RuleAccepted, AggregatorTypeIs, TypeIs, RulingsIn
<1>9. a = <<kind, a[2]>> /\ a # Panic /\ a \in StateTypes[n][r]
  BY <1>1, <1>5, StateKinds
<1>10. next # Panic
  BY <1>1, <1>4
<1>11. v # Panic /\ v \in Of(t)
  <2>1. v = Panic => next = Panic
    BY <1>4, AddPanics
  <2> QED
    BY <1>7, <1>10, <2>1 DEF Offered
<1>12. Range(both) = Range(all) \cup {v}
  BY <1>2, RangeAppend
<1>13. /\ kind # "first" /\ Panic \in Range(all) => a = Panic
       /\ kind = "first" => a = <<"first", IF Given(all) = {} THEN Null ELSE all[First(Given(all))]>>
       /\ Panic \notin Range(all) =>
            /\ kind = "count-not-null" => a = <<"count-not-null", Copies(all, Yes)>>
            /\ kind = "collect" => a = <<"collect", all>>
            /\ kind = "distinct" => a = <<"distinct", Range(all)>>
            /\ kind = "sum" => a = <<"sum", Total(all)>>
            /\ kind = "group" =>
                a = <<"group", [k \in Text |-> IF Str(k) \in Range(all) THEN stands[q][members[k]] ELSE Absent]>>
  BY <1>1, <1>5, <1>6, StandingIs
<1>14. /\ kind = "first" => b = <<"first", IF Given(both) = {} THEN Null ELSE both[First(Given(both))]>>
       /\ Panic \notin Range(both) =>
            /\ kind = "count-not-null" => b = <<"count-not-null", Copies(both, Yes)>>
            /\ kind = "collect" => b = <<"collect", both>>
            /\ kind = "distinct" => b = <<"distinct", Range(both)>>
            /\ kind = "sum" => b = <<"sum", Total(both)>>
            /\ kind = "group" =>
                b = <<"group", [k \in Text |-> IF Str(k) \in Range(both) THEN stands[q][after[k]] ELSE Absent]>>
  BY <1>3, <1>5, <1>6, StandingIs
<1>15. /\ kind = "count-not-null" /\ IsTruth(v) =>
            next = <<"count-not-null", IF v = Yes THEN a[2] + 1 ELSE a[2]>>
       /\ kind = "first" => next = <<"first", IF a[2] = Null THEN v ELSE a[2]>>
       /\ kind = "collect" => next = <<"collect", Append(a[2], v)>>
       /\ kind = "distinct" => next = <<"distinct", a[2] \cup {v}>>
       /\ kind \in {"sum", "group"} /\ v = Null => next = a
       /\ kind = "sum" /\ Kind(v) = "number" => next = <<"sum", a[2] + v[2]>>
       /\ kind = "group" /\ Kind(v) = "string" =>
            /\ feed[StateOf(a[2], v[2], q)] # Panic
            /\ next = <<"group", [a[2] EXCEPT ![v[2]] = feed[StateOf(a[2], v[2], q)]]>>
  BY <1>4, <1>5, <1>6, <1>9, <1>10, <1>11, AddIs
<1>16. kind # "first" => Panic \notin Range(all) /\ Panic \notin Range(both)
  BY <1>9, <1>11, <1>12, <1>13
<1>17. all \in Seq(Of(t) \cup {Panic})
  BY <1>7 DEF Offered
<1>18. CASE kind = "count-not-null"
  <2>1. IsTruth(v)
    BY <1>8, <1>11, <1>18, TruthsAre DEF IsTruth, Truths
  <2>2. next = <<"count-not-null", IF v = Yes THEN a[2] + 1 ELSE a[2]>>
    BY <1>15, <1>18, <2>1
  <2>3. a[2] = Copies(all, Yes)
    BY <1>13, <1>16, <1>18
  <2>4. b = <<"count-not-null", Copies(both, Yes)>>
    BY <1>14, <1>16, <1>18
  <2>5. Copies(both, Yes) = IF v = Yes THEN Copies(all, Yes) + 1 ELSE Copies(all, Yes)
    BY <1>2, <1>17, CopiesAppend
  <2> QED
    BY <2>2, <2>3, <2>4, <2>5 
<1>19. CASE kind = "first"
  <2>1. next = <<"first", IF a[2] = Null THEN v ELSE a[2]>>
    BY <1>15, <1>19
  <2>2. a[2] = IF Given(all) = {} THEN Null ELSE all[First(Given(all))]
    BY <1>13, <1>19
  <2>3. b = <<"first", IF Given(both) = {} THEN Null ELSE both[First(Given(both))]>>
    BY <1>14, <1>19
  <2>4. PICK x, y : x = (IF a[2] = Null THEN v ELSE a[2])
                    /\ y = IF Given(both) = {} THEN Null ELSE both[First(Given(both))]
    OBVIOUS
  <2>5. x = y
    BY <1>2, <1>17, <2>2, <2>4, FirstAppend
  <2> QED
    BY <2>1, <2>3, <2>4, <2>5
<1>20. CASE kind = "collect"
  <2>1. next = <<"collect", Append(a[2], v)>> /\ b = <<"collect", both>> /\ a = <<"collect", all>>
    BY <1>13, <1>14, <1>15, <1>16, <1>20
  <2> QED
    BY <1>2, <2>1
<1>21. CASE kind = "distinct"
  <2>1. next = <<"distinct", a[2] \cup {v}>> /\ b = <<"distinct", Range(both)>> /\ a = <<"distinct", Range(all)>>
    BY <1>13, <1>14, <1>15, <1>16, <1>21
  <2> QED
    BY <1>12, <2>1
<1>22. CASE kind = "sum"
  <2>1. v \in Of(NumberT) /\ all \in Seq(Of(NumberT))
    <3>1. \A i \in DOMAIN all : all[i] \in Of(NumberT)
      BY <1>8, <1>16, <1>17, <1>22 DEF Range
    <3>2. all \in [DOMAIN all -> Of(NumberT)]
      BY <1>17, <3>1
    <3> QED
      BY <1>8, <1>11, <1>17, <1>22, <3>2, MadeIsSeq
  <2>2. a = <<"sum", Total(all)>> /\ b = <<"sum", Total(both)>>
    BY <1>13, <1>14, <1>16, <1>22
  <2>3. /\ Total(all) \in Int
        /\ v = Null => Total(both) = Total(all)
        /\ v # Null => v[2] \in Int /\ Total(both) = Total(all) + v[2]
    BY <1>2, <2>1, TotalAppend
  <2>4. CASE v = Null
    BY <1>15, <1>22, <2>2, <2>3, <2>4
  <2>5. CASE v # Null
    <3>1. Kind(v) = "number"
      BY <2>1, <2>5, NumbersAre DEF Kind
    <3>2. next = <<"sum", a[2] + v[2]>>
      BY <1>15, <1>22, <3>1
    <3> QED
      BY <2>2, <2>3, <2>5, <3>2
  <2> QED
    BY <2>4, <2>5
<1>23. CASE kind = "group"
  <2>1. a[2] = [k \in Text |-> IF Str(k) \in Range(all) THEN stands[q][members[k]] ELSE Absent]
    BY <1>13, <1>16, <1>23
  <2>2. b = <<"group", [k \in Text |-> IF Str(k) \in Range(both) THEN stands[q][after[k]] ELSE Absent]>>
    BY <1>14, <1>16, <1>23
  <2>3. \A k \in Text :
            /\ stands[q][members[k]] # Absent
            /\ Str(k) \notin Range(all) => stands[q][members[k]] = Fresh(q.agg[1])
            /\ v # Str(k) => after[k] = members[k]
            /\ v = Str(k) /\ stands[q][members[k]] \in StateTypes[n - 1][q] =>
                    feed[stands[q][members[k]]] \in {Panic, stands[q][after[k]]}
    BY <1>5, <1>6, <1>23 DEF GroupsFollow
  <2>4. v = Null \/ \E k \in Text : v = Str(k)
    BY <1>8, <1>11, <1>23, StringsAre DEF Str
  <2>5. CASE v = Null
    <3>1. next = a
      BY <1>15, <1>23, <2>5
    <3>2. \A k \in Text : Str(k) # v
      BY <2>5 DEF Str, Null
    <3>3. \A k \in Text : Str(k) \in Range(both) <=> Str(k) \in Range(all)
      BY <1>12, <3>2
    <3>4. [k \in Text |-> IF Str(k) \in Range(both) THEN stands[q][after[k]] ELSE Absent]
            = [k \in Text |-> IF Str(k) \in Range(all) THEN stands[q][members[k]] ELSE Absent]
      BY <2>3, <3>2, <3>3
    <3> QED
      BY <1>9, <1>23, <2>1, <2>2, <3>1, <3>4
  <2>6. ASSUME NEW key \in Text, v = Str(key) PROVE next = b
    <3>1. Kind(v) = "string" /\ v # Null /\ v[2] = key
      BY <2>6 DEF Kind, Null, Str
    <3>2. PICK new : new = feed[StateOf(a[2], key, q)]
      OBVIOUS
    <3>3. next = <<"group", [a[2] EXCEPT ![key] = new]>>
      BY <1>15, <1>23, <3>1, <3>2
    <3>4. n - 1 \in 1 .. Nesting /\ q \in Rulings[n - 1] /\ RuleType[n - 1][q] # TypeError
      BY <1>5, <1>6, <1>23, GroupRule
    <3>5. Fresh(q.agg[1]) \in StateTypes[n - 1][q]
      BY <3>4, FreshTyped
    <3>6. a[2] \in Maps(StateTypes[n - 1][q])
      <4>1. StateTypes[n][r] = {kind} \X Maps(StateTypes[n - 1][q])
        <5>1. r.agg[1] = "group"
          BY <1>5, <1>23
        <5>2. StateTypes[n][r] = {r.agg[1]} \X Maps(StateTypes[n - 1][r.agg[3]])
          BY <5>1, StateTypesIs
        <5> QED
          BY <1>5, <1>6, <5>2
      <4>2. a \in {kind} \X Maps(StateTypes[n - 1][q])
        BY <1>9, <4>1
      <4> QED
        BY <4>2
    <3>7. PICK old : old = stands[q][members[key]]
      OBVIOUS
    <3>8. a[2][key] = IF Str(key) \in Range(all) THEN old ELSE Absent
      BY <2>1, <3>7, Zenon
    <3>9. old # Absent /\ (Str(key) \notin Range(all) => old = Fresh(q.agg[1]))
      BY <2>3, <3>7, Zenon
    <3>13. StateOf(a[2], key, q) = old
      BY <3>8, <3>9, Zenon DEF StateOf
    <3>14. old \in StateTypes[n - 1][q]
      <4>1. a[2][key] \in StateTypes[n - 1][q] \cup {Absent}
        BY <3>6 DEF Maps
      <4> QED
        BY <3>5, <3>8, <3>9, <4>1
    <3>15. new = stands[q][after[key]]
      <4>1. new \in {Panic, stands[q][after[key]]}
        BY <2>3, <2>6, <3>2, <3>7, <3>13, <3>14
      <4>2. new # Panic
        BY <1>15, <1>23, <3>1, <3>2
      <4> QED
        BY <4>1, <4>2
    <3>10. \A k \in Text : Str(k) \in Range(both) <=> k = key \/ Str(k) \in Range(all)
      BY <1>12, <2>6 DEF Str
    <3>11. \A k \in Text : k # key => after[k] = members[k]
      BY <2>3, <2>6 DEF Str
    <3>12. [a[2] EXCEPT ![key] = new]
            = [k \in Text |-> IF Str(k) \in Range(both) THEN stands[q][after[k]] ELSE Absent]
      BY <2>1, <3>15, <3>10, <3>11
    <3> QED
      BY <2>2, <3>3, <3>12
  <2> QED
    BY <2>4, <2>5, <2>6
<1> QED
  <2>1. kind \in Aggregators /\ kind # "count"
    BY <1>5, <1>8
  <2> QED
    BY <1>18, <1>19, <1>20, <1>21, <1>22, <1>23, <2>1 DEF Aggregators

-----------------------------------------------------------------------------
(* A sequence that agrees with s and has v after it is s with v appended.  *)
LEMMA AppendIs ==
    ASSUME NEW T, NEW s \in Seq(T), NEW v \in T, NEW x \in Seq(T),
           DOMAIN x = DOMAIN s \cup {Len(s) + 1}, x[Len(s) + 1] = v, \A i \in DOMAIN s : x[i] = s[i]
    PROVE  x = Append(s, v)
<1>1. PICK y : y = Append(s, v)
  OBVIOUS
<1>2. /\ y \in Seq(T) /\ DOMAIN y = DOMAIN x
      /\ y[Len(s) + 1] = v /\ \A i \in DOMAIN s : y[i] = s[i]
  BY <1>1, Appended, AppendProperties
<1>3. \A i \in DOMAIN x : x[i] = y[i]
  BY <1>2
<1>4. x = [i \in DOMAIN x |-> x[i]] /\ y = [i \in DOMAIN y |-> y[i]]
  BY <1>2
<1> QED
  BY <1>1, <1>2, <1>3, <1>4

(* Two sequences joined, place by place.                                   *)
LEMMA Joined ==
    ASSUME NEW S, NEW s \in Seq(S), NEW t \in Seq(S)
    PROVE  /\ Join(s, t) \in Seq(S) /\ Len(Join(s, t)) = Len(s) + Len(t)
           /\ \A i \in 1 .. Len(s) : Join(s, t)[i] = s[i]
           /\ \A i \in 1 .. Len(t) : Join(s, t)[Len(s) + i] = t[i]
<1>1. /\ s \o t \in Seq(S) /\ Len(s \o t) = Len(s) + Len(t)
      /\ \A i \in 1 .. Len(s) : (s \o t)[i] = s[i]
      /\ \A i \in 1 .. Len(t) : (s \o t)[Len(s) + i] = t[i]
  OBVIOUS
<1> QED
  BY <1>1, Zenon DEF Join

(* Joined to nothing,                                                      *)
LEMMA JoinEmpty == ASSUME NEW S, NEW s \in Seq(S) PROVE Join(s, << >>) = s
  BY ConcatEmptySeq, Zenon DEF Join

(* and to a sequence with a value more.                                    *)
LEMMA JoinAppend ==
    ASSUME NEW S, NEW s \in Seq(S), NEW t \in Seq(S), NEW v \in S
    PROVE  Join(s, Append(t, v)) = Append(Join(s, t), v)
<1>1. s \o Append(t, v) = Append(s \o t, v)
  OBVIOUS
<1> QED
  BY <1>1, Zenon DEF Join

(* What is found in one element more.                                      *)
LEMMA FoundAppend ==
    ASSUME NEW r, r.agg[2] \in Extractor, TypeOfExploding(r.agg[2]) # TypeError,
           NEW ns \in Seq(Nodes), NEW node \in Nodes
    PROVE  /\ ExtractExploding(r.agg[2], node) \in Seq(Offered(r))
           /\ Found(r, ns) \in Seq(Seq(Offered(r))) /\ Len(Found(r, ns)) = Len(ns)
           /\ All(r, ns) \in Seq(Offered(r))
           /\ Found(r, Append(ns, node)) = Append(Found(r, ns), ExtractExploding(r.agg[2], node))
           /\ All(r, Append(ns, node)) = Join(All(r, ns), ExtractExploding(r.agg[2], node))
<1>0. PICK E : E = Offered(r)
  OBVIOUS
<1>1. \A x \in Nodes : ExtractExploding(r.agg[2], x) \in Seq(E)
  BY <1>0, ExplodingSound DEF Offered
<1>2. ASSUME NEW ms \in Seq(Nodes)
      PROVE  Found(r, ms) \in Seq(Seq(E)) /\ Len(Found(r, ms)) = Len(ms) /\ DOMAIN Found(r, ms) = DOMAIN ms
  <2>1. Found(r, ms) \in [DOMAIN ms -> Seq(E)]
    BY <1>1 DEF Found
  <2> QED
    BY <2>1, MadeIsSeq
<1>3. PICK more : more = Append(ns, node)
  OBVIOUS
<1>4. /\ more \in Seq(Nodes) /\ DOMAIN more = DOMAIN ns \cup {Len(ns) + 1}
      /\ more[Len(ns) + 1] = node /\ \A i \in DOMAIN ns : more[i] = ns[i]
  BY <1>3, Appended, AppendProperties
<1>5. PICK vs : vs = ExtractExploding(r.agg[2], node)
  OBVIOUS
<1>6. vs \in Seq(E)
  BY <1>1, <1>5
<1>7. Found(r, more)[Len(ns) + 1] = vs /\ \A i \in DOMAIN ns : Found(r, more)[i] = Found(r, ns)[i]
  BY <1>4, <1>5 DEF Found
<1>8. Found(r, more) = Append(Found(r, ns), vs)
  <2>1. Found(r, more) \in Seq(Seq(E)) /\ Found(r, ns) \in Seq(Seq(E))
    BY <1>2, <1>4
  <2>2. /\ DOMAIN Found(r, more) = DOMAIN Found(r, ns) \cup {Len(Found(r, ns)) + 1}
        /\ Found(r, more)[Len(Found(r, ns)) + 1] = vs
        /\ \A i \in DOMAIN Found(r, ns) : Found(r, more)[i] = Found(r, ns)[i]
    BY <1>2, <1>4, <1>7
  <2> QED
    BY <1>6, <2>1, <2>2, AppendIs
<1>9. FlattenSeq(Append(Found(r, ns), vs)) = Join(FlattenSeq(Found(r, ns)), vs)
  BY <1>2, <1>6, FlattenAppend, Zenon DEF Join
<1>10. All(r, more) = Join(All(r, ns), vs)
  BY <1>8, <1>9, Zenon DEF All
<1>11. All(r, ns) \in Seq(E)
  BY <1>2, FlattenTyped DEF All
<1> QED
  BY <1>0, <1>2, <1>3, <1>5, <1>6, <1>8, <1>10, <1>11

(* One copy more.                                                          *)
LEMMA TimesIs ==
    ASSUME NEW m \in Nat, NEW node \in Nodes
    PROVE  /\ Times(m, node) \in Seq(Nodes) /\ Len(Times(m, node)) = m
           /\ Times(m + 1, node) = Append(Times(m, node), node)
           /\ Times(0, node) = << >>
<1>1. \A k \in Nat : Times(k, node) \in Seq(Nodes) /\ Len(Times(k, node)) = k /\ DOMAIN Times(k, node) = 1 .. k
  BY DEF Times
<1>2. Times(m + 1, node)[m + 1] = node /\ \A i \in 1 .. m : Times(m + 1, node)[i] = Times(m, node)[i]
  BY DEF Times
<1>3. Times(m + 1, node) = Append(Times(m, node), node)
  <2>1. m + 1 \in Nat /\ 1 .. m + 1 = (1 .. m) \cup {m + 1}
    OBVIOUS
  <2> QED
    BY <1>1, <1>2, <2>1, AppendIs
<1>4. Times(0, node) = << >>
  BY <1>1, EmptySeq
<1> QED
  BY <1>1, <1>3, <1>4

(* The elements of a group.                                                *)
LEMMA BelongingTyped ==
    ASSUME NEW r, r.agg[2] \in Extractor, TypeOfExploding(r.agg[2]) # TypeError,
           NEW ms \in Seq(Nodes), NEW k
    PROVE  /\ Joining(r, ms, k) \in Seq(Seq(Nodes)) /\ Len(Joining(r, ms, k)) = Len(ms)
           /\ DOMAIN Joining(r, ms, k) = DOMAIN ms
           /\ Belonging(r, ms, k) \in Seq(Nodes)
<1>1. PICK E : E = Of(TypeOfExploding(r.agg[2])) \cup {Panic}
  OBVIOUS
<1>2. \A i \in DOMAIN ms : Times(Copies(Found(r, ms)[i], Str(k)), ms[i]) \in Seq(Nodes)
  <2> TAKE i \in DOMAIN ms
  <2>1. Found(r, ms)[i] \in Seq(E) /\ ms[i] \in Nodes
    <3>1. \A x \in Nodes : ExtractExploding(r.agg[2], x) \in Seq(E)
      BY <1>1, ExplodingSound
    <3> QED
      BY <3>1 DEF Found
  <2>2. Copies(Found(r, ms)[i], Str(k)) \in Nat
    BY <2>1, CopiesAppend
  <2> QED
    BY <2>1, <2>2, TimesIs
<1>3. Joining(r, ms, k) \in [DOMAIN ms -> Seq(Nodes)]
  BY <1>2 DEF Joining
<1>4. /\ Joining(r, ms, k) \in Seq(Seq(Nodes)) /\ Len(Joining(r, ms, k)) = Len(ms)
      /\ DOMAIN Joining(r, ms, k) = DOMAIN ms
  BY <1>3, MadeIsSeq
<1>5. Belonging(r, ms, k) \in Seq(Nodes)
  BY <1>4, FlattenTyped DEF Belonging
<1> QED
  BY <1>4, <1>5

(* The elements of a group, with an element more.                          *)
LEMMA BelongingAppend ==
    ASSUME NEW r, r.agg[2] \in Extractor, TypeOfExploding(r.agg[2]) # TypeError,
           NEW ns \in Seq(Nodes), NEW node \in Nodes, NEW k
    PROVE  /\ Belonging(r, ns, k) \in Seq(Nodes)
           /\ Belonging(r, Append(ns, node), k)
                = Join(Belonging(r, ns, k), Times(Copies(ExtractExploding(r.agg[2], node), Str(k)), node))
<1>1. PICK E : E = Of(TypeOfExploding(r.agg[2])) \cup {Panic}
  OBVIOUS
<1>2. PICK more : more = Append(ns, node)
  OBVIOUS
<1>3. /\ more \in Seq(Nodes) /\ DOMAIN more = DOMAIN ns \cup {Len(ns) + 1}
      /\ more[Len(ns) + 1] = node /\ \A i \in DOMAIN ns : more[i] = ns[i]
  BY <1>2, Appended, AppendProperties
<1>4. PICK vs : vs = ExtractExploding(r.agg[2], node)
  OBVIOUS
<1>5. Found(r, more)[Len(ns) + 1] = vs /\ \A i \in DOMAIN ns : Found(r, more)[i] = Found(r, ns)[i]
  BY <1>3, <1>4 DEF Found
<1>6. PICK last : last = Times(Copies(vs, Str(k)), node)
  OBVIOUS
<1>7. ASSUME NEW ms \in Seq(Nodes)
      PROVE  /\ Joining(r, ms, k) \in Seq(Seq(Nodes)) /\ Len(Joining(r, ms, k)) = Len(ms)
             /\ DOMAIN Joining(r, ms, k) = DOMAIN ms
  BY BelongingTyped
<1>8. Joining(r, more, k)[Len(ns) + 1] = last /\ \A i \in DOMAIN ns : Joining(r, more, k)[i] = Joining(r, ns, k)[i]
  BY <1>3, <1>5, <1>6 DEF Joining
<1>9. last \in Seq(Nodes)
  <2>1. vs \in Seq(E)
    BY <1>1, <1>4, ExplodingSound
  <2>2. Copies(vs, Str(k)) \in Nat
    BY <2>1, CopiesAppend
  <2> QED
    BY <1>6, <2>2, TimesIs
<1>10. Joining(r, more, k) = Append(Joining(r, ns, k), last)
  <2>1. Joining(r, more, k) \in Seq(Seq(Nodes)) /\ Joining(r, ns, k) \in Seq(Seq(Nodes))
    BY <1>3, <1>7
  <2>2. /\ DOMAIN Joining(r, more, k) = DOMAIN Joining(r, ns, k) \cup {Len(Joining(r, ns, k)) + 1}
        /\ Joining(r, more, k)[Len(Joining(r, ns, k)) + 1] = last
        /\ \A i \in DOMAIN Joining(r, ns, k) : Joining(r, more, k)[i] = Joining(r, ns, k)[i]
    BY <1>3, <1>7, <1>8
  <2> QED
    BY <1>9, <2>1, <2>2, AppendIs
<1>11. FlattenSeq(Append(Joining(r, ns, k), last)) = Join(FlattenSeq(Joining(r, ns, k)), last)
  BY <1>7, <1>9, FlattenAppend, Zenon DEF Join
<1>12. Belonging(r, more, k) = Join(Belonging(r, ns, k), last)
  BY <1>10, <1>11, Zenon DEF Belonging
<1>13. Belonging(r, ns, k) \in Seq(Nodes)
  BY <1>7, FlattenTyped DEF Belonging
<1> QED
  BY <1>2, <1>4, <1>6, <1>12, <1>13

-----------------------------------------------------------------------------
(* The values of both.                                                     *)
LEMMA RangeJoin ==
    ASSUME NEW S, NEW s \in Seq(S), NEW t \in Seq(S)
    PROVE  Range(Join(s, t)) = Range(s) \cup Range(t)
<1>1. PICK x : x = Join(s, t)
  OBVIOUS
<1>2. /\ x \in Seq(S) /\ Len(x) = Len(s) + Len(t)
      /\ \A i \in 1 .. Len(s) : x[i] = s[i]
      /\ \A i \in 1 .. Len(t) : x[Len(s) + i] = t[i]
  <2>1. Join(s, t) \in Seq(S) /\ Len(Join(s, t)) = Len(s) + Len(t)
    BY Joined
  <2>2. \A i \in 1 .. Len(s) : Join(s, t)[i] = s[i]
    BY Joined
  <2>3. \A i \in 1 .. Len(t) : Join(s, t)[Len(s) + i] = t[i]
    BY Joined
  <2> QED
    BY <1>1, <2>1, <2>2, <2>3
<1>6. /\ Len(s) \in Nat /\ Len(t) \in Nat /\ DOMAIN s = 1 .. Len(s) /\ DOMAIN t = 1 .. Len(t)
      /\ DOMAIN x = 1 .. Len(s) + Len(t)
  BY <1>2
<1>3. ASSUME NEW i \in DOMAIN x PROVE x[i] \in Range(s) \cup Range(t)
  <2>1. i \in 1 .. Len(s) \/ (i - Len(s) \in 1 .. Len(t) /\ Len(s) + (i - Len(s)) = i)
    BY <1>6
  <2>2. (i \in DOMAIN s /\ x[i] = s[i]) \/ (\E j \in DOMAIN t : x[i] = t[j])
    BY <1>2, <1>6, <2>1
  <2> QED
    BY <2>2 DEF Range
<1>4. ASSUME NEW i \in DOMAIN s PROVE s[i] \in Range(x)
  <2>1. i \in DOMAIN x /\ x[i] = s[i]
    BY <1>2, <1>6
  <2> QED
    BY <2>1 DEF Range
<1>5. ASSUME NEW i \in DOMAIN t PROVE t[i] \in Range(x)
  <2>1. Len(s) + i \in DOMAIN x
    BY <1>6
  <2>2. x[Len(s) + i] = t[i]
    BY <1>2, <1>6
  <2> QED
    BY <2>1, <2>2 DEF Range
<1> QED
  BY <1>1, <1>3, <1>4, <1>5 DEF Range

(* The first value that is not null stays the first.                       *)
LEMMA FirstJoin ==
    ASSUME NEW S, NEW s \in Seq(S), NEW t \in Seq(S), Given(s) # {}
    PROVE  /\ Given(Join(s, t)) # {}
           /\ Join(s, t)[First(Given(Join(s, t)))] = s[First(Given(s))]
<1>1. PICK x, I, J : x = Join(s, t) /\ I = Given(s) /\ J = Given(x)
  OBVIOUS
<1>2. /\ x \in Seq(S) /\ Len(x) = Len(s) + Len(t)
      /\ \A i \in 1 .. Len(s) : x[i] = s[i]
  BY <1>1, Joined
<1>3. I \in SUBSET (1 .. Len(s)) /\ I \in SUBSET Nat /\ J \in SUBSET Nat
  BY <1>1, <1>2 DEF Given
<1>4. \A i \in 1 .. Len(s) : i \in J <=> i \in I
  BY <1>1, <1>2 DEF Given
<1>5. First(I) \in I /\ \A k \in I : First(I) <= k
  BY <1>1, <1>3, FirstIs
<1>6. First(I) \in J
  BY <1>3, <1>4, <1>5
<1>7. First(J) \in J /\ \A k \in J : First(J) <= k
  BY <1>3, <1>6, FirstIs
<1>8. First(J) = First(I)
  <2>1. First(I) \in Nat /\ First(J) \in Nat /\ First(J) <= First(I) /\ First(I) <= Len(s)
    <3>1. First(I) \in 1 .. Len(s)
      BY <1>3, <1>5
    <3>2. First(J) \in Nat
      BY <1>3, <1>7
    <3>3. First(J) <= First(I)
      BY <1>6, <1>7
    <3>4. Len(s) \in Nat
      OBVIOUS
    <3> QED
      BY <3>1, <3>2, <3>3, <3>4
  <2>2. J \in SUBSET Nat /\ 0 \notin J
    BY <1>1, <1>2, <1>3 DEF Given
  <2>3. First(J) \in I
    BY <1>4, <1>7, <2>1, <2>2
  <2> QED
    BY <1>5, <2>1, <2>3
<1>9. First(I) \in 1 .. Len(s) /\ x[First(I)] = s[First(I)]
  BY <1>2, <1>3, <1>5
<1> QED
  BY <1>1, <1>6, <1>8, <1>9

(* Nothing is found in no element.                                         *)
LEMMA FoundNone == \A r, k : All(r, << >>) = << >> /\ Belonging(r, << >>, k) = << >>
<1> TAKE r, k
<1>1. DOMAIN << >> = {}
  BY EmptySeq
<1>2. Found(r, << >>) \in [DOMAIN << >> -> Nodes] /\ Joining(r, << >>, k) \in [DOMAIN << >> -> Nodes]
  BY <1>1 DEF Found, Joining
<1>3. << >> \in Seq(Nodes)
  BY EmptySeq
<1>4. Found(r, << >>) = << >> /\ Joining(r, << >>, k) = << >>
  <2>1. /\ Found(r, << >>) \in Seq(Nodes) /\ Len(Found(r, << >>)) = Len(<< >>)
        /\ Joining(r, << >>, k) \in Seq(Nodes) /\ Len(Joining(r, << >>, k)) = Len(<< >>)
    BY <1>2, <1>3, MadeIsSeq
  <2> QED
    BY <2>1, EmptySeq
<1> QED
  BY <1>4, FlatEmpty, Zenon DEF All, Belonging

(* A group without a key has no elements.                                  *)
LEMMA BelongingNone ==
    ASSUME NEW r, r.agg[2] \in Extractor, TypeOfExploding(r.agg[2]) # TypeError, NEW k,
           NEW ns \in Seq(Nodes), Str(k) \notin Range(All(r, ns))
    PROVE  Belonging(r, ns, k) = << >>
<1>1. PICK key : key = Str(k)
  OBVIOUS
<1> DEFINE T == {m \in Nat : \A ms \in Seq(Nodes) : Len(ms) = m /\ key \notin Range(All(r, ms)) => Belonging(r, ms, k) = << >>}
<1>2. 0 \in T
  BY EmptySeq, FoundNone
<1>3. ASSUME NEW m \in Nat, m \in T PROVE m + 1 \in T
  <2>1. ASSUME NEW ms \in Seq(Nodes), Len(ms) = m + 1, key \notin Range(All(r, ms))
        PROVE  Belonging(r, ms, k) = << >>
    <3>1. PICK front, node : front = [i \in 1 .. m |-> ms[i]] /\ node = ms[m + 1]
      OBVIOUS
    <3>2. front \in Seq(Nodes) /\ Len(front) = m /\ node \in Nodes
      BY <2>1, <3>1
    <3>3. ms = Append(front, node)
      <4>1. DOMAIN ms = DOMAIN front \cup {Len(front) + 1} /\ ms[Len(front) + 1] = node
        BY <2>1, <3>1, <3>2
      <4>2. \A i \in DOMAIN front : ms[i] = front[i]
        BY <3>1
      <4> QED
        BY <3>2, <4>1, <4>2, AppendIs
    <3>4. PICK vs, E : vs = ExtractExploding(r.agg[2], node) /\ E = Offered(r)
      OBVIOUS
    <3>5. All(r, ms) = Join(All(r, front), vs) /\ All(r, front) \in Seq(E) /\ vs \in Seq(E)
      BY <3>2, <3>3, <3>4, FoundAppend
    <3>6. key \notin Range(All(r, front)) /\ key \notin Range(vs)
      BY <2>1, <3>5, RangeJoin
    <3>7. Belonging(r, front, k) = << >>
      BY <1>3, <3>2, <3>6
    <3>8. Copies(vs, key) = 0
      BY <3>5, <3>6, CopiesNone
    <3>9. Belonging(r, ms, k) = Join(Belonging(r, front, k), Times(Copies(vs, key), node))
      BY <1>1, <3>2, <3>3, <3>4, BelongingAppend
    <3>10. Times(0, node) = << >>
      BY <3>2, TimesIs
    <3>11. Join(<< >>, << >>) = << >>
      BY EmptySeq, JoinEmpty
    <3> QED
      BY <3>7, <3>8, <3>9, <3>10, <3>11
  <2> QED
    BY <1>3, <2>1
<1>4. Nat \subseteq T
  <2> HIDE DEF T
  <2> QED
    BY <1>2, <1>3, Induction
<1>5. Len(ns) \in T
  <2>1. Len(ns) \in Nat
    OBVIOUS
  <2> HIDE DEF T
  <2> QED
    BY <1>4, <2>1
<1> QED
  BY <1>1, <1>5

-----------------------------------------------------------------------------
(* What stands for elements is no gap.                                     *)
LEMMA StandsThere ==
    ASSUME NEW n \in 1 .. Nesting, NEW r \in Rulings[n], NEW ns \in Seq(Nodes)
    PROVE  Stands[n][r][ns] # Absent
<1>1. PICK x, all, members : /\ all = All(r, ns) /\ members = [k \in Text |-> Belonging(r, ns, k)]
                             /\ x = Standing(Stands[n - 1], r, all, members)
  OBVIOUS
<1>2. Stands[n][r][ns] = IF r.agg[1] = "count" THEN <<"count", Len(ns)>> ELSE x
  BY <1>1, StandsIs
<1>3. Absent[1] = "absent" /\ Panic # Absent
  BY DEF Absent, Panic
<1>4. r.agg[1] \in Aggregators
  BY RulingsIn
<1>5. r.agg[1] # "count" => x # Absent
  <2>1. /\ r.agg[1] # "first" /\ Panic \in Range(all) => x = Panic
        /\ r.agg[1] = "first" => x[1] = "first"
        /\ Panic \notin Range(all) =>
            /\ r.agg[1] = "count-not-null" => x[1] = "count-not-null"
            /\ r.agg[1] = "collect" => x[1] = "collect"
            /\ r.agg[1] = "distinct" => x[1] = "distinct"
            /\ r.agg[1] = "sum" => x[1] = "sum"
            /\ r.agg[1] = "group" => x[1] = "group"
    BY <1>1, StandingIs
  <2> QED
    BY <1>3, <1>4, <2>1 DEF Aggregators
<1> QED
  BY <1>2, <1>3, <1>5

(* No elements leave a rule in the state it begins with.                   *)
LEMMA FreshStands ==
    ASSUME NEW n \in 1 .. Nesting, NEW r \in Rulings[n]
    PROVE  Stands[n][r][<< >>] = Fresh(r.agg[1])
<1>1. PICK x, members : /\ members = [k \in Text |-> Belonging(r, << >>, k)]
                        /\ x = Standing(Stands[n - 1], r, << >>, members)
  OBVIOUS
<1>2. Stands[n][r][<< >>] = IF r.agg[1] = "count" THEN <<"count", 0>> ELSE x
  <2>1. << >> \in Seq(Nodes) /\ Len(<< >>) = 0 /\ All(r, << >>) = << >>
    BY EmptySeq, FoundNone
  <2> QED
    BY <1>1, <2>1, StandsIs
<1>3. Range(<< >>) = {} /\ Given(<< >>) = {} /\ Copies(<< >>, Yes) = 0
  BY EmptyIs
<1>4. Total(<< >>) = 0
  <2>1. Total(<< >>) = SumFunctionOnSet([i \in {} |-> << >>[i][2]], {})
    BY <1>3, Zenon DEF Total
  <2>2. PICK f : f = [i \in {} |-> << >>[i][2]]
    OBVIOUS
  <2>3. SumFunctionOnSet(f, {}) = 0
    BY SumStep, FS_EmptySet
  <2> QED
    BY <2>1, <2>2, <2>3
<1>5. PICK stands : stands = Stands[n - 1]
  OBVIOUS
<1>6. /\ r.agg[1] = "first" => x = <<"first", Null>>
      /\ r.agg[1] = "count-not-null" => x = <<"count-not-null", 0>>
      /\ r.agg[1] = "collect" => x = <<"collect", << >> >>
      /\ r.agg[1] = "distinct" => x = <<"distinct", Range(<< >>)>>
      /\ r.agg[1] = "sum" => x = <<"sum", 0>>
      /\ r.agg[1] = "group" => x = <<"group", [k \in Text |-> Absent]>>
  <2>1. Panic \notin Range(<< >>)
    BY <1>3
  <2>2. /\ r.agg[1] = "first" => x = <<"first", IF Given(<< >>) = {} THEN Null ELSE << >>[First(Given(<< >>))]>>
        /\ r.agg[1] = "count-not-null" => x = <<"count-not-null", Copies(<< >>, Yes)>>
        /\ r.agg[1] = "collect" => x = <<"collect", << >> >>
        /\ r.agg[1] = "distinct" => x = <<"distinct", Range(<< >>)>>
        /\ r.agg[1] = "sum" => x = <<"sum", Total(<< >>)>>
        /\ r.agg[1] = "group" =>
            x = <<"group", [k \in Text |-> IF Str(k) \in Range(<< >>) THEN stands[r.agg[3]][members[k]] ELSE Absent]>>
    BY <1>1, <1>5, <2>1, StandingIs
  <2>3. [k \in Text |-> IF Str(k) \in Range(<< >>) THEN stands[r.agg[3]][members[k]] ELSE Absent]
            = [k \in Text |-> Absent]
    BY <1>3
  <2> QED
    BY <1>3, <1>4, <2>2, <2>3
<1>7. PICK kind : kind = r.agg[1]
  OBVIOUS
<1>8. kind \in Aggregators
  BY <1>7, RulingsIn
<1>9. Fresh(kind) = <<kind, CASE kind \in {"count", "count-not-null", "sum"} -> 0
              [] kind = "first" -> Null
              [] kind = "collect" -> << >>
              [] kind = "distinct" -> Range(<< >>)
              [] kind = "group" -> [k \in Text |-> Absent]>>
  BY <1>3, Zenon DEF Fresh
<1>10. PICK gaps : gaps = [k \in Text |-> Absent]
  OBVIOUS
<1>11. PICK none : none = Range(<< >>)
  OBVIOUS
<1>12. Fresh(kind) = <<kind, CASE kind \in {"count", "count-not-null", "sum"} -> 0
              [] kind = "first" -> Null
              [] kind = "collect" -> << >>
              [] kind = "distinct" -> none
              [] kind = "group" -> gaps>>
  BY <1>9, <1>10, <1>11, Zenon
<1>13. /\ kind \in {"count", "count-not-null", "sum"} => Fresh(kind) = <<kind, 0>>
       /\ kind = "first" => Fresh(kind) = <<kind, Null>>
       /\ kind = "collect" => Fresh(kind) = <<kind, << >> >>
       /\ kind = "distinct" => Fresh(kind) = <<kind, none>>
       /\ kind = "group" => Fresh(kind) = <<kind, gaps>>
  BY <1>12
<1>14. /\ kind = "first" => x = <<"first", Null>>
       /\ kind = "count-not-null" => x = <<"count-not-null", 0>>
       /\ kind = "collect" => x = <<"collect", << >> >>
       /\ kind = "distinct" => x = <<"distinct", none>>
       /\ kind = "sum" => x = <<"sum", 0>>
       /\ kind = "group" => x = <<"group", gaps>>
  BY <1>6, <1>7, <1>10, <1>11
<1>15. (IF kind = "count" THEN <<"count", 0>> ELSE x) = Fresh(kind)
  BY <1>8, <1>13, <1>14 DEF Aggregators
<1> QED
  BY <1>2, <1>7, <1>15

-----------------------------------------------------------------------------
(* What comes of a state that stands for ns when the element node is fed   *)
(* to it: a panic, or what stands for ns and node.                         *)
Follows(n, r, ns, node) ==
    Stands[n][r][ns] \in StateTypes[n][r] =>
        Feeding[n][r][node][Stands[n][r][ns]] \in {Panic, Stands[n][r][Append(ns, node)]}

(* The first values that are found in an element.                          *)
Begin(vs, i) == [j \in 1 .. i |-> vs[j]]

(* One more of them, none of them, all of them.                            *)
LEMMA BeginIs ==
    ASSUME NEW S, NEW vs \in Seq(S)
    PROVE  /\ \A i \in 0 .. Len(vs) : Begin(vs, i) \in Seq(S)
           /\ \A i \in 0 .. Len(vs) - 1 : Begin(vs, i + 1) = Append(Begin(vs, i), vs[i + 1])
           /\ Begin(vs, 0) = << >> /\ Begin(vs, Len(vs)) = vs
<1>1. \A i \in 0 .. Len(vs) : /\ Begin(vs, i) \in Seq(S) /\ Len(Begin(vs, i)) = i /\ DOMAIN Begin(vs, i) = 1 .. i
                              /\ \A j \in 1 .. i : Begin(vs, i)[j] = vs[j]
  BY DEF Begin
<1>2. ASSUME NEW i \in 0 .. Len(vs) - 1 PROVE Begin(vs, i + 1) = Append(Begin(vs, i), vs[i + 1])
  <2>1. /\ i \in 0 .. Len(vs) /\ i + 1 \in 0 .. Len(vs) /\ 1 .. i + 1 = (1 .. i) \cup {i + 1}
        /\ vs[i + 1] \in S /\ \A j \in 1 .. i : j \in 1 .. i + 1
    OBVIOUS
  <2>2. PICK x, y : x = Begin(vs, i) /\ y = Begin(vs, i + 1)
    OBVIOUS
  <2>3. /\ x \in Seq(S) /\ y \in Seq(S) /\ DOMAIN y = DOMAIN x \cup {Len(x) + 1}
        /\ y[Len(x) + 1] = vs[i + 1] /\ \A j \in DOMAIN x : y[j] = x[j]
    BY <1>1, <2>1, <2>2
  <2>4. y = Append(x, vs[i + 1])
    BY <2>1, <2>3, AppendIs
  <2> QED
    BY <2>2, <2>4
<1>3. Begin(vs, 0) = << >>
  BY <1>1, EmptySeq
<1>4. Begin(vs, Len(vs)) = vs
  BY DEF Begin
<1> QED
  BY <1>1, <1>2, <1>3, <1>4

(* The values found before element node and the first i of those in it,    *)
(* and the elements of each group by then.                                 *)
Before(r, ns, vs, i) == Join(All(r, ns), Begin(vs, i))

Members(r, ns, node, vs, i) ==
    [k \in Text |-> Join(Belonging(r, ns, k), Times(Copies(Begin(vs, i), Str(k)), node))]

(* They lead from what stood before the element to what stands after it.   *)
LEMMA BeforeIs ==
    ASSUME NEW r, r.agg[2] \in Extractor, TypeOfExploding(r.agg[2]) # TypeError,
           NEW ns \in Seq(Nodes), NEW node \in Nodes,
           NEW vs, vs = ExtractExploding(r.agg[2], node)
    PROVE  /\ vs \in Seq(Offered(r)) /\ \A i \in 0 .. Len(vs) : Before(r, ns, vs, i) \in Seq(Offered(r))
           /\ Before(r, ns, vs, 0) = All(r, ns)
           /\ Before(r, ns, vs, Len(vs)) = All(r, Append(ns, node))
           /\ \A i \in 0 .. Len(vs) - 1 : Before(r, ns, vs, i + 1) = Append(Before(r, ns, vs, i), vs[i + 1])
           /\ Members(r, ns, node, vs, 0) = [k \in Text |-> Belonging(r, ns, k)]
           /\ Members(r, ns, node, vs, Len(vs)) = [k \in Text |-> Belonging(r, Append(ns, node), k)]
<1>0. PICK E : E = Offered(r)
  OBVIOUS
<1>1. vs \in Seq(E) /\ All(r, ns) \in Seq(E) /\ All(r, Append(ns, node)) = Join(All(r, ns), vs)
  BY <1>0, FoundAppend
<1>2. /\ \A i \in 0 .. Len(vs) : Begin(vs, i) \in Seq(E)
      /\ \A i \in 0 .. Len(vs) - 1 : Begin(vs, i + 1) = Append(Begin(vs, i), vs[i + 1])
      /\ Begin(vs, 0) = << >> /\ Begin(vs, Len(vs)) = vs
  BY <1>1, BeginIs
<1>3. \A i \in 0 .. Len(vs) : Before(r, ns, vs, i) \in Seq(E)
  BY <1>1, <1>2, Joined DEF Before
<1>4. Before(r, ns, vs, 0) = All(r, ns)
  BY <1>1, <1>2, JoinEmpty, EmptySeq DEF Before
<1>5. Before(r, ns, vs, Len(vs)) = All(r, Append(ns, node))
  BY <1>1, <1>2 DEF Before
<1>6. ASSUME NEW i \in 0 .. Len(vs) - 1
      PROVE  Before(r, ns, vs, i + 1) = Append(Before(r, ns, vs, i), vs[i + 1])
  <2>1. vs[i + 1] \in E /\ i \in 0 .. Len(vs)
    BY <1>1
  <2>2. PICK s, t, v : s = All(r, ns) /\ t = Begin(vs, i) /\ v = vs[i + 1]
    OBVIOUS
  <2>4. s \in Seq(E) /\ t \in Seq(E) /\ v \in E
    BY <1>1, <1>2, <2>1, <2>2
  <2>3. Join(s, Append(t, v)) = Append(Join(s, t), v)
    BY <2>4, JoinAppend
  <2> QED
    BY <1>2, <2>2, <2>3 DEF Before
<1>7. ASSUME NEW k \in Text
      PROVE  /\ Belonging(r, ns, k) \in Seq(Nodes)
             /\ Belonging(r, Append(ns, node), k) = Join(Belonging(r, ns, k), Times(Copies(vs, Str(k)), node))
  BY BelongingAppend
<1>8. ASSUME NEW k \in Text
      PROVE  Join(Belonging(r, ns, k), Times(Copies(Begin(vs, 0), Str(k)), node)) = Belonging(r, ns, k)
  <2>1. Copies(Begin(vs, 0), Str(k)) = 0
    BY <1>2, EmptyIs
  <2>2. Times(0, node) = << >>
    BY TimesIs
  <2>3. Join(Belonging(r, ns, k), << >>) = Belonging(r, ns, k)
    BY <1>7, JoinEmpty, EmptySeq
  <2> QED
    BY <2>1, <2>2, <2>3
<1>9. Members(r, ns, node, vs, 0) = [k \in Text |-> Belonging(r, ns, k)]
  BY <1>8 DEF Members
<1>10. Members(r, ns, node, vs, Len(vs)) = [k \in Text |-> Belonging(r, Append(ns, node), k)]
  BY <1>2, <1>7 DEF Members
<1> QED
  BY <1>0, <1>1, <1>3, <1>4, <1>5, <1>6, <1>9, <1>10

-----------------------------------------------------------------------------
(* The groups of a rule follow their elements when each rule of groups     *)
(* does.                                                                   *)
LEMMA GroupsStand ==
    ASSUME NEW n \in 1 .. Nesting, NEW r \in Rulings[n], RuleType[n][r] # TypeError, r.agg[1] = "group",
           NEW ns \in Seq(Nodes), NEW node \in Nodes,
           NEW vs, vs = ExtractExploding(r.agg[2], node), NEW i \in 0 .. Len(vs) - 1,
           \A ms \in Seq(Nodes) : Follows(n - 1, r.agg[3], ms, node)
    PROVE  GroupsFollow(n - 1, r.agg[3], Stands[n - 1], Feeding[n - 1][r.agg[3]][node],
                        Before(r, ns, vs, i), Members(r, ns, node, vs, i), Members(r, ns, node, vs, i + 1),
                        vs[i + 1])
<1>1. PICK q, feed, stands, v, begin : q = r.agg[3] /\ feed = Feeding[n - 1][q][node] /\ stands = Stands[n - 1]
                                     /\ v = vs[i + 1] /\ begin = Begin(vs, i)
  OBVIOUS
<1>2. /\ n - 1 \in 1 .. Nesting /\ q \in Rulings[n - 1] /\ RuleType[n - 1][q] # TypeError
      /\ r.agg[2] \in Extractor /\ TypeOfExploding(r.agg[2]) = StringT
  BY <1>1, GroupRule, RulingsIn
<1>3. TypeOfExploding(r.agg[2]) # TypeError
  BY <1>2, TypeIs
<1>4. PICK E : E = Offered(r)
  OBVIOUS
<1>5. vs \in Seq(E) /\ i \in 0 .. Len(vs) /\ v \in E
  <2>1. vs \in Seq(E)
    BY <1>2, <1>3, <1>4, ExplodingSound DEF Offered
  <2> QED
    BY <1>1, <2>1
<1>6. /\ begin \in Seq(E) /\ Begin(vs, i + 1) = Append(begin, v)
  <2>1. Begin(vs, i) \in Seq(E)
    BY <1>5, BeginIs
  <2>2. Begin(vs, i + 1) = Append(Begin(vs, i), vs[i + 1])
    BY <1>5, BeginIs
  <2> QED
    BY <1>1, <2>1, <2>2
<1>7. All(r, ns) \in Seq(E)
  BY <1>2, <1>3, <1>4, FoundAppend
<1>8. PICK members, after : members = Members(r, ns, node, vs, i) /\ after = Members(r, ns, node, vs, i + 1)
  OBVIOUS
<1>9. PICK all : all = Before(r, ns, vs, i)
  OBVIOUS
<1>10. Range(all) = Range(All(r, ns)) \cup Range(begin)
  BY <1>1, <1>6, <1>7, <1>9, RangeJoin DEF Before
<1>11. ASSUME NEW k \in Text
       PROVE  /\ stands[q][members[k]] # Absent
              /\ Str(k) \notin Range(all) => stands[q][members[k]] = Fresh(q.agg[1])
              /\ v # Str(k) => after[k] = members[k]
              /\ v = Str(k) /\ stands[q][members[k]] \in StateTypes[n - 1][q] =>
                        feed[stands[q][members[k]]] \in {Panic, stands[q][after[k]]}
  <2>1. PICK key, ms, m : key = Str(k) /\ ms = Belonging(r, ns, k) /\ m = Copies(begin, key)
    OBVIOUS
  <2>2. ms \in Seq(Nodes)
    BY <1>2, <1>3, <2>1, BelongingAppend
  <2>3. m \in Nat /\ Copies(Append(begin, v), key) = IF v = key THEN m + 1 ELSE m
    BY <1>6, <2>1, CopiesAppend
  <2>11. PICK next : next = Copies(Begin(vs, i + 1), key)
    OBVIOUS
  <2>12. next = IF v = key THEN m + 1 ELSE m
    BY <1>6, <2>3, <2>11
  <2>4. members[k] = Join(ms, Times(m, node)) /\ after[k] = Join(ms, Times(next, node))
    BY <1>1, <1>8, <2>1, <2>11 DEF Members
  <2>5. Times(m, node) \in Seq(Nodes) /\ Times(m + 1, node) = Append(Times(m, node), node)
    BY <2>3, TimesIs
  <2>6. Join(ms, Append(Times(m, node), node)) = Append(Join(ms, Times(m, node)), node)
    BY <2>2, <2>5, JoinAppend
  <2>7. members[k] \in Seq(Nodes) /\ after[k] = IF v = key THEN Append(members[k], node) ELSE members[k]
    <3>1. Join(ms, Times(m, node)) \in Seq(Nodes)
      BY <2>2, <2>5, Joined
    <3> QED
      BY <2>4, <2>5, <2>6, <2>12, <3>1
  <2>8. stands[q][members[k]] # Absent
    BY <1>1, <1>2, <2>7, StandsThere
  <2>9. key \notin Range(all) => stands[q][members[k]] = Fresh(q.agg[1])
    <3>1. SUFFICES ASSUME key \notin Range(all) PROVE members[k] = << >>
      BY <1>1, <1>2, FreshStands
    <3>2. key \notin Range(All(r, ns)) /\ key \notin Range(begin)
      BY <1>10, <3>1
    <3>3. ms = << >>
      BY <1>2, <1>3, <2>1, <3>2, BelongingNone
    <3>4. m = 0
      BY <1>6, <2>1, <3>2, CopiesNone
    <3>5. Times(0, node) = << >> /\ Join(<< >>, << >>) = << >>
      BY TimesIs, EmptySeq, JoinEmpty
    <3> QED
      BY <2>4, <3>3, <3>4, <3>5
  <2>10. v = key /\ stands[q][members[k]] \in StateTypes[n - 1][q] =>
            feed[stands[q][members[k]]] \in {Panic, stands[q][after[k]]}
    <3>1. Follows(n - 1, q, members[k], node)
      BY <1>1, <2>7
    <3>2. PICK x : x = stands[q][members[k]]
      OBVIOUS
    <3>3. x \in StateTypes[n - 1][q] => feed[x] \in {Panic, stands[q][Append(members[k], node)]}
      BY <1>1, <3>1, <3>2, Zenon DEF Follows
    <3> QED
      BY <2>7, <3>2, <3>3
  <2> QED
    BY <2>1, <2>7, <2>8, <2>9, <2>10
<1>12. GroupsFollow(n - 1, q, stands, feed, all, members, after, v)
  BY <1>11 DEF GroupsFollow
<1> QED
  BY <1>1, <1>8, <1>9, <1>12

-----------------------------------------------------------------------------
(* The values of one element, one after another.                           *)
LEMMA AllStand ==
    ASSUME NEW n \in 1 .. Nesting, NEW r \in Rulings[n], RuleType[n][r] # TypeError, r.agg[1] # "count",
           NEW ns \in Seq(Nodes), NEW node \in Nodes,
           NEW vs, vs = ExtractExploding(r.agg[2], node),
           NEW feed, feed = Feeding[n - 1][r.agg[3]][node],
           r.agg[1] = "group" => \A ms \in Seq(Nodes) : Follows(n - 1, r.agg[3], ms, node),
           Stands[n][r][ns] \in StateTypes[n][r]
    PROVE  AddAll(feed, r, Stands[n][r][ns], vs) \in {Panic, Stands[n][r][Append(ns, node)]}
<1>1. PICK E, stands : E = Offered(r) /\ stands = Stands[n - 1]
  OBVIOUS
<1>2. r.agg[2] \in Extractor /\ TypeOfExploding(r.agg[2]) # TypeError /\ TypeOfExploding(r.agg[2]) \in Type
  BY RulingsIn, RuleAccepted, AggregatorTypeIs, TypeIs
<1>3. /\ vs \in Seq(E) /\ \A i \in 0 .. Len(vs) : Before(r, ns, vs, i) \in Seq(E)
      /\ Before(r, ns, vs, 0) = All(r, ns)
      /\ Before(r, ns, vs, Len(vs)) = All(r, Append(ns, node))
      /\ \A i \in 0 .. Len(vs) - 1 : Before(r, ns, vs, i + 1) = Append(Before(r, ns, vs, i), vs[i + 1])
      /\ Members(r, ns, node, vs, 0) = [k \in Text |-> Belonging(r, ns, k)]
      /\ Members(r, ns, node, vs, Len(vs)) = [k \in Text |-> Belonging(r, Append(ns, node), k)]
  <2>1. E = Offered(r)
    BY <1>1
  <2>2. vs \in Seq(E) /\ \A i \in 0 .. Len(vs) : Before(r, ns, vs, i) \in Seq(E)
    BY <1>2, <2>1, BeforeIs
  <2>3. Before(r, ns, vs, 0) = All(r, ns) /\ Before(r, ns, vs, Len(vs)) = All(r, Append(ns, node))
    BY <1>2, <2>1, BeforeIs
  <2>4. \A i \in 0 .. Len(vs) - 1 : Before(r, ns, vs, i + 1) = Append(Before(r, ns, vs, i), vs[i + 1])
    BY <1>2, <2>1, BeforeIs
  <2>5. /\ Members(r, ns, node, vs, 0) = [k \in Text |-> Belonging(r, ns, k)]
        /\ Members(r, ns, node, vs, Len(vs)) = [k \in Text |-> Belonging(r, Append(ns, node), k)]
    BY <1>2, <2>1, BeforeIs
  <2> QED
    BY <2>2, <2>3, <2>4, <2>5
<1>4. Append(ns, node) \in Seq(Nodes)
  BY AppendProperties
<1>14. Len(vs) \in Nat
  BY <1>3
<1>5. PICK more : more = Append(ns, node)
  OBVIOUS
<1>6. /\ Stands[n][r][ns] = Standing(stands, r, Before(r, ns, vs, 0), Members(r, ns, node, vs, 0))
      /\ Stands[n][r][more] = Standing(stands, r, Before(r, ns, vs, Len(vs)), Members(r, ns, node, vs, Len(vs)))
  <2>1. Stands[n][r][ns] = Standing(stands, r, All(r, ns), [k \in Text |-> Belonging(r, ns, k)])
    BY <1>1, StandsIs
  <2>2. Stands[n][r][more] = Standing(stands, r, All(r, more), [k \in Text |-> Belonging(r, more, k)])
    BY <1>1, <1>4, <1>5, StandsIs
  <2>3. All(r, ns) = Before(r, ns, vs, 0) /\ All(r, more) = Before(r, ns, vs, Len(vs))
    BY <1>3, <1>5
  <2>4. [k \in Text |-> Belonging(r, ns, k)] = Members(r, ns, node, vs, 0)
    BY <1>3
  <2>5. [k \in Text |-> Belonging(r, more, k)] = Members(r, ns, node, vs, Len(vs))
    BY <1>3, <1>5
  <2> QED
    BY <2>1, <2>2, <2>3, <2>4, <2>5
<1>7. PICK a : a = Stands[n][r][ns]
  OBVIOUS
<1>8. PICK f : Adds(f, feed, r, a, vs) /\ AddAll(feed, r, a, vs) = f[Len(vs)]
  BY <1>14, AddAllIs
<1>9. f[0] = a /\ \A i \in 1 .. Len(vs) : f[i] = AddTo(feed, r, f[i - 1], vs[i])
  BY <1>8 DEF Adds
<1> DEFINE So(i) == Standing(stands, r, Before(r, ns, vs, i), Members(r, ns, node, vs, i))
           T == {i \in 0 .. Len(vs) : f[i] = Panic \/ (f[i] = So(i) /\ f[i] \in StateTypes[n][r])}
<1>10. 0 \in T
  BY <1>14, <1>6, <1>7, <1>9
<1>11. ASSUME NEW i \in 0 .. Len(vs) - 1, i \in T PROVE i + 1 \in T
  <2>1. i \in 0 .. Len(vs) /\ i + 1 \in 1 .. Len(vs) /\ i + 1 \in 0 .. Len(vs) /\ (i + 1) - 1 = i
    <3> HIDE DEF T, So
    <3> QED
      BY <1>14
  <2>2. PICK v, x, next : v = vs[i + 1] /\ x = f[i] /\ next = f[i + 1]
    OBVIOUS
  <2>3. next = AddTo(feed, r, x, v)
    BY <1>9, <2>1, <2>2
  <2>4. v \in E
    BY <1>3, <2>1, <2>2
  <2>5. CASE x = Panic \/ v = Panic
    <3>1. next = Panic
      BY <2>3, <2>5, AddPanics
    <3> QED
      BY <2>1, <2>2, <3>1
  <2>6. CASE x # Panic /\ v # Panic /\ next = Panic
    BY <2>1, <2>2, <2>6
  <2>7. CASE x # Panic /\ v # Panic /\ next # Panic
    <3>1. PICK all, members, after : all = Before(r, ns, vs, i) /\ members = Members(r, ns, node, vs, i)
                                     /\ after = Members(r, ns, node, vs, i + 1)
      OBVIOUS
    <3>2. x = Standing(stands, r, all, members) /\ x \in StateTypes[n][r]
      BY <1>11, <2>2, <2>7, <3>1
    <3>3. all \in Seq(E) /\ Before(r, ns, vs, i + 1) = Append(all, v)
      BY <1>3, <2>1, <2>2, <3>1
    <3>4. r.agg[1] = "group" => GroupsFollow(n - 1, r.agg[3], stands, feed, all, members, after, v)
      BY <1>1, <2>2, <3>1, GroupsStand
    <3>5. next = Standing(stands, r, Append(all, v), after)
      <4>1. Standing(stands, r, all, members) \in StateTypes[n][r]
        BY <3>2
      <4>2. AddTo(feed, r, Standing(stands, r, all, members), v) # Panic
        BY <2>3, <2>7, <3>2
      <4>3. /\ all \in Seq(Offered(r))
            /\ v \in Offered(r)
        <5>1. E = Offered(r)
          BY <1>1, Zenon
        <5>2. v \in Offered(r)
          BY <2>4, <5>1
        <5> QED
          BY <3>3, <5>1, <5>2
      <4>4. AddTo(feed, r, Standing(stands, r, all, members), v) = Standing(stands, r, Append(all, v), after)
        BY <3>4, <4>1, <4>2, <4>3, AddStands
      <4> QED
        BY <2>3, <3>2, <4>4
    <3>6. next \in StateTypes[n][r] \cup {Panic}
      <4>1. v \in Of(TypeOfExploding(r.agg[2]))
        BY <1>1, <2>4, <2>7 DEF Offered
      <4>2. r.agg[1] = "group" => \A y \in StateTypes[n - 1][r.agg[3]] : feed[y] \in StateTypes[n - 1][r.agg[3]] \cup {Panic}
        <5>1. SUFFICES ASSUME r.agg[1] = "group", NEW y \in StateTypes[n - 1][r.agg[3]]
                       PROVE  feed[y] \in StateTypes[n - 1][r.agg[3]] \cup {Panic}
          OBVIOUS
        <5>2. PICK q : q = r.agg[3]
          OBVIOUS
        <5>3. n - 1 \in 0 .. Nesting /\ q \in Rulings[n - 1] /\ RuleType[n - 1][q] # TypeError
          <6>1. n - 1 \in 1 .. Nesting /\ q \in Rulings[n - 1] /\ RuleType[n - 1][q] # TypeError
            BY <5>1, <5>2, GroupRule
          <6> QED
            BY <6>1, Levels
        <5>4. Answers(n - 1, q, node, Feeding[n - 1][q][node][y], StateTypes[n - 1][q])
          BY <5>1, <5>2, <5>3, FeedingSound
        <5> QED
          BY <5>2, <5>4 DEF Answers
      <4> QED
        BY <2>3, <3>2, <4>1, <4>2, AddTyped
    <3>7. f[i + 1] = So(i + 1) /\ f[i + 1] \in StateTypes[n][r]
      BY <2>2, <2>7, <3>1, <3>3, <3>5, <3>6
    <3> QED
      BY <2>1, <3>7
  <2> QED
    BY <2>5, <2>6, <2>7
<1>12. 0 .. Len(vs) \subseteq T
  <2> HIDE DEF T
  <2> QED
    BY <1>14, <1>10, <1>11, InductionUpTo
<1>13. f[Len(vs)] \in {Panic, So(Len(vs))}
  <2>1. Len(vs) \in 0 .. Len(vs)
    BY <1>14
  <2> QED
    BY <1>12, <2>1
<1> QED
  BY <1>5, <1>6, <1>7, <1>8, <1>13

(* Feeding an element leads from what stands for the elements before it to *)
(* what stands for all of them.                                            *)
LEMMA FeedStands ==
    \A n \in 0 .. Nesting : \A r \in Rulings[n] : RuleType[n][r] # TypeError =>
        \A ns \in Seq(Nodes), node \in Nodes : Follows(n, r, ns, node)
<1> DEFINE T == {n \in 0 .. Nesting : \A r \in Rulings[n] : RuleType[n][r] # TypeError =>
                    \A ns \in Seq(Nodes), node \in Nodes : Follows(n, r, ns, node)}
<1>1. 0 \in T
  BY Levels, RulingsAre
<1>2. ASSUME NEW n \in 1 .. Nesting, n - 1 \in T PROVE n \in T
  <2>1. ASSUME NEW r \in Rulings[n], RuleType[n][r] # TypeError, NEW ns \in Seq(Nodes), NEW node \in Nodes
        PROVE  Follows(n, r, ns, node)
    <3>1. PICK a, vs, feed, more : a = Stands[n][r][ns] /\ vs = ExtractExploding(r.agg[2], node)
                                   /\ feed = Feeding[n - 1][r.agg[3]][node] /\ more = Append(ns, node)
      OBVIOUS
    <3>2. SUFFICES ASSUME a \in StateTypes[n][r]
                   PROVE  Feeding[n][r][node][a] \in {Panic, Stands[n][r][more]}
      BY <3>1, Zenon DEF Follows
    <3>3. a \in States[n]
      BY <2>1, <3>2, StatesTyped, Levels
    <3>4. Feeding[n][r][node][a] = IF r.agg[1] = "count" THEN <<"count", a[2] + 1>>
                                   ELSE IF r.agg[1] = "first" /\ a[2] # Null THEN a
                                   ELSE AddAll(feed, r, a, vs)
      BY <3>1, <3>3, FeedingIs
    <3>5. more \in Seq(Nodes) /\ Len(more) = Len(ns) + 1 /\ Len(ns) \in Nat
      BY <3>1, Appended, AppendProperties
    <3>6. CASE r.agg[1] = "count"
      <4>1. a = <<"count", Len(ns)>>
        BY <3>1, <3>6, StandsIs
      <4>2. Stands[n][r][more] = <<"count", Len(ns) + 1>>
        BY <3>5, <3>6, StandsIs
      <4> QED
        BY <3>4, <3>6, <4>1, <4>2
    <3>7. CASE r.agg[1] = "first" /\ a[2] # Null
      <4>1. PICK E, all, both : E = Offered(r) /\ all = All(r, ns) /\ both = All(r, more)
        OBVIOUS
      <4>2. r.agg[2] \in Extractor /\ TypeOfExploding(r.agg[2]) # TypeError
        BY <2>1, <3>7, RulingsIn, RuleAccepted, AggregatorTypeIs, TypeIs
      <4>3. all \in Seq(E) /\ vs \in Seq(E) /\ both = Join(all, vs)
        BY <3>1, <4>1, <4>2, FoundAppend
      <4>4. a = <<"first", IF Given(all) = {} THEN Null ELSE all[First(Given(all))]>>
        <5>1. a = Standing(Stands[n - 1], r, all, [k \in Text |-> Belonging(r, ns, k)])
          BY <3>1, <3>7, <4>1, StandsIs
        <5> QED
          BY <3>7, <5>1, StandingIs
      <4>5. Stands[n][r][more] = <<"first", IF Given(both) = {} THEN Null ELSE both[First(Given(both))]>>
        <5>1. Stands[n][r][more] = Standing(Stands[n - 1], r, both, [k \in Text |-> Belonging(r, more, k)])
          BY <3>5, <3>7, <4>1, StandsIs
        <5> QED
          BY <3>7, <5>1, StandingIs
      <4>6. Given(all) # {}
        BY <3>7, <4>4
      <4>7. Given(both) # {} /\ both[First(Given(both))] = all[First(Given(all))]
        BY <4>3, <4>6, FirstJoin
      <4>8. Stands[n][r][more] = a
        BY <4>4, <4>5, <4>6, <4>7
      <4> QED
        BY <3>4, <3>7, <4>8
    <3>8. CASE r.agg[1] # "count" /\ ~(r.agg[1] = "first" /\ a[2] # Null)
      <4>1. r.agg[1] = "group" => \A ms \in Seq(Nodes) : Follows(n - 1, r.agg[3], ms, node)
        BY <1>2, <2>1, GroupRule
      <4>2. AddAll(feed, r, Stands[n][r][ns], vs) \in {Panic, Stands[n][r][Append(ns, node)]}
        BY <2>1, <3>1, <3>2, <3>8, <4>1, AllStand
      <4> QED
        BY <3>1, <3>4, <3>8, <4>2
    <3> QED
      BY <3>6, <3>7, <3>8
  <2> QED
    BY <2>1, Levels
<1>3. 0 .. Nesting \subseteq T
  <2> HIDE DEF T
  <2> QED
    BY <1>1, <1>2, ByLevel
<1> QED
  BY <1>3

-----------------------------------------------------------------------------
(* Result and Whole, case by case.                                         *)
Ended(end, q, x) == [k \in Text |-> IF x[k] = Absent THEN Absent ELSE end[q][x[k]]]

LEMMA ResultIs ==
    ASSUME NEW end, NEW r, NEW a
    PROVE  /\ r.agg[1] \in {"count", "count-not-null", "sum"} => Result(end, r, a) = Num(a[2])
           /\ r.agg[1] = "first" => Result(end, r, a) = a[2]
           /\ r.agg[1] = "collect" => Result(end, r, a) = Arr(a[2])
           /\ r.agg[1] = "distinct" => Result(end, r, a) = Arr(SetToSeq(a[2]))
           /\ r.agg[1] = "group" =>
                Result(end, r, a) = IF Panic \in Range(Ended(end, r.agg[3], a[2])) THEN Panic
                                    ELSE Obj(Ended(end, r.agg[3], a[2]))
<1> DEFINE kind == r.agg[1]
           whole == Result(end, r, a)
           groups == Ended(end, r.agg[3], a[2])
           num == Num(a[2])
           arr == Arr(a[2])
           set == Arr(SetToSeq(a[2]))
           obj == Obj(groups)
           bad == Panic \in Range(groups)
<1>1. whole = CASE kind \in {"count", "count-not-null", "sum"} -> num
                [] kind = "first" -> a[2]
                [] kind = "collect" -> arr
                [] kind = "distinct" -> set
                [] kind = "group" -> IF bad THEN Panic ELSE obj
  BY Zenon DEF Result, Ended
<1> HIDE DEF kind, whole, groups, num, arr, set, obj, bad
<1>2. /\ kind \in {"count", "count-not-null", "sum"} => whole = num
      /\ kind = "first" => whole = a[2]
      /\ kind = "collect" => whole = arr
      /\ kind = "distinct" => whole = set
      /\ kind = "group" => whole = IF bad THEN Panic ELSE obj
  BY <1>1
<1> QED
  BY <1>2, Zenon DEF kind, whole, groups, num, arr, set, obj, bad

Meant(meaning, r, ns) ==
    [k \in Text |-> IF Str(k) \in Range(All(r, ns)) THEN meaning[r.agg[3]][Belonging(r, ns, k)] ELSE Absent]

LEMMA WholeIs ==
    ASSUME NEW meaning, NEW r, NEW ns
    PROVE  /\ r.agg[1] = "count" => Whole(meaning, r, ns) = Num(Len(ns))
           /\ r.agg[1] = "count-not-null" => Whole(meaning, r, ns) = Num(Copies(All(r, ns), Yes))
           /\ r.agg[1] = "first" =>
                Whole(meaning, r, ns) = IF Given(All(r, ns)) = {} THEN Null ELSE All(r, ns)[First(Given(All(r, ns)))]
           /\ r.agg[1] = "collect" => Whole(meaning, r, ns) = Arr(All(r, ns))
           /\ r.agg[1] = "distinct" => Whole(meaning, r, ns) = Arr(SetToSeq(Range(All(r, ns))))
           /\ r.agg[1] = "sum" => Whole(meaning, r, ns) = Num(Total(All(r, ns)))
           /\ r.agg[1] = "group" => Whole(meaning, r, ns) = Obj(Meant(meaning, r, ns))
<1> DEFINE kind == r.agg[1]
           whole == Whole(meaning, r, ns)
           count == Num(Len(ns))
           copies == Num(Copies(All(r, ns), Yes))
           first == IF Given(All(r, ns)) = {} THEN Null ELSE All(r, ns)[First(Given(All(r, ns)))]
           arr == Arr(All(r, ns))
           set == Arr(SetToSeq(Range(All(r, ns))))
           sum == Num(Total(All(r, ns)))
           obj == Obj(Meant(meaning, r, ns))
<1>1. whole = CASE kind = "count" -> count
                [] kind = "count-not-null" -> copies
                [] kind = "first" -> first
                [] kind = "collect" -> arr
                [] kind = "distinct" -> set
                [] kind = "sum" -> sum
                [] kind = "group" -> obj
  BY Zenon DEF Whole, Yes, Given, All, Found, Total, Meant, Belonging, Joining, Times
<1> HIDE DEF kind, whole, count, copies, first, arr, set, sum, obj
<1>2. /\ kind = "count" => whole = count
      /\ kind = "count-not-null" => whole = copies
      /\ kind = "first" => whole = first
      /\ kind = "collect" => whole = arr
      /\ kind = "distinct" => whole = set
      /\ kind = "sum" => whole = sum
      /\ kind = "group" => whole = obj
  BY <1>1
<1> QED
  BY <1>2, Zenon DEF kind, whole, count, copies, first, arr, set, sum, obj

(* What a rule means, by the level below.                                  *)
LEMMA MeaningIs ==
    ASSUME NEW n \in 1 .. Nesting, NEW r \in Rulings[n], NEW ns \in Seq(Nodes)
    PROVE  Meanings[n][r][ns] = Eval(r.ts, Whole(Meanings[n - 1], r, ns))
<1>1. Meanings[n] = MeaningsOver(n, Meanings[n - 1])
  BY MeaningsAre
<1> DEFINE Outcome(q, ms) == Eval(q.ts, Whole(Meanings[n - 1], q, ms))
<1>2. Meanings[n] = [q \in Rulings[n] |-> [ms \in Seq(Nodes) |-> Outcome(q, ms)]]
  BY <1>1 DEF MeaningsOver
<1>3. Meanings[n][r][ns] = Outcome(r, ns)
  <2> HIDE DEF Outcome
  <2> QED
    BY <1>2
<1> QED
  BY <1>3

-----------------------------------------------------------------------------
(* What comes of a state that stands for ns: a panic, or the meaning of    *)
(* the rule on ns.                                                         *)
Concludes(n, r, ns) ==
    Stands[n][r][ns] \in StateTypes[n][r] =>
        Ending[n][r][Stands[n][r][ns]] \in {Panic, Meanings[n][r][ns]}

(* The map of groups, key by key.                                          *)
LEMMA EndedAt ==
    ASSUME NEW end, NEW q, NEW x, NEW k \in Text
    PROVE  /\ Ended(end, q, x)[k] = (IF x[k] = Absent THEN Absent ELSE end[q][x[k]])
           /\ Ended(end, q, x)[k] \in Range(Ended(end, q, x))
<1> DEFINE f == Ended(end, q, x)
<1>1. f = [y \in Text |-> IF x[y] = Absent THEN Absent ELSE end[q][x[y]]]
  BY Zenon DEF Ended
<1>2. DOMAIN f = Text
  BY <1>1, Zenon
<1>3. f[k] = IF x[k] = Absent THEN Absent ELSE end[q][x[k]]
  BY <1>1, Zenon
<1> HIDE DEF f
<1>4. f[k] \in Range(f)
  BY <1>2, Zenon DEF Range
<1> QED
  BY <1>3, <1>4, Zenon DEF f

(* The groups end as what they mean if each key does.                      *)
LEMMA MeantAt ==
    ASSUME NEW end, NEW q, NEW x, NEW meaning, NEW r, NEW ns,
           \A k \in Text : Ended(end, q, x)[k] =
               IF Str(k) \in Range(All(r, ns)) THEN meaning[r.agg[3]][Belonging(r, ns, k)] ELSE Absent
    PROVE  Ended(end, q, x) = Meant(meaning, r, ns)
<1> DEFINE f == Ended(end, q, x)
           g == Meant(meaning, r, ns)
           At(k) == IF Str(k) \in Range(All(r, ns)) THEN meaning[r.agg[3]][Belonging(r, ns, k)] ELSE Absent
<1>1. f = [k \in Text |-> IF x[k] = Absent THEN Absent ELSE end[q][x[k]]]
  BY Zenon DEF Ended
<1>2. f = [k \in Text |-> f[k]]
  BY <1>1, Zenon
<1>3. g = [k \in Text |-> At(k)]
  BY Zenon DEF Meant
<1>4. \A k \in Text : f[k] = At(k)
  OBVIOUS
<1> HIDE DEF f, g, At
<1>5. f = g
  BY <1>2, <1>3, <1>4
<1> QED
  BY <1>5 DEF f, g

(* One key of a group-by, with every name it depends on opaque.            *)
LEMMA KeyConcludes ==
    ASSUME NEW there, NEW a, NEW b, NEW c, NEW d,
           a = (IF there THEN b ELSE Absent),
           d = (IF a = Absent THEN Absent ELSE c),
           NEW m, there => b # Absent, there => c \in {Panic, m}, d # Panic
    PROVE  d = IF there THEN m ELSE Absent
OBVIOUS

(* A rule of groups ends as it should when the rule of its groups does.    *)
LEMMA GroupsConclude ==
    ASSUME NEW n \in 1 .. Nesting, NEW r \in Rulings[n], RuleType[n][r] # TypeError, r.agg[1] = "group",
           NEW ns \in Seq(Nodes), NEW x, x \in Maps(StateTypes[n - 1][r.agg[3]]),
           \A k \in Text : x[k] = IF Str(k) \in Range(All(r, ns))
                                   THEN Stands[n - 1][r.agg[3]][Belonging(r, ns, k)] ELSE Absent,
           \A ms \in Seq(Nodes) : Concludes(n - 1, r.agg[3], ms),
           Panic \notin Range(Ended(Ending[n - 1], r.agg[3], x))
    PROVE  Ended(Ending[n - 1], r.agg[3], x) = Meant(Meanings[n - 1], r, ns)
<1>1. n - 1 \in 1 .. Nesting /\ r.agg[3] \in Rulings[n - 1] /\ RuleType[n - 1][r.agg[3]] # TypeError
      /\ r.agg[2] \in Extractor /\ TypeOfExploding(r.agg[2]) # TypeError
  BY GroupRule, RulingsIn, TypeIs
<1>2. ASSUME NEW k \in Text
      PROVE  Ended(Ending[n - 1], r.agg[3], x)[k] =
                 IF Str(k) \in Range(All(r, ns)) THEN Meanings[n - 1][r.agg[3]][Belonging(r, ns, k)] ELSE Absent
  <2> DEFINE there == Str(k) \in Range(All(r, ns))
             ms == Belonging(r, ns, k)
             a == x[k]
             b == Stands[n - 1][r.agg[3]][ms]
             c == Ending[n - 1][r.agg[3]][a]
             d == Ended(Ending[n - 1], r.agg[3], x)[k]
             m == Meanings[n - 1][r.agg[3]][ms]
  <2>1. a = (IF there THEN b ELSE Absent)
    BY Zenon
  <2>2. /\ d = (IF a = Absent THEN Absent ELSE c)
        /\ d \in Range(Ended(Ending[n - 1], r.agg[3], x))
    <3>1. PICK end, q : end = Ending[n - 1] /\ q = r.agg[3]
      OBVIOUS
    <3>2. /\ Ended(end, q, x)[k] = (IF x[k] = Absent THEN Absent ELSE end[q][x[k]])
          /\ Ended(end, q, x)[k] \in Range(Ended(end, q, x))
      BY EndedAt
    <3> QED
      BY <3>1, <3>2
  <2>3. d # Panic
    BY <2>2, Zenon
  <2>4. ms \in Seq(Nodes)
    BY <1>1, BelongingTyped
  <2>5. there => b # Absent
    BY <1>1, <2>4, StandsThere
  <2>6. a \in StateTypes[n - 1][r.agg[3]] \cup {Absent}
    BY DEF Maps
  <2>7. b \in StateTypes[n - 1][r.agg[3]] => Ending[n - 1][r.agg[3]][b] \in {Panic, m}
    BY <2>4, Zenon DEF Concludes
  <2>8. there => a = b
    BY <2>1, Zenon
  <2>9. there => b \in StateTypes[n - 1][r.agg[3]]
    <3> HIDE DEF there, a, b
    <3> QED
      BY <2>5, <2>6, <2>8
  <2>10. there => c \in {Panic, m}
    BY <2>7, <2>8, <2>9, Zenon
  <2>11. d = IF there THEN m ELSE Absent
    <3> HIDE DEF there, ms, a, b, c, d, m
    <3> QED
      BY <2>1, <2>2, <2>3, <2>5, <2>10, KeyConcludes
  <2> QED
    BY <2>11, Zenon
<1>3. PICK end, q, meaning : end = Ending[n - 1] /\ q = r.agg[3] /\ meaning = Meanings[n - 1]
  OBVIOUS
<1>4. \A k \in Text : Ended(end, q, x)[k] =
          IF Str(k) \in Range(All(r, ns)) THEN meaning[r.agg[3]][Belonging(r, ns, k)] ELSE Absent
  BY <1>2, <1>3, Zenon
<1>5. Ended(end, q, x) = Meant(meaning, r, ns)
  BY <1>4, MeantAt
<1> QED
  BY <1>3, <1>5

(* Every rule does.                                                        *)
LEMMA EndStands ==
    \A n \in 0 .. Nesting : \A r \in Rulings[n] : RuleType[n][r] # TypeError =>
        \A ns \in Seq(Nodes) : Concludes(n, r, ns)
<1> DEFINE T == {n \in 0 .. Nesting : \A r \in Rulings[n] : RuleType[n][r] # TypeError =>
                    \A ns \in Seq(Nodes) : Concludes(n, r, ns)}
<1>1. 0 \in T
  BY Levels, RulingsAre
<1>2. ASSUME NEW n \in 1 .. Nesting, n - 1 \in T PROVE n \in T
  <2>1. ASSUME NEW r \in Rulings[n], RuleType[n][r] # TypeError, NEW ns \in Seq(Nodes)
        PROVE  Concludes(n, r, ns)
    <3>1. PICK a, all, members : a = Stands[n][r][ns] /\ all = All(r, ns) /\ members = [k \in Text |-> Belonging(r, ns, k)]
      OBVIOUS
    <3>2. SUFFICES ASSUME a \in StateTypes[n][r], Ending[n][r][a] # Panic
                   PROVE  Ending[n][r][a] = Meanings[n][r][ns]
      BY <3>1, Zenon DEF Concludes
    <3>3. a \in States[n]
      BY <2>1, <3>2, StatesTyped, Levels
    <3>4. PICK result, whole : result = Result(Ending[n - 1], r, a) /\ whole = Whole(Meanings[n - 1], r, ns)
      OBVIOUS
    <3>5. Ending[n][r][a] = Eval(r.ts, result) /\ Meanings[n][r][ns] = Eval(r.ts, whole)
      BY <3>3, <3>4, EndingIs, MeaningIs
    <3>6. r.agg[1] \in Aggregators /\ r.ts \in Expression
      BY RulingsIn
    <3>7. result # Panic
      <4>1. Eval(r.ts, Panic) = Panic
        BY <3>6, ExpressionsSound
      <4> QED
        BY <3>2, <3>5, <4>1
    <3>8. a # Panic
      BY <3>2, StateKinds
    <3>9. r.agg[1] = "count" => a = <<"count", Len(ns)>>
      BY <3>1, StandsIs
    <3>10. PICK stands : stands = Stands[n - 1]
      OBVIOUS
    <3>11. r.agg[1] # "count" => a = Standing(stands, r, all, members)
      BY <3>1, <3>10, StandsIs
    <3>12. r.agg[1] = "first" => a = <<"first", IF Given(all) = {} THEN Null ELSE all[First(Given(all))]>>
      BY <3>11, StandingIs
    <3>13. r.agg[1] \notin {"count", "first"} => Panic \notin Range(all)
      BY <3>8, <3>11, StandingIs
    <3>14. /\ r.agg[1] = "count-not-null" => a = <<"count-not-null", Copies(all, Yes)>>
           /\ r.agg[1] = "collect" => a = <<"collect", all>>
           /\ r.agg[1] = "distinct" => a = <<"distinct", Range(all)>>
           /\ r.agg[1] = "sum" => a = <<"sum", Total(all)>>
           /\ r.agg[1] = "group" =>
                a = <<"group", [k \in Text |-> IF Str(k) \in Range(all) THEN stands[r.agg[3]][members[k]] ELSE Absent]>>
      BY <3>11, <3>13, StandingIs
    <3>15. result = whole
      <4>1. CASE r.agg[1] = "count"
        <5>1. result = Num(a[2]) /\ whole = Num(Len(ns))
          BY <3>4, <4>1, ResultIs, WholeIs
        <5> QED
          BY <3>9, <4>1, <5>1
      <4>2. CASE r.agg[1] = "count-not-null"
        <5>1. result = Num(a[2]) /\ whole = Num(Copies(all, Yes))
          BY <3>1, <3>4, <4>2, ResultIs, WholeIs
        <5> QED
          BY <3>14, <4>2, <5>1
      <4>3. CASE r.agg[1] = "first"
        <5>1. result = a[2]
          BY <3>4, <4>3, ResultIs
        <5>2. whole = IF Given(all) = {} THEN Null ELSE all[First(Given(all))]
          BY <3>1, <3>4, <4>3, WholeIs
        <5>3. a[2] = IF Given(all) = {} THEN Null ELSE all[First(Given(all))]
          BY <3>12, <4>3
        <5> QED
          BY <5>1, <5>2, <5>3
      <4>4. CASE r.agg[1] = "collect"
        <5>1. result = Arr(a[2]) /\ whole = Arr(all)
          BY <3>1, <3>4, <4>4, ResultIs, WholeIs
        <5> QED
          BY <3>14, <4>4, <5>1
      <4>5. CASE r.agg[1] = "distinct"
        <5>1. result = Arr(SetToSeq(a[2])) /\ whole = Arr(SetToSeq(Range(all)))
          BY <3>1, <3>4, <4>5, ResultIs, WholeIs
        <5> QED
          BY <3>14, <4>5, <5>1
      <4>6. CASE r.agg[1] = "sum"
        <5>1. result = Num(a[2]) /\ whole = Num(Total(all))
          BY <3>1, <3>4, <4>6, ResultIs, WholeIs
        <5> QED
          BY <3>14, <4>6, <5>1
      <4>7. CASE r.agg[1] = "group"
        <5>1. PICK x, ended : x = a[2] /\ ended = Ended(Ending[n - 1], r.agg[3], x)
          OBVIOUS
        <5>2. result = Obj(ended) /\ Panic \notin Range(ended)
          <6>1. result = IF Panic \in Range(ended) THEN Panic ELSE Obj(ended)
            BY <3>4, <4>7, <5>1, ResultIs
          <6> QED
            BY <3>7, <6>1
        <5>3. whole = Obj(Meant(Meanings[n - 1], r, ns))
          BY <3>4, <4>7, WholeIs
        <5>4. x \in Maps(StateTypes[n - 1][r.agg[3]])
          <6>1. StateTypes[n][r] = {r.agg[1]} \X Maps(StateTypes[n - 1][r.agg[3]])
            BY <4>7, StateTypesIs
          <6> QED
            BY <3>2, <5>1, <6>1
        <5>5. \A k \in Text : x[k] = IF Str(k) \in Range(All(r, ns))
                                     THEN Stands[n - 1][r.agg[3]][Belonging(r, ns, k)] ELSE Absent
          <6>1. x = [k \in Text |-> IF Str(k) \in Range(all) THEN stands[r.agg[3]][members[k]] ELSE Absent]
            BY <3>14, <4>7, <5>1
          <6> QED
            BY <3>1, <3>10, <6>1
        <5>6. \A ms \in Seq(Nodes) : Concludes(n - 1, r.agg[3], ms)
          BY <1>2, <2>1, <4>7, GroupRule
        <5>7. ended = Meant(Meanings[n - 1], r, ns)
          BY <2>1, <4>7, <5>1, <5>2, <5>4, <5>5, <5>6, GroupsConclude
        <5> QED
          BY <5>2, <5>3, <5>7
      <4> QED
        BY <3>6, <4>1, <4>2, <4>3, <4>4, <4>5, <4>6, <4>7 DEF Aggregators
    <3> QED
      BY <3>5, <3>15
  <2> QED
    BY <2>1, Levels
<1>3. 0 .. Nesting \subseteq T
  <2> HIDE DEF T
  <2> QED
    BY <1>1, <1>2, ByLevel
<1> QED
  BY <1>3

-----------------------------------------------------------------------------
(* The state stands for the elements so far.                               *)
Meaningful ==
    /\ Invariant
    /\ phase \in {"feed", "done"} => state = Stands[Nesting][rule][fed]
    /\ AggregatesMeanIt

(* Every step keeps it.                                                    *)
LEMMA MeaningfulStays == Meaningful /\ Invariant' /\ [Next]_vars => Meaningful'
<1> SUFFICES ASSUME Meaningful, Invariant', [Next]_vars PROVE Meaningful'
  OBVIOUS
<1>0. Nesting \in 1 .. Nesting /\ Nesting \in 0 .. Nesting
  BY Deep
<1>1. CASE Load
  <2>1. /\ rule' = rule /\ state' = state /\ fed' = fed
        /\ phase = "load" /\ phase' \in {"rejected", "feed"}
    BY <1>1 DEF Load
  <2>2. state = Fresh(rule.agg[1]) /\ fed = << >> /\ rule \in Rulings[Nesting]
    BY <2>1 DEF Meaningful, Invariant, WellTyped, Ruling
  <2>3. Stands[Nesting][rule][fed] = state
    BY <1>0, <2>2, FreshStands
  <2> QED
    BY <2>1, <2>3 DEF Meaningful, AggregatesMeanIt
<1>2. ASSUME NEW node \in Nodes, Feed(node) PROVE Meaningful'
  <2>1. /\ rule' = rule /\ phase = "feed" /\ fed' = Append(fed, node)
        /\ state' = Aggregate(rule, state, node)
        /\ phase' = IF state' = Panic THEN "panicked" ELSE "feed"
    BY <1>2 DEF Feed
  <2>2. /\ rule \in Rulings[Nesting] /\ TypeOfRule(rule) # TypeError
        /\ state \in StateTypes[Nesting][rule] /\ fed \in Seq(Nodes)
        /\ state = Stands[Nesting][rule][fed]
    BY <2>1 DEF Meaningful, Invariant, WellTyped, Ruling
  <2>3. Follows(Nesting, rule, fed, node)
    BY <1>0, <2>2, FeedStands DEF TypeOfRule
  <2>4. state' \in {Panic, Stands[Nesting][rule][Append(fed, node)]}
    BY <2>1, <2>2, <2>3 DEF Follows, Aggregate
  <2> QED
    BY <2>1, <2>4 DEF Meaningful, AggregatesMeanIt
<1>3. CASE End
  <2>1. /\ rule' = rule /\ state' = state /\ fed' = fed /\ phase = "feed"
        /\ value' = Finalize(rule, state)
        /\ phase' = IF value' = Panic THEN "panicked" ELSE "done"
    BY <1>3 DEF End
  <2>2. /\ rule \in Rulings[Nesting] /\ TypeOfRule(rule) # TypeError
        /\ state \in StateTypes[Nesting][rule] /\ fed \in Seq(Nodes)
        /\ state = Stands[Nesting][rule][fed]
    BY <2>1 DEF Meaningful, Invariant, WellTyped, Ruling
  <2>3. Concludes(Nesting, rule, fed)
    BY <1>0, <2>2, EndStands DEF TypeOfRule
  <2>4. value' \in {Panic, Meaning(rule, fed)}
    BY <2>1, <2>2, <2>3 DEF Concludes, Finalize, Meaning
  <2>5. phase' = "done" => value' = Meaning(rule', fed')
    BY <2>1, <2>4
  <2> QED
    BY <2>1, <2>2, <2>5 DEF Meaningful, AggregatesMeanIt
<1>4. CASE UNCHANGED vars
  BY <1>4 DEF vars, Meaningful, AggregatesMeanIt
<1> QED
  BY <1>1, <1>2, <1>3, <1>4 DEF Next

(* What a rule answers is the meaning of its aggregator, on all that its   *)
(* extractor found in the elements fed to it, in their order               *)
(* (Rules.AggregatesMeanIt).                                               *)
THEOREM RulesMeanIt == Spec => []AggregatesMeanIt
<1>1. Init => Meaningful
  BY InvariantStarts DEF Init, Meaningful, AggregatesMeanIt
<1>2. Meaningful /\ [Next]_vars => Meaningful'
  BY InvariantStays, MeaningfulStays DEF Meaningful
<1>3. Meaningful => AggregatesMeanIt
  BY DEF Meaningful
<1> QED
  BY <1>1, <1>2, <1>3, PTL DEF Spec

-----------------------------------------------------------------------------
(* The pairs of R that a sort leaves as they are.                          *)
AtMost(R) == {p \in R \X R : Compare(p[1], p[2]) # "greater"}

(* The number by which cmp_json goes, for values of a kind.                *)
Rank(v) ==
    CASE Kind(v) = "bool" -> IF v[2] THEN 1 ELSE 0
      [] Kind(v) = "number" -> v[2]
      [] Kind(v) = "string" -> Place(v[2])
      [] OTHER -> 0

(* Two values that compare, or are the same one map.                       *)
Alike(u, v) == Kind(u) = Kind(v) /\ (Kind(u) \in {"bool", "number", "string"} \/ u = v)

(* The values of the three plain kinds.                                    *)
LEMMA PlainValues ==
    ASSUME NEW v \in Value
    PROVE  /\ Kind(v) = "bool" => v = <<"bool", v[2]>> /\ v[2] \in BOOLEAN
           /\ Kind(v) = "number" => v = <<"number", v[2]>> /\ v[2] \in Int
           /\ Kind(v) = "string" => v = <<"string", v[2]>> /\ v[2] \in Text
<1>1. Value = {Null} \cup {Bool(b) : b \in BOOLEAN} \cup ({"number"} \X Int) \cup ({"string"} \X Text)
                \cup ({"array"} \X Seq(Json[Nesting - 1])) \cup ({"map"} \X Maps(Json[Nesting - 1]))
  BY JsonIn, Deep DEF Value
<1>2. Kind(v) = "bool" => v \in {Bool(TRUE), Bool(FALSE)}
  BY ValueIs
<1>3. Kind(v) = "bool" => v = <<"bool", v[2]>> /\ v[2] \in BOOLEAN
  <2> SUFFICES ASSUME Kind(v) = "bool" PROVE v = <<"bool", v[2]>> /\ v[2] \in BOOLEAN
    OBVIOUS
  <2>1. v = Bool(TRUE) \/ v = Bool(FALSE)
    BY <1>2, Zenon
  <2>2. \E b \in BOOLEAN : v = Bool(b)
    BY <2>1, Zenon
  <2>3. PICK b \in BOOLEAN : v = Bool(b)
    BY <2>2
  <2>4. v = <<"bool", b>>
    BY <2>3 DEF Bool
  <2>5. v[2] = b
    BY <2>4
  <2> QED
    BY <2>4, <2>5
<1>4. \A w \in {Null} \cup {Bool(b) : b \in BOOLEAN} : Kind(w) \in {"null", "bool"}
  BY DEF Null, Bool, Kind
<1>5. \A w \in ({"array"} \X Seq(Json[Nesting - 1])) \cup ({"map"} \X Maps(Json[Nesting - 1])) :
        Kind(w) \in {"array", "map"}
  BY DEF Kind
<1>6. \A w \in {"number"} \X Int : Kind(w) = "number" /\ w = <<"number", w[2]>> /\ w[2] \in Int
  BY DEF Kind
<1>7. \A w \in {"string"} \X Text : Kind(w) = "string" /\ w = <<"string", w[2]>> /\ w[2] \in Text
  BY DEF Kind
<1> QED
  BY <1>1, <1>3, <1>4, <1>5, <1>6, <1>7

(* Comparison of any two values.                                           *)
LEMMA CompareIs ==
    ASSUME NEW u \in Value, NEW v \in Value
    PROVE  /\ Null \in {u, v} => Compare(u, v) = CompareNulls(u, v)
           /\ Null \notin {u, v} /\ (Kind(u) # Kind(v) \/ Kind(u) = "map") => Compare(u, v) = "panic"
           /\ Kind(u) = "bool" /\ Kind(v) = "bool" => Compare(u, v) = Ordering(~ u[2] /\ v[2], u[2] = v[2])
           /\ Kind(u) = "number" /\ Kind(v) = "number" => Compare(u, v) = Ordering(u[2] < v[2], u[2] = v[2])
           /\ Kind(u) = "string" /\ Kind(v) = "string" =>
                Compare(u, v) = Ordering(Place(u[2]) < Place(v[2]), u[2] = v[2])
<1>1. Nesting \in 1 .. Nesting /\ u \in Json[Nesting] /\ v \in Json[Nesting]
  BY Deep DEF Value
<1>2. Kind(Null) = "null"
  BY DEF Kind, Null
<1>3. Compare(u, v) =
                IF Null \in {u, v} THEN CompareNulls(u, v)
                ELSE IF Kind(u) # Kind(v) \/ Kind(u) = "map" THEN "panic"
                ELSE CASE Kind(u) = "bool" -> Ordering(~ u[2] /\ v[2], u[2] = v[2])
                       [] Kind(u) = "number" -> Ordering(u[2] < v[2], u[2] = v[2])
                       [] Kind(u) = "string" -> Ordering(Place(u[2]) < Place(v[2]), u[2] = v[2])
                       [] Kind(u) = "array" -> CompareArrays(Comparison[Nesting - 1], u[2], v[2])
  BY <1>1, ComparisonIs DEF Compare
<1>4. Null \in {u, v} => Compare(u, v) = CompareNulls(u, v)
  BY <1>3
<1>5. Null \notin {u, v} /\ (Kind(u) # Kind(v) \/ Kind(u) = "map") => Compare(u, v) = "panic"
  BY <1>3
<1>6. Kind(u) = "bool" /\ Kind(v) = "bool" => Compare(u, v) = Ordering(~ u[2] /\ v[2], u[2] = v[2])
  BY <1>2, <1>3
<1>7. Kind(u) = "number" /\ Kind(v) = "number" => Compare(u, v) = Ordering(u[2] < v[2], u[2] = v[2])
  BY <1>2, <1>3
<1>8. Kind(u) = "string" /\ Kind(v) = "string" =>
                Compare(u, v) = Ordering(Place(u[2]) < Place(v[2]), u[2] = v[2])
  BY <1>2, <1>3
<1> QED
  BY <1>4, <1>5, <1>6, <1>7, <1>8

(* Nulls come first, and nothing but null compares equal to it.            *)
LEMMA NullsFirst ==
    ASSUME NEW u \in Value, NEW v \in Value, Null \in {u, v}
    PROVE  Compare(u, v) # "greater" <=> u = Null
<1>1. Compare(u, v) = CompareNulls(u, v)
  BY CompareIs
<1> QED
  BY <1>1 DEF CompareNulls

(* Values of a kind are in the order of their ranks, which tell them       *)
(* apart.                                                                  *)
LEMMA RanksCompare ==
    ASSUME NEW u \in Value, NEW v \in Value, u # Null, v # Null, Alike(u, v), Kind(u) # "array"
    PROVE  /\ Rank(u) \in Int /\ Rank(v) \in Int
           /\ Compare(u, v) # "greater" <=> Rank(u) <= Rank(v)
           /\ Rank(u) = Rank(v) => u = v
<1>1. \A p, q : Ordering(p, q) # "greater" <=> p \/ q
  BY DEF Ordering
<1>2. CASE Kind(u) = "bool"
  <2>1. Kind(v) = "bool"
    BY <1>2 DEF Alike
  <2>2. u = <<"bool", u[2]>> /\ v = <<"bool", v[2]>> /\ u[2] \in BOOLEAN /\ v[2] \in BOOLEAN
    BY <1>2, <2>1, PlainValues
  <2>3. Rank(u) = (IF u[2] THEN 1 ELSE 0) /\ Rank(v) = (IF v[2] THEN 1 ELSE 0)
    BY <1>2, <2>1 DEF Rank
  <2>4. Compare(u, v) # "greater" <=> (~ u[2] /\ v[2]) \/ u[2] = v[2]
    <3>1. Compare(u, v) = Ordering(~ u[2] /\ v[2], u[2] = v[2])
      BY <1>2, <2>1, CompareIs, Zenon
    <3> QED
      BY <1>1, <3>1, Zenon
  <2>5. PICK x \in BOOLEAN, y \in BOOLEAN : x = u[2] /\ y = v[2]
    BY <2>2
  <2>6. /\ Compare(u, v) # "greater" <=> (~ x /\ y) \/ x = y
        /\ Rank(u) = (IF x THEN 1 ELSE 0) /\ Rank(v) = (IF y THEN 1 ELSE 0)
    BY <2>3, <2>4, <2>5
  <2>7. Rank(u) \in Int /\ Rank(v) \in Int
    BY <2>6
  <2>8. Compare(u, v) # "greater" <=> Rank(u) <= Rank(v)
    BY <2>6
  <2>9. Rank(u) = Rank(v) => x = y
    BY <2>6
  <2> QED
    BY <2>2, <2>5, <2>7, <2>8, <2>9
<1>3. CASE Kind(u) = "number"
  <2>1. Kind(v) = "number"
    BY <1>3 DEF Alike
  <2>2. u = <<"number", u[2]>> /\ v = <<"number", v[2]>> /\ u[2] \in Int /\ v[2] \in Int
    BY <1>3, <2>1, PlainValues
  <2>3. Rank(u) = u[2] /\ Rank(v) = v[2]
    BY <1>3, <2>1 DEF Rank
  <2>4. Compare(u, v) # "greater" <=> u[2] < v[2] \/ u[2] = v[2]
    <3>1. Compare(u, v) = Ordering(u[2] < v[2], u[2] = v[2])
      BY <1>3, <2>1, CompareIs, Zenon
    <3> QED
      BY <3>1 DEF Ordering
  <2> QED
    BY <2>2, <2>3, <2>4
<1>4. CASE Kind(u) = "string"
  <2>1. Kind(v) = "string"
    BY <1>4 DEF Alike
  <2>2. u = <<"string", u[2]>> /\ v = <<"string", v[2]>> /\ u[2] \in Text /\ v[2] \in Text
    BY <1>4, <2>1, PlainValues
  <2>3. Rank(u) = Place(u[2]) /\ Rank(v) = Place(v[2])
    BY <1>4, <2>1 DEF Rank
  <2>4. Compare(u, v) # "greater" <=> Place(u[2]) < Place(v[2]) \/ u[2] = v[2]
    <3>1. Compare(u, v) = Ordering(Place(u[2]) < Place(v[2]), u[2] = v[2])
      BY <1>4, <2>1, CompareIs, Zenon
    <3> QED
      BY <3>1 DEF Ordering
  <2>5. /\ Place(u[2]) \in Int /\ Texts[Place(u[2])] = u[2]
        /\ Place(v[2]) \in Int /\ Texts[Place(v[2])] = v[2]
    BY <2>2, TextsAre
  <2>6. Place(u[2]) = Place(v[2]) => u[2] = v[2]
    BY <2>5
  <2> QED
    BY <2>2, <2>3, <2>4, <2>5, <2>6
<1>5. CASE Kind(u) \notin {"bool", "number", "string"}
  <2>1. u = v /\ Kind(u) = "map"
    BY <1>5, ValueIs DEF Alike
  <2>2. Compare(u, v) = "panic"
    BY <2>1, CompareIs
  <2>3. Rank(u) = 0 /\ Rank(v) = 0
    BY <2>1 DEF Rank
  <2> QED
    BY <2>1, <2>2, <2>3
<1> QED
  BY <1>2, <1>3, <1>4, <1>5

(* So values without arrays that are alike are in order, in one order      *)
(* only.                                                                   *)
LEMMA AlikeOrder ==
    ASSUME NEW R \in SUBSET Value, \A v \in R : Kind(v) # "array",
           \A u, v \in R : Null \in {u, v} \/ Alike(u, v)
    PROVE  Linear(R, AtMost(R))
<1>1. PICK le : le = AtMost(R)
  OBVIOUS
<1>2. \A u, v \in R : <<u, v>> \in le <=> Compare(u, v) # "greater"
  BY <1>1 DEF AtMost
<1>3. \A u, v \in R : Null \in {u, v} => (<<u, v>> \in le <=> u = Null)
  BY <1>2, NullsFirst
<1>4. \A u, v \in R : Null \notin {u, v} =>
        /\ Rank(u) \in Int /\ Rank(v) \in Int
        /\ <<u, v>> \in le <=> Rank(u) <= Rank(v)
        /\ Rank(u) = Rank(v) => u = v
  <2> SUFFICES ASSUME NEW u \in R, NEW v \in R, Null \notin {u, v}
               PROVE  /\ Rank(u) \in Int /\ Rank(v) \in Int
                      /\ <<u, v>> \in le <=> Rank(u) <= Rank(v)
                      /\ Rank(u) = Rank(v) => u = v
    OBVIOUS
  <2>1. /\ Rank(u) \in Int /\ Rank(v) \in Int
        /\ Compare(u, v) # "greater" <=> Rank(u) <= Rank(v)
        /\ Rank(u) = Rank(v) => u = v
    BY RanksCompare
  <2> QED
    BY <1>2, <2>1
<1>5. \A u, v \in R : <<u, v>> \in le \/ <<v, u>> \in le
  <2> DEFINE Le(x, y) == <<x, y>> \in le
  <2> HIDE DEF Le
  <2> SUFFICES ASSUME NEW u \in R, NEW v \in R PROVE Le(u, v) \/ Le(v, u)
    BY Zenon DEF Le
  <2> USE DEF Le
  <2>1. CASE u = Null
    BY <1>3, <2>1
  <2>2. CASE v = Null
    BY <1>3, <2>2
  <2>3. CASE Null \notin {u, v}
    <3>1. /\ Rank(u) \in Int /\ Rank(v) \in Int
          /\ <<u, v>> \in le <=> Rank(u) <= Rank(v)
      BY <1>4, <2>3
    <3>2. <<v, u>> \in le <=> Rank(v) <= Rank(u)
      BY <1>4, <2>3
    <3> QED
      BY <3>1, <3>2
  <2> QED
    BY <2>1, <2>2, <2>3
<1>6. \A u, v, w \in R : <<u, v>> \in le /\ <<v, w>> \in le => <<u, w>> \in le
  <2> SUFFICES ASSUME NEW u \in R, NEW v \in R, NEW w \in R, <<u, v>> \in le, <<v, w>> \in le
               PROVE  <<u, w>> \in le
    OBVIOUS
  <2>1. CASE u = Null
    BY <1>3, <2>1
  <2>2. CASE u # Null
    <3>1. v # Null /\ w # Null
      BY <1>3, <2>2
    <3> QED
      BY <1>4, <2>2, <3>1
  <2> QED
    BY <2>1, <2>2
<1>7. \A u, v \in R : <<u, v>> \in le /\ <<v, u>> \in le => u = v
  BY <1>3, <1>4
<1> QED
  BY <1>1, <1>5, <1>6, <1>7 DEF Ordered, Linear

(* What a sort can sort without a panic is alike.                          *)
LEMMA ComparableAlike ==
    ASSUME NEW xs \in Seq(Value), Comparable(xs, xs), NEW i \in DOMAIN xs, NEW j \in DOMAIN xs
    PROVE  Null \in {xs[i], xs[j]} \/ Kind(xs[i]) = "array" \/ Alike(xs[i], xs[j])
<1>1. xs[i] \in Value /\ xs[j] \in Value
  OBVIOUS
<1>2. CASE i = j
  BY <1>2 DEF Alike
<1>3. ASSUME NEW k \in DOMAIN xs, NEW l \in DOMAIN xs, k < l, Null \notin {xs[k], xs[l]}
      PROVE  Kind(xs[k]) = Kind(xs[l]) /\ Kind(xs[k]) # "map"
  <2>1. Compare(xs[k], xs[l]) # "panic"
    BY <1>3 DEF Comparable
  <2>2. xs[k] \in Value /\ xs[l] \in Value
    OBVIOUS
  <2> QED
    BY <1>3, <2>1, <2>2, CompareIs
<1>4. i < j \/ j < i \/ i = j
  OBVIOUS
<1>5. CASE i # j
  <2> SUFFICES ASSUME Null \notin {xs[i], xs[j]}, Kind(xs[i]) # "array" PROVE Alike(xs[i], xs[j])
    OBVIOUS
  <2>1. Kind(xs[i]) = Kind(xs[j]) /\ Kind(xs[i]) # "map"
    BY <1>3, <1>4, <1>5
  <2> QED
    BY <1>1, <2>1, ValueIs DEF Alike
<1> QED
  BY <1>2, <1>5

-----------------------------------------------------------------------------
(* The places of a sequence, and its pairs in order.                       *)
LEMMA PlacesAre == ASSUME NEW S, NEW s \in Seq(S) PROVE \E m \in Nat : DOMAIN s = 1 .. m
  OBVIOUS

(* Sorting once: every value as often as before, nulls first, and what     *)
(* comes out is in order.                                                  *)
LEMMA SortIs ==
    ASSUME NEW xs \in Seq(Value), \A i \in DOMAIN xs : Kind(xs[i]) # "array", Sorted(xs, xs) # Panic
    PROVE  \E ys \in Seq(Value), q \in Bijection(DOMAIN xs, DOMAIN xs) :
              /\ Sorted(xs, xs) = Arr(ys)
              /\ DOMAIN ys = DOMAIN xs
              /\ \A i \in DOMAIN xs : ys[i] = xs[q[i]]
              /\ Comparable(xs, xs)
              /\ \A i, j \in DOMAIN xs : i < j => Compare(ys[i], ys[j]) # "greater"
<1> DEFINE D == DOMAIN xs
           R == {xs[i] : i \in D}
<1>1. Comparable(xs, xs)
  BY SortedIs
<1>2. PICK q \in Bijection(D, D) :
        /\ Sorted(xs, xs) = Rearranged(xs, q)
        /\ (\E p \in Bijection(D, D) : InOrder(xs, p)) => InOrder(xs, q)
  BY <1>1, SortedIs
<1>3. Ordered(R, AtMost(R))
  <2>1. R \in SUBSET Value
    OBVIOUS
  <2>2. \A v \in R : Kind(v) # "array"
    OBVIOUS
  <2>3. \A u, v \in R : Null \in {u, v} \/ Alike(u, v)
    BY <1>1, ComparableAlike
  <2> HIDE DEF R
  <2> QED
    BY <2>1, <2>2, <2>3, AlikeOrder DEF Linear
<1>4. PICK m \in Nat : D = 1 .. m
  BY PlacesAre
<1>5. \A i \in 1 .. m : xs[i] \in R
  BY <1>4
<1>6. PICK p \in Bijection(1 .. m, 1 .. m) :
        \A i, j \in 1 .. m : i < j => <<xs[p[i]], xs[p[j]]>> \in AtMost(R)
  <2> HIDE DEF R
  <2> QED
    BY <1>3, <1>5, SortExists
<1>7. p \in Bijection(D, D) /\ DOMAIN p = D
  BY <1>4, <1>6 DEF Bijection, Injection
<1>8. InOrder(xs, p)
  <2> SUFFICES ASSUME NEW i \in D, NEW j \in D, i < j PROVE Compare(xs[p[i]], xs[p[j]]) # "greater"
    BY <1>7 DEF InOrder
  <2>1. <<xs[p[i]], xs[p[j]]>> \in AtMost(R)
    BY <1>4, <1>6
  <2> QED
    BY <2>1 DEF AtMost
<1>9. InOrder(xs, q)
  BY <1>2, <1>7, <1>8
<1>10. PICK ys \in Seq(Value) : Rearranged(xs, q) = Arr(ys) /\ ys = [i \in D |-> xs[q[i]]]
  BY <1>2, RearrangedTyped
<1>11. DOMAIN ys = D /\ \A i \in D : ys[i] = xs[q[i]]
  BY <1>10
<1>12. DOMAIN q = D
  BY <1>2 DEF Bijection, Injection
<1>13. \A i, j \in D : i < j => Compare(ys[i], ys[j]) # "greater"
  BY <1>9, <1>11, <1>12 DEF InOrder
<1> QED
  BY <1>1, <1>2, <1>10, <1>11, <1>13

(* Sorted values are as many.                                              *)
LEMMA SortCopies ==
    ASSUME NEW xs \in Seq(Value), NEW ys \in Seq(Value), NEW q \in Bijection(DOMAIN xs, DOMAIN xs),
           DOMAIN ys = DOMAIN xs, \A i \in DOMAIN xs : ys[i] = xs[q[i]], NEW v
    PROVE  Copies(ys, v) = Copies(xs, v)
<1>1. PICK D : D = DOMAIN xs
  OBVIOUS
<1>2. PICK A : A = {i \in D : xs[i] = v}
  OBVIOUS
<1>3. PICK B : B = {i \in D : ys[i] = v}
  OBVIOUS
<1>4. IsFiniteSet(D)
  <2>1. PICK m \in Nat : D = 1 .. m
    BY <1>1, PlacesAre
  <2> QED
    BY <2>1, FS_Interval
<1>5. q \in Bijection(D, D) /\ \A k \in D : q[k] \in D
  BY <1>1 DEF Bijection, Injection
<1>6. A \in SUBSET D /\ B \in SUBSET D /\ \A k \in D : k \in B <=> q[k] \in A
  BY <1>1, <1>2, <1>3, <1>5
<1>7. Cardinality(B) = Cardinality(A)
  BY <1>4, <1>5, <1>6, Recounted
<1> QED
  BY <1>1, <1>2, <1>3, <1>7 DEF Copies

(* Panics of a comparison do not depend on which value comes first.        *)
LEMMA SafeBothWays ==
    ASSUME NEW u \in Value, NEW v \in Value, Compare(u, v) # "panic"
    PROVE  Null \in {u, v} \/ Kind(u) = "array" \/ Compare(v, u) # "panic"
<1> SUFFICES ASSUME Null \notin {u, v}, Kind(u) # "array" PROVE Compare(v, u) # "panic"
  OBVIOUS
<1>1. Kind(u) = Kind(v) /\ Kind(u) # "map"
  BY CompareIs
<1>2. Kind(u) \in {"bool", "number", "string"}
  BY <1>1, ValueIs
<1>3. \A p, q : Ordering(p, q) # "panic"
  BY DEF Ordering
<1>4. CASE Kind(u) = "bool"
  <2>1. Kind(v) = "bool"
    BY <1>1, <1>4
  <2>2. Compare(v, u) = Ordering(~ v[2] /\ u[2], v[2] = u[2])
    BY <1>4, <2>1, CompareIs, Zenon
  <2> QED
    BY <1>3, <2>2, Zenon
<1>5. CASE Kind(u) = "number"
  <2>1. Kind(v) = "number"
    BY <1>1, <1>5
  <2>2. Compare(v, u) = Ordering(v[2] < u[2], v[2] = u[2])
    BY <1>5, <2>1, CompareIs, Zenon
  <2> QED
    BY <2>2 DEF Ordering
<1>6. CASE Kind(u) = "string"
  <2>1. Kind(v) = "string"
    BY <1>1, <1>6
  <2>2. Compare(v, u) = Ordering(Place(v[2]) < Place(u[2]), v[2] = u[2])
    BY <1>6, <2>1, CompareIs, Zenon
  <2> QED
    BY <2>2 DEF Ordering
<1> QED
  BY <1>2, <1>4, <1>5, <1>6

(* So what was sorted can be sorted again.                                 *)
LEMMA SortedAreComparable ==
    ASSUME NEW xs \in Seq(Value), NEW ys \in Seq(Value), NEW q \in Bijection(DOMAIN xs, DOMAIN xs),
           DOMAIN ys = DOMAIN xs, \A i \in DOMAIN xs : ys[i] = xs[q[i]],
           \A i \in DOMAIN xs : Kind(xs[i]) # "array", Comparable(xs, xs)
    PROVE  Comparable(ys, ys)
<1> SUFFICES ASSUME NEW i \in DOMAIN xs, NEW j \in DOMAIN xs, i < j
             PROVE  Panic \notin {ys[i], ys[j]} /\ Compare(ys[i], ys[j]) # "panic"
  BY DEF Comparable
<1>1. /\ q[i] \in DOMAIN xs /\ q[j] \in DOMAIN xs /\ q[i] # q[j]
      /\ ys[i] = xs[q[i]] /\ ys[j] = xs[q[j]]
  BY DEF Bijection, Injection, IsInjective
<1>2. PICK k \in DOMAIN xs, l \in DOMAIN xs : k = q[i] /\ l = q[j] /\ k # l
  BY <1>1
<1>3. xs[k] \in Value /\ xs[l] \in Value /\ Kind(xs[k]) # "array" /\ Kind(xs[l]) # "array"
  OBVIOUS
<1>4. Panic \notin {xs[k], xs[l]}
  BY <1>3, ValueIs
<1>5. CASE k < l
  <2>1. Compare(xs[k], xs[l]) # "panic"
    BY <1>5 DEF Comparable
  <2> QED
    BY <1>1, <1>2, <1>4, <2>1
<1>6. CASE l < k
  <2>1. Compare(xs[l], xs[k]) # "panic"
    BY <1>6 DEF Comparable
  <2>2. CASE Null \in {xs[k], xs[l]}
    <3>1. Compare(xs[k], xs[l]) = CompareNulls(xs[k], xs[l])
      BY <1>3, <2>2, CompareIs
    <3> QED
      BY <1>1, <1>2, <1>4, <3>1 DEF CompareNulls
  <2>3. CASE Null \notin {xs[k], xs[l]}
    <3>1. Compare(xs[k], xs[l]) # "panic"
      BY <1>3, <2>1, <2>3, SafeBothWays
    <3> QED
      BY <1>1, <1>2, <1>4, <3>1
  <2> QED
    BY <2>2, <2>3
<1>7. k < l \/ l < k
  BY <1>2
<1> QED
  BY <1>5, <1>6, <1>7

(* A null among the values comes first.                                    *)
LEMMA SortedNulls ==
    ASSUME NEW xs \in Seq(Value), NEW ys \in Seq(Value), NEW q \in Bijection(DOMAIN xs, DOMAIN xs),
           DOMAIN ys = DOMAIN xs, \A i \in DOMAIN xs : ys[i] = xs[q[i]],
           \A i, j \in DOMAIN xs : i < j => Compare(ys[i], ys[j]) # "greater",
           Null \in Range(xs)
    PROVE  ys[1] = Null
<1>1. PICK k \in DOMAIN xs : xs[k] = Null
  BY DEF Range
<1>2. PICK j \in DOMAIN xs : q[j] = k
  BY DEF Bijection, Surjection
<1>3. ys[j] = Null
  BY <1>1, <1>2
<1>4. 1 \in DOMAIN xs /\ (j = 1 \/ 1 < j) /\ ys[1] \in Value /\ ys[j] \in Value
  OBVIOUS
<1>5. CASE 1 < j
  <2>1. Compare(ys[1], ys[j]) # "greater"
    BY <1>4, <1>5
  <2> QED
    BY <1>3, <1>4, <2>1, NullsFirst
<1> QED
  BY <1>3, <1>4, <1>5

(* And sorting them again changes nothing.                                 *)
LEMMA SortTwice ==
    ASSUME NEW ys \in Seq(Value),
           \A i \in DOMAIN ys : Kind(ys[i]) # "array", Comparable(ys, ys),
           \A i, j \in DOMAIN ys : i < j => Compare(ys[i], ys[j]) # "greater"
    PROVE  Sorted(ys, ys) = Arr(ys)
<1> DEFINE R == {ys[i] : i \in DOMAIN ys}
<1>1. Sorted(ys, ys) # Panic
  <2>1. PICK q \in Bijection(DOMAIN ys, DOMAIN ys) : Sorted(ys, ys) = Rearranged(ys, q)
    BY SortedIs
  <2> QED
    BY <2>1 DEF Rearranged, Arr, Panic
<1>2. PICK zs \in Seq(Value), q \in Bijection(DOMAIN ys, DOMAIN ys) :
        /\ Sorted(ys, ys) = Arr(zs)
        /\ DOMAIN zs = DOMAIN ys
        /\ \A i \in DOMAIN ys : zs[i] = ys[q[i]]
        /\ \A i, j \in DOMAIN ys : i < j => Compare(zs[i], zs[j]) # "greater"
  BY <1>1, SortIs
<1>3. PICK m \in Nat : DOMAIN ys = 1 .. m
  BY PlacesAre
<1>4. \A i \in 1 .. m : q[i] \in 1 .. m
  BY <1>2, <1>3 DEF Bijection, Injection
<1>5. \A i \in 1 .. m : ys[i] \in R /\ zs[i] \in R
  BY <1>2, <1>3, <1>4
<1>6. PICK le : le = AtMost(R)
  OBVIOUS
<1>7. Linear(R, le)
  <2>1. R \in SUBSET Value
    OBVIOUS
  <2>2. \A v \in R : Kind(v) # "array"
    OBVIOUS
  <2>3. \A u, v \in R : Null \in {u, v} \/ Alike(u, v)
    BY ComparableAlike
  <2> HIDE DEF R
  <2> QED
    BY <1>6, <2>1, <2>2, <2>3, AlikeOrder
<1>8. Ascending(m, ys, le) /\ Ascending(m, zs, le)
  <2> HIDE DEF R
  <2>1. \A u, v \in R : Compare(u, v) # "greater" => <<u, v>> \in le
    BY <1>6 DEF AtMost
  <2>2. ASSUME NEW i \in 1 .. m, NEW j \in 1 .. m, i < j
        PROVE  <<ys[i], ys[j]>> \in le /\ <<zs[i], zs[j]>> \in le
    <3>1. Compare(ys[i], ys[j]) # "greater" /\ Compare(zs[i], zs[j]) # "greater"
      BY <1>2, <1>3, <2>2
    <3>2. ys[i] \in R /\ ys[j] \in R /\ zs[i] \in R /\ zs[j] \in R
      BY <1>5
    <3> QED
      BY <2>1, <3>1, <3>2
  <2> QED
    BY <2>2 DEF Ascending
<1>9. \A i \in 1 .. m : zs[i] = ys[i]
  <2> HIDE DEF R
  <2>1. q \in Bijection(1 .. m, 1 .. m) /\ \A k \in 1 .. m : zs[k] = ys[q[k]] /\ ys[k] \in R
    BY <1>2, <1>3, <1>5
  <2> QED
    BY <1>7, <1>8, <2>1, SortedOnce
<1>10. zs = ys
  <2>1. Len(zs) = Len(ys)
    BY <1>2
  <2>2. \A i \in 1 .. Len(zs) : zs[i] = ys[i]
    BY <1>2, <1>3, <1>9
  <2> QED
    BY <2>1, <2>2, SeqEqual
<1> QED
  BY <1>2, <1>10

-----------------------------------------------------------------------------
(* The transformer sort, on an array.                                      *)
LEMMA SortEval ==
    ASSUME NEW v, Kind(v) = "array"
    PROVE  EvalOne(<< >>, <<"sort">>, v) = Sorted(v[2], v[2])
<1>1. v # Null
  BY DEF Kind, Null
<1>2. PICK op : op = "sort"
  OBVIOUS
<1>3. PICK tr : tr = <<"sort">>
  OBVIOUS
<1>4. PICK s : s = v[2]
  OBVIOUS
<1>5. tr[1] = op
  BY <1>2, <1>3
<1>6. op \notin OfNumber /\ op \notin {"is-null", "is-not-null", "not", "as-string"}
  BY <1>2 DEF OfNumber, Bounded
<1>7. EvalOne(<< >>, tr, v) = OnSequence(<< >>, op, s, tr)
  BY <1>1, <1>4, <1>5, <1>6 DEF EvalOne
<1>8. OnSequence(<< >>, op, s, tr) = Sorted(s, s)
  BY <1>2 DEF OnSequence, Nested
<1> QED
  BY <1>3, <1>4, <1>7, <1>8

(* A value of a type that is an array has values of one type.              *)
LEMMA ArrayIs ==
    ASSUME NEW t \in Type, NEW v \in Of(t), Kind(v) = "array"
    PROVE  v[2] \in Seq(Value) /\ v = Arr(v[2])
<1>1. v # Null
  BY DEF Kind, Null
<1>2. \A b \in BOOLEAN : Kind(Bool(b)) = "bool"
  BY DEF Kind, Bool
<1>3. \A S : \A w \in ({"number"} \X S) \cup ({"string"} \X S) \cup ({"map"} \X S) : Kind(w) # "array"
  BY DEF Kind
<1>4. Kind(t) = "array"
  BY <1>1, <1>2, <1>3, OfIs, TypeIs
<1>5. t[2] \in Type /\ v \in {"array"} \X Seq(Of(t[2]))
  BY <1>1, <1>4, OfIs, TypeIs
<1>6. v[2] \in Seq(Of(t[2])) /\ v = <<"array", v[2]>>
  BY <1>5
<1>7. Of(t[2]) \subseteq Value
  BY <1>5, OfAreValues
<1> QED
  BY <1>6, <1>7, SeqGrow DEF Arr

(* A sort of values without arrays.                                        *)
LEMMA SortAgrees ==
    ASSUME NEW xs \in Seq(Value), Plainly(xs), NEW s, s = Sorted(xs, xs), s # Panic
    PROVE  /\ \A v : Copies(s[2], v) = Copies(xs, v)
           /\ Null \in Range(xs) => s[2][1] = Null
           /\ EvalOne(<< >>, <<"sort">>, s) = s
<1>1. \A i \in DOMAIN xs : Kind(xs[i]) # "array"
  BY DEF Plainly
<1>2. PICK ys \in Seq(Value), q \in Bijection(DOMAIN xs, DOMAIN xs) :
        /\ Sorted(xs, xs) = Arr(ys)
        /\ DOMAIN ys = DOMAIN xs
        /\ \A i \in DOMAIN xs : ys[i] = xs[q[i]]
        /\ Comparable(xs, xs)
        /\ \A i, j \in DOMAIN xs : i < j => Compare(ys[i], ys[j]) # "greater"
  BY <1>1, SortIs
<1>3. s[2] = ys /\ s = Arr(ys) /\ Kind(s) = "array"
  BY <1>2 DEF Arr, Kind
<1>4. \A v : Copies(ys, v) = Copies(xs, v)
  BY <1>2, SortCopies
<1>5. Null \in Range(xs) => ys[1] = Null
  BY <1>2, SortedNulls
<1>6. \A i \in DOMAIN ys : Kind(ys[i]) # "array"
  BY <1>1, <1>2 DEF Bijection, Injection
<1>7. Comparable(ys, ys)
  BY <1>1, <1>2, SortedAreComparable
<1>8. Sorted(ys, ys) = Arr(ys)
  BY <1>2, <1>6, <1>7, SortTwice
<1>9. EvalOne(<< >>, <<"sort">>, s) = s
  BY <1>3, <1>8, SortEval
<1> QED
  BY <1>3, <1>4, <1>5, <1>9

(* A test of a number and its opposite.                                    *)
LEMMA TestsAgree ==
    ASSUME NEW x \in Int, NEW a \in Int
    PROVE  /\ NumberTest("greater-than", x, a) = ~ NumberTest("lesser-or-equal", x, a)
           /\ x # a => NumberTest("greater-or-equal", x, a) = ~ NumberTest("lesser-than", x, a)
<1>1. NumberTest("greater-than", x, a) <=> x > a
  BY DEF NumberTest
<1>2. NumberTest("lesser-or-equal", x, a) <=> x <= a
  BY DEF NumberTest
<1>3. NumberTest("greater-or-equal", x, a) <=> x > a
  BY DEF NumberTest
<1>4. NumberTest("lesser-than", x, a) <=> x < a
  BY DEF NumberTest
<1>5. \A op : NumberTest(op, x, a) \in BOOLEAN
  BY NumberTestIs
<1> QED
  BY <1>1, <1>2, <1>3, <1>4, <1>5

(* A sort keeps every value as often as it is there, puts nulls first, and *)
(* is done after once; a test of a number is the complement of its         *)
(* opposite, but for greater-or-equal at its bound (Rules.OperatorsAgree). *)
THEOREM RulesAgree == Spec => []OperatorsAgree
<1>1. Invariant => OperatorsAgree
  <2> SUFFICES ASSUME Invariant, phase = "done" PROVE OperatorsAgree
    BY DEF OperatorsAgree
  <2>1. TypeOfRule(rule) \in Type /\ value \in Of(TypeOfRule(rule))
    <3>1. rule \in Rulings[Nesting] /\ TypeOfRule(rule) # TypeError /\ value \in Of(TypeOfRule(rule))
      BY DEF Invariant, WellTyped, Ruling
    <3>2. Nesting \in 0 .. Nesting /\ Nesting \in 1 .. Nesting
      BY Deep
    <3> QED
      BY <3>1, <3>2, RuleAccepted DEF TypeOfRule
  <2>2. ASSUME Kind(value) = "array", NEW s, s = EvalOne(<< >>, <<"sort">>, value), s # Panic, Plainly(value[2])
        PROVE  /\ \A v \in Range(value[2]) : Copies(s[2], v) = Copies(value[2], v)
               /\ Null \in Range(value[2]) => s[2][1] = Null
               /\ EvalOne(<< >>, <<"sort">>, s) = s
    <3>1. PICK xs \in Seq(Value) : xs = value[2]
      BY <2>1, <2>2, ArrayIs
    <3>2. s = Sorted(xs, xs) /\ Plainly(xs)
      BY <2>2, <3>1, SortEval
    <3> QED
      BY <2>2, <3>1, <3>2, SortAgrees
  <2>3. ASSUME Kind(value) = "number", NEW n \in 0 .. 2
        PROVE  /\ NumberTest("greater-than", value[2], n) = ~ NumberTest("lesser-or-equal", value[2], n)
               /\ value[2] # n =>
                    NumberTest("greater-or-equal", value[2], n) = ~ NumberTest("lesser-than", value[2], n)
    <3>1. value \in Value
      BY <2>1, OfAreValues
    <3>2. value[2] \in Int /\ n \in Int
      BY <2>3, <3>1, PlainValues
    <3> QED
      BY <3>2, TestsAgree
  <2> QED
    BY <2>2, <2>3 DEF OperatorsAgree
<1> QED
  BY <1>1, InvariantStarts, InvariantStays, PTL DEF Spec

=============================================================================
