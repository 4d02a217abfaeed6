------------------------------ MODULE MCRules -------------------------------
(***************************************************************************)
(* Rules of up to two transformers on a page of three elements.            *)
(***************************************************************************)
EXTENDS Rules, TLC

SomeTexts == <<"", "0", "1", "2", "3", "4", "5", "6", "7", "8", "9", "FALSE", "TRUE", "a", "x", "y">>

Lengths == [s \in Range(SomeTexts) |-> Len(s)]

Numerals == [s \in {"0", "1", "2"} |-> CASE s = "0" -> 0 [] s = "1" -> 1 [] s = "2" -> 2]

Prettier == ("y" :> "x")

Writing == [v \in {Bool(b) : b \in BOOLEAN} \cup {Num(n) : n \in 0 .. 9} |-> ToString(v[2])]

Map(f) == [k \in Text |-> IF k \in DOMAIN f THEN Str(f[k]) ELSE Absent]

Regex == [found |-> [s \in {"x", "y", "1"} |->
                        CASE s = "x" -> <<Map([k \in {"0", "a"} |-> "x"]), Map("0" :> "x")>>
                          [] s = "y" -> <<Map("0" :> "y")>>
                          [] s = "1" -> <<Map("0" :> "1")>>],
          into |-> "a"]

TheRegex == {Regex}

(* A list of two items under the root of the page.                         *)
Places == [root |-> [parent |-> << >>, below |-> <<"left", "right">>],
           left |-> [parent |-> <<"root">>, below |-> << >>],
           right |-> [parent |-> <<"root">>, below |-> << >>]]

SomeNear == [n \in Nodes |-> [parent |-> Places[n].parent, children |-> Places[n].below]
                                @@ [e \in {"select-any", "select-all"} |-> Places[n].below]]

Element(text, attr, attrs, classes) ==
    [name |-> Str("a"), html |-> Str("a"), text |-> Str(text), attr |-> attr, id |-> attr,
     attrs |-> Obj(Map(attrs)), classes |-> Arr(classes)]

SomeOwns ==
    [root |-> Element("x", Null, [k \in {} |-> ""], << >>),
     left |-> Element("1", Str("x"), ("a" :> "x"), <<Str("y"), Str("x")>>),
     right |-> Element("2", Str("y"), ("0" :> "1") @@ ("a" :> "y"), <<Str("x"), Str("x")>>)]

Singles == {<<op>> : op \in {"is-null", "is-not-null", "hash", "not", "as-number", "length",
                            "is-empty", "flatten", "sort", "as-string", "pretty"}}
    \cup {<<op, 1>> : op \in OfNumber \ {"between", "in"}}
    \cup {<<"between", <<1, 2>> >>, <<"in", {1, 2}>>, <<"get", "0">>, <<"get-idx", 1>>,
          <<"equals-string", "x">>, <<"in-strings", {"x", "1"}>>}
    \cup {<<op, Regex>> : op \in {"capture", "all-captures", "matches", "replace"}}

Inner == {<< >>, << <<"is-null">> >>, << <<"length">> >>, << <<"as-number">> >>, << <<"sort">> >>,
          << <<"equals-string", "x">> >>, << <<"get", "0">> >>, << <<"capture", Regex>> >>}

Some == Singles \cup {<<op, ts>> : op \in Nested, ts \in Inner}

Expr(ext, ts, explodes) == [ext |-> ext, ts |-> ts, explodes |-> explodes]

Exts == {<<e>> : e \in {"text", "attr", "attrs", "classes"}}
    \cup {<<e, Expr(<<"attr">>, << >>, FALSE)>> : e \in One \cup Many}
    \cup {<<"parent", Expr(<<"classes">>, << >>, FALSE)>>,
          <<"children", Expr(<<"attrs">>, << >>, FALSE)>>,
          <<"children", Expr(<<"text">>, << <<"all-captures", Regex>> >>, FALSE)>>}

Upto1 == {<< >>} \cup {<<t>> : t \in Some}

Upto2 == Upto1 \cup {<<t, u>> : t, u \in Some}

Rule(agg, ts) == [agg |-> agg, ts |-> ts]

Deep == {<<"classes">>, <<"attrs">>, <<"children", Expr(<<"attrs">>, << >>, FALSE)>>,
         <<"children", Expr(<<"text">>, << <<"all-captures", Regex>> >>, FALSE)>>}

Firsts == {Rule(<<"first", Expr(e, ts, FALSE)>>, << >>) : e \in Deep, ts \in Upto2}

Others == {Rule(<<k, Expr(e, ts, x)>>, post) :
            k \in {"first", "count-not-null", "collect", "distinct", "sum"},
            e \in Exts, ts \in Upto1, x \in BOOLEAN,
            post \in {<< >>, << <<"sort">> >>, << <<"length">> >>}}

Keys == {Expr(<<"attr">>, << >>, FALSE), Expr(<<"classes">>, << >>, TRUE),
         Expr(<<"text">>, << <<"capture", Regex>>, <<"get", "a">> >>, FALSE),
         Expr(<<"attrs">>, << >>, FALSE)}

Members == {Rule(<<"count">>, << >>), Rule(<<"collect", Expr(<<"text">>, << >>, FALSE)>>, << >>),
            Rule(<<"first", Expr(<<"id">>, << >>, FALSE)>>, << <<"is-null">> >>),
            Rule(<<"sum", Expr(<<"text">>, << <<"as-number">> >>, FALSE)>>, << >>),
            Rule(<<"distinct", Expr(<<"classes">>, << >>, TRUE)>>, << <<"sort">> >>)}

Groups == {Rule(<<"group", k, m>>, post) : k \in Keys,
            m \in Members \cup {Rule(<<"group", k, m>>, << >>) : k \in Keys, m \in Members},
            post \in {<< >>, << <<"length">> >>, << <<"filter", << <<"is-not-null">> >> >> >>}}

SomeRules == Firsts \cup Others \cup Groups \cup {Rule(<<"count">>, << <<"greater-or-equal", 1>> >>)}

=============================================================================
