---------------------------- MODULE MCDirectives ----------------------------
(***************************************************************************)
(* Two directories of directives, all that three files may import of one   *)
(* another, and all that two of them may say of two pages.                 *)
(***************************************************************************)
EXTENDS Directives, TLC

TheEntry == <<"dir", <<"main">>, "file">>

SomeRoots == <<"dir", "lib">>

Url(page, query, section) == [page |-> page, query |-> query, section |-> section]

Full(key) == <<key, "full">>

Bare(key) == <<key, "bare">>

Linked == {NoQuery, {}, {Full("k")}, {Bare("k")}, {Full("t"), Full("k")}, {Full("t")}}

SomeRaw == {<<"url", Url("q", q, s)>> : q \in Linked, s \in BOOLEAN}
    \cup {<<"query", q>> : q \in {{Full("t")}, {Bare("k")}}}
    \cup {<<kind>> : kind \in BadLinks}

Garbage == << <<"garbage">> >>

Paths == {<<"a">>, <<"main">>, <<"b">>, <<"super", "b">>, <<"root", "a", "b">>, <<"root">>, <<"super", "super", "", "b">>}

ImportsOf == {<< >>} \cup {<< <<"import", p>> >> : p \in Paths}

A == <<"a">>
B == <<"b">>
AB == <<"a", "b">>

(* The disks that tell where modules are found and what imports what.      *)
Graph(main, files) == (Entry :> main) @@ files

Graphs ==
    {Graph(<< <<"import", p>>, <<"import", q>> >>,
           (<<"dir", A, "file">> :> a) @@ (<<"dir", AB, "folder">> :> ab) @@ (<<"lib", B, "file">> :> b)) :
        p \in {A, B}, q \in Paths, a \in ImportsOf, ab \in ImportsOf, b \in ImportsOf \cup {Garbage}}
    \cup {Graph(<< <<"import", p>> >>,
           [f \in S |-> IF f[2] \in {A, << >>} THEN << <<"import", B>> >> ELSE << <<"rule", <<ToString(f), "ok">> >> >>]) :
        p \in {A, B, <<"super">>},
        S \in SUBSET {<<"dir", A, "file">>, <<"dir", B, "folder">>, <<"lib", A, "file">>,
                      <<"lib", B, "file">>, <<"dir", AB, "file">>, <<"lib", << >>, "file">>}}
    \cup {[f \in {} |-> << >>]}

(* The disks that tell what directives say.                                *)
Says(main, a) == Graph(<< <<"import", A>> >> \o main, <<"dir", A, "file">> :> a)

Set(name, value) == <<"set", <<name, value>> >>

Sets == {Set("max_depth", <<"count", n>>) : n \in {0, 3, 4, 9}}
    \cup {Set("max_depth", <<"number", 3>>), Set("max_hits_per_sec", <<"number", 0>>),
          Set("max_hits_per_sec", <<"count", 2>>), Set("user_agent", <<"string">>),
          Set("enable_page_rank", <<"string">>), Set("depth", <<"count", 3>>)}

RuleItems == {<<"rule", <<"r", "ok">> >>, <<"rule", <<"r", "type error">> >>, <<"rule", <<"s", "ok">> >>}

Declarations ==
    {Says(<<s>>, <<t>>) : s, t \in Sets \cup RuleItems}
    \cup {Says(<< >>, <<s, t>>) : s, t \in Sets \cup RuleItems}

With(key) == {u \in Urls : u.query # NoQuery /\ \E p \in u.query : p[1] = key}

OnP == {u \in Urls : u.page = "p"}

SomeMatches ==
    [all |-> Urls, p |-> OnP, p_or_t |-> OnP \cup With("t"), q_no_t |-> Urls \ (OnP \cup With("t")),
     t |-> With("t"), k |-> With("k")]

Maybe(S) == {<< >>} \cup {<<s>> : s \in S}

Bounds ==
    {Says(<< <<"seed", Url("p", q, FALSE)>> >> \o d \o f, <<allowed>> \o use) :
        q \in {NoQuery, {Full("t")}, {}},
        allowed \in {<<"allow", "all">>, <<"allow", "p_or_t">>},
        d \in Maybe({<<"disallow", "k">>, <<"disallow", "q_no_t">>}),
        f \in Maybe({<<"frontier", "t">>, <<"frontier", "p">>}),
        use \in {<< >>, << <<"use-param", "k">> >>, << <<"use-param", "*">>, <<"ignore-param", "t">> >>,
                 << <<"use-param", "*">> >>}}

SomeDisks == Graphs \cup Declarations \cup Bounds

=============================================================================
