------------------------------ MODULE MCRobots ------------------------------
(***************************************************************************)
(* Hosts of no to four labels; paths of up to three parts.                 *)
(***************************************************************************)
EXTENDS Robots

SomeHosts == {<< >>, <<"local">>, <<"b", "com">>, <<"a", "b", "com">>, <<"x", "a", "b", "com">>}

Characters == {"/", "a", "b"}

SomeRoutes == {<<"/">> \o s : s \in UNION {[1 .. n -> Characters] : n \in 0 .. 2}}

Parts == {<< >>, <<"/">>, <<"a">>, <<"/", "a">>, <<"a", "b">>}

SomePaths == [parts : UNION {[1 .. n -> Parts] : n \in 1 .. 2} \cup {<<p, <<"a">>, p>> : p \in Parts}, strict : BOOLEAN]

Lines == {<<"disallow", path>> : path \in SomePaths}

Path(a, b) == [parts |-> <<a, b>>, strict |-> FALSE]

Texts ==
    {<<l>> : l \in Lines}
    \cup {<< <<"allow", Path(<<"/">>, <<"a">>)>>, <<"disallow", p>>, <<"delay", 3>> >> : p \in SomePaths}
    \cup {<< <<"rate", [requests |-> n, seconds |-> 10]>>, <<"disallow", Path(<<"a">>, <<"b">>)>> >> : n \in 0 .. 2}

Body(lines, encoding, broken) ==
    [status |-> "success", location |-> "missing", encoding |-> encoding, lines |-> lines, broken |-> broken]

SomeResponses ==
    {Body(t, "identity", FALSE) : t \in Texts}
    \cup {Body(<< <<"delay", 1>>, <<"delay", 2>>, <<"delay", 3>> >>, e, b) :
            e \in {"identity", "gzip", "deflate", "br"}, b \in BOOLEAN}
    \cup {Body(<< >>, "gzip", TRUE)}
    \cup {[Body(<< >>, "identity", FALSE) EXCEPT !.status = "redirection", !.location = l] :
            l \in {"missing", "absolute", "relative"}}
    \cup {[Body(<< >>, "identity", FALSE) EXCEPT !.status = s] : s \in {"other", "unreachable"}}

=============================================================================
