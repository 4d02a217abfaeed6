----------------------------- MODULE Directives -----------------------------
(***************************************************************************)
(* Directives once loaded: their validation, the parameters they set, and  *)
(* the boundaries they draw around the pages that come into the queue      *)
(* (directives.rs, variable.rs, crawler/boundaries.rs, worker/mod.rs).     *)
(*                                                                         *)
(* A URL is [page, query, section]; a query is NoQuery or the set of its   *)
(* <<key, form>>, the form "bare" for k and "full" for k=.                 *)
(***************************************************************************)
EXTENDS Loader

CONSTANTS
    Pages,          \* the URLs there are, but for query and section
    Keys,           \* of parameters
    NoQuery,
    Raw,            \* what a page may hold as a link: <<"url", u>>, <<"query", q>>, ...
    MatchedBy,      \* the URLs that a regex matches
    DepthRange,     \* max_depth is taken for a number below it, an i16
    MaxVisits       \* bound: pages crawled

Queries == {NoQuery} \cup SUBSET (Keys \X {"bare", "full"})

Urls == [page : Pages, query : Queries, section : BOOLEAN]

Counts == {"quota", "max_depth", "max_body_size"}

Rates == {"max_hits_per_sec", "request_timeout"}

Variables == Counts \cup Rates \cup {"user_agent", "enable_page_rank"}

BadLinks == {"empty", "section", "scheme", "no-domain", "bad"}

(* What the parser makes of seeds and of numbers, and links of pages.      *)
ASSUME DirectivesAssumption ==
    /\ DepthRange \in Nat \ {0}
    /\ \A raw \in Raw :
        /\ raw[1] \in {"url", "query"} \cup BadLinks
        /\ raw[1] = "url" => raw[2] \in Urls
        /\ raw[1] = "query" => raw[2] \in Queries
    /\ \A d \in Disks : \A f \in DOMAIN d : \A item \in Range(d[f]) :
        /\ item[1] = "seed" => item[2] \in Urls
        /\ item[1] = "set" /\ item[2][2][1] = "count" => item[2][2][2] \in Nat

VARIABLES
    queue,          \* what was put in it: [url, how, from]
    visited         \* the URLs that were crawled

directivesVars == <<loaderVars, queue, visited>>

-----------------------------------------------------------------------------
(* The items of all modules, and the parameters.                           *)

Places(kind) ==
    {p \in UNION {{n} \X DOMAIN modules[n] : n \in DOMAIN modules} : modules[p[1]][p[2]][1] = kind}

ItemAt(p) == modules[p[1]][p[2]][2]

Items(kind) == {ItemAt(p) : p \in Places(kind)}

(* Variable::retrieve_as_...                                               *)
Fits(name, value) ==
    CASE name \in Counts -> value[1] = "count"
      [] name \in Rates -> value[1] \in {"count", "number"} /\ value[2] > 0
      [] name = "user_agent" -> value[1] = "string"
      [] name = "enable_page_rank" -> value[1] = "bool"

(* Variant: the number keeps its width.                                    *)
AsItIs(n) == n

(* as i16                                                                  *)
AsDepth(n) == ((n + DepthRange) % (2 * DepthRange)) - DepthRange

MaxDepth ==
    LET set == {s \in Items("set") : s[1] = "max_depth"}
    IN  AsDepth(IF set = {} THEN 7 ELSE (CHOOSE s \in set : TRUE)[2][2])

-----------------------------------------------------------------------------
(* Boundaries                                                              *)

Matches(kind, u) == \E regex \in Items(kind) : u \in MatchedBy[regex]

IsAllowed(u) == Matches("allow", u) /\ ~ Matches("disallow", u)

IsFrontier(u) == Matches("frontier", u)

UsesParam(key) ==
    /\ "*" \in Items("use-param") \/ key \in Items("use-param")
    /\ key \notin Items("ignore-param")

(* Boundaries::filter_query_params, which writes the query anew.           *)
Clean(u) ==
    LET pairs == IF u.query = NoQuery THEN {} ELSE u.query
        kept == {<<p[1], "full">> : p \in {p \in pairs : UsesParam(p[1])}}
    IN  [u EXCEPT !.query = IF kept = {} THEN NoQuery ELSE kept]

(* checked_join: the URLs, one or none, that a raw link makes on a page.   *)
CheckedJoin(u, raw) ==
    CASE raw[1] = "url" -> {raw[2]}
      [] raw[1] = "query" -> {[u EXCEPT !.query = raw[2], !.section = FALSE]}
      [] raw[1] \in BadLinks -> {}

(* Variant: a link is checked as it stands, and cleaned afterwards.        *)
CheckedFirst(u, raws) ==
    IF IsFrontier(u) THEN {}
    ELSE {Clean(v) : v \in {v \in UNION {CheckedJoin(u, raw) : raw \in raws} : IsAllowed(v)}}

(* Boundaries::clean_links: links are cleaned, checked and cleaned again.  *)
CleanLinks(u, raws) ==
    IF IsFrontier(u) THEN {}
    ELSE LET cleaned == {Clean(v) : v \in UNION {CheckedJoin(u, raw) : raw \in raws}}
         IN  {Clean(v) : v \in {v \in cleaned : IsAllowed(v)}}

(* store, of a redirect: checked and then cleaned.                         *)
CleanRedirect(u, raw) ==
    IF IsFrontier(u) THEN {}
    ELSE {Clean(v) : v \in {v \in CheckedJoin(u, raw) : IsAllowed(v)}}

(* Worker::test_url: what would be crawled, or nothing.                    *)
TestUrl(u) == IF IsAllowed(Clean(u)) THEN {Clean(u)} ELSE {}

-----------------------------------------------------------------------------
(* Validation                                                              *)

(* Variant: names are looked for in one module at a time.                  *)
TwiceInOneModule(kind) ==
    \E n \in DOMAIN modules :
        Cardinality({ItemAt(p)[1] : p \in {p \in Places(kind) : p[1] = n}}) #
        Cardinality({p \in Places(kind) : p[1] = n})

(* There is a name that two items of a kind define.                        *)
Duplicate(kind) == Cardinality({s[1] : s \in Items(kind)}) # Cardinality(Places(kind))

(* The full name of a rule, the module's and its own.                      *)
RuleNames == {Append(p[1], ItemAt(p)[1]) : p \in Places("rule")}

Issues ==
    {issue \in {"rules", "seeds", "unknown", "sets", "values", "types"} :
        CASE issue = "rules" -> Cardinality(RuleNames) # Cardinality(Places("rule"))
          [] issue = "seeds" -> \E u \in Items("seed") : ~ IsAllowed(Clean(u)) \/ IsFrontier(Clean(u))
          [] issue = "unknown" -> \E s \in Items("set") : s[1] \notin Variables
          [] issue = "sets" -> Duplicate("set")
          [] issue = "values" -> \E s \in Items("set") : s[1] \in Variables /\ ~ Fits(s[1], s[2])
          [] issue = "types" -> \E r \in Items("rule") : r[2] = "type error"}

-----------------------------------------------------------------------------
Hows == {"seed", "link", "redirect"}

TypeOK ==
    /\ Len(stack) <= MaxStack
    /\ \A i \in DOMAIN stack : stack[i].next \in 1 .. Len(stack[i].items) + 1
    /\ phase \in {"start", "load", "loaded", "failed", "overflow", "ready", "invalid"}
    /\ \A e \in queue : e.url \in Urls /\ e.how \in Hows /\ e.from \in Urls
    /\ visited \subseteq {e.url : e \in queue}
    /\ phase = "ready" => MaxDepth \in -DepthRange .. DepthRange - 1

Init == LoaderInit /\ queue = {} /\ visited = {}

Load == LoaderNext /\ UNCHANGED <<queue, visited>>

Validate ==
    /\ phase = "loaded"
    /\ phase' = IF Issues = {} THEN "ready" ELSE "invalid"
    /\ UNCHANGED <<disk, stack, modules, queue, visited>>

Entries(urls, how, from) == {[url |-> u, how |-> how, from |-> from] : u \in urls}

(* The seeds go into the queue as they stand.                              *)
Seed ==
    /\ phase = "ready" /\ queue = {}
    /\ Items("seed") # {}
    /\ queue' = {[url |-> u, how |-> "seed", from |-> u] : u \in Items("seed")}
    /\ UNCHANGED <<loaderVars, visited>>

Visit(u) ==
    /\ phase = "ready"
    /\ Cardinality(visited) < MaxVisits
    /\ u \notin visited
    /\ visited' = visited \cup {u}
    /\ UNCHANGED loaderVars

(* A page that holds at most one link: each is dealt with on its own.      *)
Page(e) ==
    \E raws \in {{}} \cup {{raw} : raw \in Raw} :
        /\ Visit(e.url)
        /\ queue' = queue \cup Entries(CleanLinks(e.url, raws), "link", e.url)

Redirect(e) ==
    \E raw \in Raw :
        /\ Visit(e.url)
        /\ queue' = queue \cup Entries(CleanRedirect(e.url, raw), "redirect", e.url)

Next == Load \/ Validate \/ Seed \/ \E e \in queue : Page(e) \/ Redirect(e)

Spec == Init /\ [][Next]_directivesVars /\ WF_directivesVars(Load)

-----------------------------------------------------------------------------
(* Correctness.                                                            *)

(* Directives that were accepted mean one thing: each variable is set at   *)
(* most once over all modules, to a value that fits it, each rule has a    *)
(* name of its own, and the limit on the depth is the one that was set,    *)
(* unless it is too large for its type.                                    *)
AcceptedIsSound ==
    phase = "ready" =>
        /\ \A p, q \in Places("set") : p # q => ItemAt(p)[1] # ItemAt(q)[1]
        /\ \A p \in Places("set") :
            LET s == ItemAt(p) IN
            /\ s[1] \in Variables /\ Fits(s[1], s[2])
            /\ s[1] = "max_depth" => (MaxDepth = s[2][2] <=> s[2][2] < DepthRange)
        /\ \A p, q \in Places("rule") :
            p # q => p[1] # q[1] \/ ItemAt(p)[1] # ItemAt(q)[1]

(* What is in the queue is within the boundaries, as "lopez test" would    *)
(* have it, in its one clean form, and was not found on the frontier.      *)
(* There are two ways around: a seed stays as it was written, and so would *)
(* be crawled in both forms, and a redirect may be allowed only for the    *)
(* parameters that it loses.                                               *)
QueueIsWithin ==
    \A e \in queue :
        /\ e.how = "seed" => TestUrl(e.url) # {} /\ ~ IsFrontier(Clean(e.url))
        /\ e.how = "link" => TestUrl(e.url) = {e.url}
        /\ e.how = "redirect" =>
            /\ Clean(e.url) = e.url
            /\ \E u \in Urls : Clean(u) = e.url /\ IsAllowed(u)
        /\ e.how # "seed" => ~ IsFrontier(e.from)

=============================================================================
