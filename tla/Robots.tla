------------------------------- MODULE Robots -------------------------------
(***************************************************************************)
(* How an origin comes by its robots.txt, and what that excludes           *)
(* (crawler/robots.rs, crawler/downloader/mod.rs).                         *)
(*                                                                         *)
(* A host is the sequence of its labels, none for an IP address.  A text   *)
(* is the sequence of the lines for this robot, each a chunk of the body   *)
(* that is received: <<"disallow", path>>, <<"delay", seconds>>, ...; and  *)
(* a path is [parts, strict], what is between its stars and whether it     *)
(* ends in a $.                                                            *)
(***************************************************************************)
EXTENDS Integers, SequencesExt

CONSTANTS
    Hosts,
    Responses,      \* [status, location, encoding, lines, broken]
    Routes,         \* what follows the host in URLs, as characters
    MaxBodySize     \* max_body_size, in lines

IsSequence(s) == s \in Seq(Range(s))

(* A route begins with a slash; a path has parts, if only an empty one.    *)
ASSUME RobotsAssumption ==
    /\ MaxBodySize \in Nat
    /\ \A labels \in Hosts : IsSequence(labels)
    /\ \A route \in Routes : IsSequence(route) /\ route # << >>
    /\ \A r \in Responses :
        /\ IsSequence(r.lines)
        /\ \A line \in Range(r.lines) : line[1] = "disallow" =>
            /\ line[2].strict \in BOOLEAN
            /\ IsSequence(line[2].parts) /\ line[2].parts # << >>
            /\ \A part \in Range(line[2].parts) : IsSequence(part)

VARIABLES
    host,           \* the one of the page
    base,           \* the one that is asked
    hops,           \* redirects followed
    asked,          \* the last bases asked, one more than one may be asked in a row
    stage,          \* "ask", "found", "none", "failed" or "panicked"
    text            \* the robots.txt that was found

robotsVars == <<host, base, hops, asked, stage, text>>

MaxHops == 5

-----------------------------------------------------------------------------
(* SimpleDownloader::download                                              *)

(* Variant: the chunk that is too much is kept.                            *)
OneChunkMore(lines) == IF Len(lines) <= MaxBodySize + 1 THEN lines ELSE SubSeq(lines, 1, MaxBodySize + 1)

Received(lines) == IF Len(lines) <= MaxBodySize THEN lines ELSE SubSeq(lines, 1, MaxBodySize)

(* A body that is cut is not read further, and not to be decoded.          *)
Downloaded(r) ==
    LET cut == Len(r.lines) > MaxBodySize IN
    CASE r.status = "redirection" ->
            IF r.location = "missing" THEN "error" ELSE r.location
      [] r.status = "success" ->
            IF \/ r.broken /\ ~ cut
               \/ r.encoding \in {"gzip", "deflate"} /\ cut
               \/ r.encoding \notin {"identity", "gzip", "deflate"}
            THEN "error" ELSE "page"
      [] r.status = "unreachable" -> "error"
      [] r.status = "other" -> "bad status"

-----------------------------------------------------------------------------
(* RobotExclusion                                                          *)

(* Variant: all rules are taken for disallow rules.                        *)
AllRules(lines) == {line[2] : line \in {l \in Range(lines) : l[1] \in {"disallow", "allow"}}}

Disallowed(lines) == {line[2] : line \in {l \in Range(lines) : l[1] = "disallow"}}

CrawlDelay(lines) ==
    LET of(kind) == {line[2] : line \in {l \in Range(lines) : l[1] = kind}}
        rates == {rate \in of("rate") : rate.requests > 0}
    IN  IF of("delay") # {} THEN {<<d, 1>> : d \in of("delay")}
        ELSE {<<rate.seconds, rate.requests>> : rate \in rates}

OccursAt(part, route, i) ==
    i + Len(part) <= Len(route) + 1 /\ SubSeq(route, i, i + Len(part) - 1) = part

(* One turn of the loop in Match::matches: the rest of the route begins at *)
(* i, and from now on where the part was found, not after it; 0 if it was  *)
(* not found.                                                              *)
FindFrom(route, i, part) ==
    LET places == {k \in i .. Len(route) + 1 : i > 0 /\ OccursAt(part, route, k)}
    IN  IF places = {} THEN 0 ELSE CHOOSE k \in places : \A l \in places : k <= l

(* Where the rest of the route begins after each of the parts.             *)
Ends(parts, route) ==
    LET end[k \in 0 .. Len(parts)] == IF k = 0 THEN 1 ELSE FindFrom(route, end[k - 1], parts[k])
    IN  end

MatchesRoute(path, route) ==
    LET end == Ends(path.parts, route)[Len(path.parts)]
    IN  /\ path.parts # << << >> >>
        /\ end > 0
        /\ path.strict => end = Len(route) + 1

Allows(lines, route) == \A path \in Disallowed(lines) : ~ MatchesRoute(path, route)

-----------------------------------------------------------------------------
RobotsInit ==
    /\ host \in Hosts
    /\ base = host
    /\ hops = 0
    /\ asked = << >>
    /\ stage = "ask"
    /\ text = << >>

Asking(r, outcomes) ==
    /\ stage = "ask"
    /\ Downloaded(r) \in outcomes
    /\ asked' = IF Len(asked) <= MaxHops THEN Append(asked, base) ELSE Append(Tail(asked), base)
    /\ UNCHANGED host

Found(r) ==
    /\ Asking(r, {"page"})
    /\ stage' = "found"
    /\ text' = Received(r.lines)
    /\ UNCHANGED <<base, hops>>

(* An error ends it, and so does a location that is not absolute.          *)
Fail(r) ==
    /\ Asking(r, {"error", "relative"})
    /\ stage' = "failed"
    /\ UNCHANGED <<base, hops, text>>

Follow(r) ==
    /\ Asking(r, {"absolute"})
    /\ hops + 1 < MaxHops
    /\ hops' = hops + 1
    /\ UNCHANGED <<base, stage, text>>

(* Variant: the host is asked again.                                       *)
SameAgain(labels) == labels

OneUp(labels) == Tail(labels)

(* No robots.txt here: one label is left out, unless what is left is a top *)
(* level domain; a host of no labels stays, and of one label cannot be set *)
(* to none.                                                                *)
Climb(r) ==
    /\ Asking(r, {"absolute", "bad status"})
    /\ Downloaded(r) = "absolute" => hops + 1 = MaxHops
    /\ hops' = 0
    /\ \/ base = << >> /\ UNCHANGED <<base, stage>>
       \/ Len(base) = 1 /\ stage' = "panicked" /\ UNCHANGED base
       \/ Len(base) = 2 /\ stage' = "none" /\ UNCHANGED base
       \/ Len(base) > 2 /\ base' = OneUp(base) /\ UNCHANGED stage
    /\ UNCHANGED text

RobotsNext == \E r \in Responses : Found(r) \/ Fail(r) \/ Follow(r) \/ Climb(r)

(* Every request gets its response.                                        *)
RobotsSpec == RobotsInit /\ [][RobotsNext]_robotsVars /\ WF_robotsVars(RobotsNext)

-----------------------------------------------------------------------------
(* Correctness.                                                            *)

(* The climb ends, for every host that has a name.                         *)
ClimbEnds == host # << >> => <>(stage # "ask")

(* What is asked for its robots.txt is the host itself and then the        *)
(* domains above it, each one once with at most four redirects, and never  *)
(* a top level domain; only a host of one label makes it panic.  No more   *)
(* than max_body_size is kept of what comes.                               *)
RequestsAreFew ==
    /\ hops < MaxHops /\ IsSuffix(base, host) /\ Len(text) <= MaxBodySize
    /\ \A i \in DOMAIN asked :
        /\ IsSuffix(asked[i], host)
        /\ asked[i] = host \/ Len(asked[i]) >= 2
        /\ i > 1 => IsSuffix(asked[i], asked[i - 1])
        /\ i > MaxHops /\ host # << >> => asked[i] # asked[i - MaxHops]
    /\ stage = "panicked" => Len(host) = 1

(* The parts of a path are on a route, none before the one it follows.     *)
InOrder(parts, route) ==
    \E at \in [DOMAIN parts -> 1 .. Len(route) + 1] :
        \A i \in DOMAIN parts :
            OccursAt(parts[i], route, at[i]) /\ (i > 1 => at[i - 1] <= at[i])

(* As robots.txt is meant: from the beginning of the route, each part      *)
(* after the other, and for a strict path up to the end.                   *)
Meant(path, route) ==
    \E at \in [DOMAIN path.parts -> 1 .. Len(route) + 1] :
        /\ path.parts # << << >> >> /\ at[1] = 1
        /\ \A i \in DOMAIN path.parts :
            LET next == at[i] + Len(path.parts[i]) IN
            /\ OccursAt(path.parts[i], route, at[i])
            /\ i < Len(path.parts) => next <= at[i + 1]
            /\ i = Len(path.parts) /\ path.strict => next = Len(route) + 1 \/ path.parts[i] = << >>

(* The paths of the rules of a kind, in the text that was found.           *)
Sent(kind) == {line[2] : line \in {l \in Range(text) : l[1] = kind}}

(* A route is crawled although the path disallows it, and no rule allows   *)
(* it again.                                                               *)
IsDisobeyed(path, route) ==
    Allows(text, route) /\ Meant(path, route) /\ ~ \E other \in Sent("allow") : Meant(other, route)

(* The robots.txt that was found is obeyed: what any disallow rule of it   *)
(* means to exclude is excluded.  The crawler is said to do so; the code   *)
(* (Match::matches) does not, for rules that end in a $.                   *)
ObeysRobots ==
    stage = "found" =>
        \A path \in Sent("disallow"), route \in Routes : ~ IsDisobeyed(path, route)

(* It is obeyed but for rules that end in a $, of which this says nothing; *)
(* and a route is excluded for a reason: a disallow rule (Match::matches)  *)
(* has all its parts there in order, if not where it means them to be.     *)
(* Nor does a delay come of no requests (RobotExclusion::new).             *)
ExclusionMeansIt ==
    stage = "found" =>
        /\ \A path \in Sent("disallow"), route \in Routes :
            IsDisobeyed(path, route) => path.strict
        /\ \A route \in Routes :
            \/ Allows(text, route)
            \/ \E path \in Sent("disallow") : path.parts # << << >> >> /\ InOrder(path.parts, route)
        /\ \A d \in CrawlDelay(text) : d[2] > 0

=============================================================================
