--------------------------- MODULE Robots_proofs ---------------------------
(***************************************************************************)
(* Theorems about Robots, for every host, every response and every set of  *)
(* rules: the climb, by what is kept of its last requests, and the         *)
(* exclusion, by induction over the parts of a path.                       *)
(***************************************************************************)
EXTENDS Robots, Induction

-----------------------------------------------------------------------------
(* What Match::matches finds.                                              *)

PlacesFrom(route, i, part) == {k \in i .. Len(route) + 1 : i > 0 /\ OccursAt(part, route, k)}

(* The first place from i on, if there is one.                             *)
LEMMA FirstFound ==
    ASSUME NEW route, Len(route) \in Nat, NEW i \in 0 .. Len(route) + 1, NEW part
    PROVE  /\ PlacesFrom(route, i, part) = {} => FindFrom(route, i, part) = 0
           /\ PlacesFrom(route, i, part) # {} =>
                /\ FindFrom(route, i, part) \in PlacesFrom(route, i, part)
                /\ \A k \in PlacesFrom(route, i, part) : FindFrom(route, i, part) <= k
<1> DEFINE P == PlacesFrom(route, i, part)
<1>1. FindFrom(route, i, part) = IF P = {} THEN 0 ELSE CHOOSE k \in P : \A l \in P : k <= l
  BY DEF FindFrom, PlacesFrom
<1>2. P \in SUBSET Nat
  BY DEF PlacesFrom
<1>3. P # {} => \E k \in P : \A l \in P : k <= l
  <2> HIDE DEF P
  <2> QED
    BY <1>2, Least
<1> HIDE DEF P
<1>4. P # {} => /\ FindFrom(route, i, part) \in P
                /\ \A k \in P : FindFrom(route, i, part) <= k
  BY <1>1, <1>3
<1> QED
  BY <1>1, <1>4 DEF P

(* What is found is a place in the route, or nothing.                      *)
LEMMA FoundType ==
    ASSUME NEW route, Len(route) \in Nat, NEW i \in 0 .. Len(route) + 1, NEW part
    PROVE  FindFrom(route, i, part) \in 0 .. Len(route) + 1
<1>1. PlacesFrom(route, i, part) \subseteq 0 .. Len(route) + 1
  BY DEF PlacesFrom
<1> QED
  BY <1>1, FirstFound

(* The recursive definition of Ends means what it says.                    *)
LEMMA EndsAre ==
    ASSUME NEW parts, Len(parts) \in Nat, NEW route, Len(route) \in Nat
    PROVE  /\ Ends(parts, route)[0] = 1
           /\ \A k \in 1 .. Len(parts) : Ends(parts, route)[k] = FindFrom(route, Ends(parts, route)[k - 1], parts[k])
           /\ \A k \in 0 .. Len(parts) : Ends(parts, route)[k] \in 0 .. Len(route) + 1
<1> DEFINE n == Len(parts)
           S == 0 .. Len(route) + 1
           Step(f) == [k \in 0 .. n |-> IF k = 0 THEN 1 ELSE FindFrom(route, f[k - 1], parts[k])]
           end == CHOOSE f : f = Step(f)
           F == [i \in 1 .. n |-> [x \in S |-> FindFrom(route, x, parts[i])]]
<1>1. Ends(parts, route) = end
  BY DEF Ends
<1>2. F \in Steps(n, S)
  BY FoundType DEF Steps
<1>3. PICK g \in [0 .. n -> S] : g[0] = 1 /\ \A i \in 1 .. n : g[i] = F[i][g[i - 1]]
  <2>1. 1 \in S /\ n \in Nat
    OBVIOUS
  <2>2. n \in Nat /\ F \in Steps(n, S) /\ 1 \in S
    BY <1>2, <2>1
  <2> HIDE DEF F, S, n, Step, end
  <2> QED
    BY <2>2, Recursion DEF Chains
<1>4. g = Step(g)
  <2>1. \A i \in 1 .. n : g[i] = FindFrom(route, g[i - 1], parts[i])
    <3> SUFFICES ASSUME NEW i \in 1 .. n PROVE g[i] = FindFrom(route, g[i - 1], parts[i])
      OBVIOUS
    <3>1. i - 1 \in 0 .. n /\ g[i - 1] \in S
      BY <1>3
    <3> QED
      BY <1>3, <3>1
  <2> HIDE DEF F, S
  <2>2. \A i \in 0 .. n : g[i] = Step(g)[i]
    BY <1>3, <2>1
  <2>3. DOMAIN g = 0 .. n /\ g = [i \in 0 .. n |-> g[i]]
    BY <1>3
  <2> QED
    BY <2>2, <2>3
<1>5. end = Step(end)
  <2> HIDE DEF Step
  <2> QED
    BY <1>4
<1>6. end[0] = 1 /\ \A k \in 1 .. n : end[k] = FindFrom(route, end[k - 1], parts[k])
  <2>1. \A k \in 0 .. n : end[k] = IF k = 0 THEN 1 ELSE FindFrom(route, end[k - 1], parts[k])
    <3> HIDE DEF end
    <3> QED
      BY <1>5
  <2> HIDE DEF end
  <2> QED
    BY <2>1
<1> DEFINE T == {k \in 0 .. n : end[k] \in S}
<1>7. 0 .. n \subseteq T
  <2>1. 0 \in T
    BY <1>6
  <2>2. ASSUME NEW k \in 0 .. n - 1, k \in T PROVE k + 1 \in T
    <3>1. k + 1 \in 1 .. n /\ (k + 1) - 1 = k /\ k + 1 \in 0 .. n
      BY <2>2
    <3>2. end[k + 1] = FindFrom(route, end[k], parts[k + 1])
      <4> HIDE DEF end
      <4> QED
        BY <1>6, <3>1
    <3>3. end[k] \in S
      BY <2>2
    <3> HIDE DEF end
    <3> QED
      BY <3>1, <3>2, <3>3, FoundType
  <2> HIDE DEF T
  <2> QED
    BY <2>1, <2>2, InductionUpTo
<1> HIDE DEF end
<1> QED
  BY <1>1, <1>6, <1>7

(* Taking each part at its first place finds all of them, if anything      *)
(* does.                                                                   *)
LEMMA GreedyIsRight ==
    ASSUME NEW parts, Len(parts) \in Nat, DOMAIN parts = 1 .. Len(parts), NEW route, Len(route) \in Nat
    PROVE  Ends(parts, route)[Len(parts)] > 0 <=> InOrder(parts, route)
<1> DEFINE n == Len(parts)
           L == Len(route) + 1
           end == Ends(parts, route)
<1>1. /\ end[0] = 1
      /\ \A k \in 1 .. n : end[k] = FindFrom(route, end[k - 1], parts[k])
      /\ \A k \in 0 .. n : end[k] \in 0 .. L
  BY EndsAre
<1> HIDE DEF end
<1>2. ASSUME NEW k \in 1 .. n
      PROVE  /\ end[k - 1] \in 0 .. L /\ end[k] \in 0 .. L /\ k - 1 \in 0 .. n /\ k \in 0 .. n
             /\ end[k] > 0 => /\ end[k - 1] > 0 /\ end[k - 1] <= end[k] /\ OccursAt(parts[k], route, end[k])
             /\ \A i \in 1 .. L : end[k - 1] > 0 /\ end[k - 1] <= i /\ OccursAt(parts[k], route, i) =>
                    end[k] > 0 /\ end[k] <= i
  <2>1. k - 1 \in 0 .. n /\ k \in 0 .. n
    OBVIOUS
  <2>2. end[k - 1] \in 0 .. L /\ end[k] \in 0 .. L
    BY <1>1, <2>1
  <2> DEFINE P == PlacesFrom(route, end[k - 1], parts[k])
  <2>3. /\ P = {} => end[k] = 0
        /\ P # {} => end[k] \in P /\ \A i \in P : end[k] <= i
    <3>1. end[k] = FindFrom(route, end[k - 1], parts[k])
      BY <1>1
    <3>2. ASSUME NEW i \in 0 .. Len(route) + 1, NEW part
          PROVE  /\ PlacesFrom(route, i, part) = {} => FindFrom(route, i, part) = 0
                 /\ PlacesFrom(route, i, part) # {} =>
                      /\ FindFrom(route, i, part) \in PlacesFrom(route, i, part)
                      /\ \A l \in PlacesFrom(route, i, part) : FindFrom(route, i, part) <= l
      BY FirstFound
    <3> QED
      BY <3>1, <3>2, <2>2
  <2>4. P = {i \in end[k - 1] .. L : end[k - 1] > 0 /\ OccursAt(parts[k], route, i)}
    BY DEF PlacesFrom
  <2> HIDE DEF P
  <2>5. end[k] > 0 => /\ end[k - 1] > 0 /\ end[k - 1] <= end[k] /\ OccursAt(parts[k], route, end[k])
    BY <2>2, <2>3, <2>4
  <2>6. ASSUME NEW i \in 1 .. L, end[k - 1] > 0, end[k - 1] <= i, OccursAt(parts[k], route, i)
        PROVE  end[k] > 0 /\ end[k] <= i
    <3>1. i \in P
      BY <2>2, <2>4, <2>6
    <3> QED
      BY <3>1, <2>2, <2>3, <2>4
  <2> QED
    BY <2>1, <2>2, <2>5, <2>6
<1>3. ASSUME end[n] > 0 PROVE InOrder(parts, route)
  <2> DEFINE T == {k \in 0 .. n : end[n - k] > 0}
  <2>1. 0 .. n \subseteq T
    <3>1. 0 \in T
      BY <1>3
    <3>2. ASSUME NEW k \in 0 .. n - 1, k \in T PROVE k + 1 \in T
      <4>1. n - k \in 1 .. n /\ (n - k) - 1 = n - (k + 1) /\ k + 1 \in 0 .. n /\ end[n - k] > 0
        BY <3>2
      <4> QED
        BY <4>1, <1>2
    <3> HIDE DEF T
    <3> QED
      BY <3>1, <3>2, InductionUpTo
  <2>2. ASSUME NEW k \in 1 .. n PROVE end[k] > 0 /\ end[k] \in 1 .. L
    <3>1. n - k \in 0 .. n /\ n - (n - k) = k
      OBVIOUS
    <3>2. end[n - (n - k)] > 0
      BY <3>1, <2>1
    <3> QED
      BY <3>1, <3>2, <1>2
  <2> DEFINE at == [k \in 1 .. n |-> end[k]]
  <2>3. at \in [1 .. n -> 1 .. L]
    BY <2>2
  <2>4. ASSUME NEW k \in 1 .. n
        PROVE  OccursAt(parts[k], route, at[k]) /\ (k > 1 => at[k - 1] <= at[k])
    BY <2>2, <1>2
  <2> HIDE DEF at
  <2> QED
    BY <2>3, <2>4 DEF InOrder
<1>4. ASSUME InOrder(parts, route) PROVE end[n] > 0
  <2>1. PICK at \in [1 .. n -> 1 .. L] :
            \A i \in 1 .. n : OccursAt(parts[i], route, at[i]) /\ (i > 1 => at[i - 1] <= at[i])
    BY <1>4 DEF InOrder
  <2> DEFINE T == {k \in 0 .. n : end[k] > 0 /\ (k > 0 => end[k] <= at[k])}
  <2>2. 0 .. n \subseteq T
    <3>1. 0 \in T
      BY <1>1
    <3>2. ASSUME NEW k \in 0 .. n - 1, k \in T PROVE k + 1 \in T
      <4>1. k + 1 \in 1 .. n /\ (k + 1) - 1 = k /\ k + 1 \in 0 .. n /\ end[k] > 0 /\ (k > 0 => k \in 1 .. n)
        BY <3>2
      <4>2. at[k + 1] \in 1 .. L /\ end[k] \in 0 .. L
        <5>1. at[k + 1] \in 1 .. L
          BY <4>1, <2>1
        <5>2. end[k] \in 0 .. L
          BY <1>1
        <5> QED
          BY <5>1, <5>2
      <4>3. end[k] <= at[k + 1]
        <5>1. CASE k = 0
          BY <5>1, <4>2, <1>1
        <5>2. CASE k > 0
          <6>1. at[k] \in 1 .. L /\ at[k] <= at[k + 1] /\ end[k] <= at[k]
            BY <5>2, <4>1, <3>2, <2>1
          <6> QED
            BY <6>1, <4>2
        <5> QED
          BY <5>1, <5>2
      <4>4. end[k + 1] > 0 /\ end[k + 1] <= at[k + 1]
        BY <4>1, <4>2, <4>3, <2>1, <1>2
      <4> QED
        BY <4>1, <4>4
    <3> HIDE DEF T
    <3> QED
      BY <3>1, <3>2, InductionUpTo
  <2> QED
    BY <2>2
<1> QED
  BY <1>3, <1>4 DEF end

(* A part with something in it leaves something of the route, and an empty *)
(* one is found where it is looked for: after no part the route is at its  *)
(* end, which is where a strict path looks for it.                         *)
LEMMA NeverAtTheEnd ==
    ASSUME NEW parts, IsSequence(parts), \A part \in Range(parts) : IsSequence(part),
           NEW route, IsSequence(route), route # << >>
    PROVE  Ends(parts, route)[Len(parts)] # Len(route) + 1
<1> DEFINE n == Len(parts)
           L == Len(route)
           end == Ends(parts, route)
           T == {k \in 0 .. n : end[k] \in 0 .. L}
<1>1. n \in Nat /\ DOMAIN parts = 1 .. n /\ L \in Nat /\ L > 0
  BY DEF IsSequence
<1>2. /\ end[0] = 1
      /\ \A k \in 1 .. n : end[k] = FindFrom(route, end[k - 1], parts[k])
      /\ \A k \in 0 .. n : end[k] \in 0 .. L + 1
  BY <1>1, EndsAre
<1> HIDE DEF end
<1>3. 0 \in T
  BY <1>1, <1>2
<1>4. ASSUME NEW k \in 0 .. n - 1, k \in T PROVE k + 1 \in T
  <2> DEFINE part == parts[k + 1]
  <2>1. k + 1 \in 1 .. n /\ (k + 1) - 1 = k /\ k + 1 \in 0 .. n /\ end[k] \in 0 .. L
    BY <1>1, <1>4
  <2>2. end[k + 1] = FindFrom(route, end[k], part) /\ end[k + 1] \in 0 .. L + 1
    BY <1>2, <2>1
  <2>3. IsSequence(part)
    BY <1>1, <2>1 DEF Range
  <2>4. Len(part) \in Nat /\ (Len(part) = 0 => part = << >>)
    BY <2>3 DEF IsSequence
  <2> HIDE DEF part
  <2>5. /\ PlacesFrom(route, end[k], part) = {} => end[k + 1] = 0
        /\ PlacesFrom(route, end[k], part) # {} =>
              /\ end[k + 1] \in PlacesFrom(route, end[k], part)
              /\ \A l \in PlacesFrom(route, end[k], part) : end[k + 1] <= l
    <3>1. ASSUME NEW i \in 0 .. Len(route) + 1
          PROVE  /\ PlacesFrom(route, i, part) = {} => FindFrom(route, i, part) = 0
                 /\ PlacesFrom(route, i, part) # {} =>
                      /\ FindFrom(route, i, part) \in PlacesFrom(route, i, part)
                      /\ \A l \in PlacesFrom(route, i, part) : FindFrom(route, i, part) <= l
      BY <1>1, FirstFound
    <3> QED
      BY <3>1, <2>1, <2>2
  <2>6. CASE PlacesFrom(route, end[k], part) = {}
    BY <2>6, <2>5, <2>1, <1>1
  <2>7. CASE PlacesFrom(route, end[k], part) # {}
    <3>1. end[k] > 0 /\ end[k + 1] \in end[k] .. L + 1 /\ OccursAt(part, route, end[k + 1])
      BY <2>7, <2>5 DEF PlacesFrom
    <3>2. CASE Len(part) > 0
      <4>1. end[k + 1] + Len(part) <= L + 1
        BY <3>1 DEF OccursAt
      <4> QED
        BY <4>1, <3>2, <2>1, <2>2, <2>4
    <3>3. CASE Len(part) = 0
      <4>1. part = << >> /\ end[k] \in 1 .. L
        BY <3>3, <2>4, <3>1, <2>1
      <4>2. OccursAt(part, route, end[k])
        BY <4>1, <3>3, <1>1 DEF OccursAt, IsSequence
      <4>3. end[k] \in PlacesFrom(route, end[k], part)
        BY <4>1, <4>2, <1>1 DEF PlacesFrom
      <4>4. end[k + 1] <= end[k]
        BY <4>3, <2>5
      <4> QED
        BY <4>4, <2>1, <2>2, <1>1
    <3> QED
      BY <3>2, <3>3, <2>4
  <2> QED
    BY <2>6, <2>7
<1>5. 0 .. n \subseteq T
  <2> HIDE DEF T, n
  <2> QED
    BY <1>1, <1>3, <1>4, InductionUpTo
<1>6. end[n] \in 0 .. L
  BY <1>5, <1>1
<1> QED
  BY <1>6, <1>1 DEF end

(* What a path excludes: nothing if it is strict, and otherwise the routes *)
(* that have its parts in order.                                           *)
LEMMA MatchesAre ==
    ASSUME NEW path, path.strict \in BOOLEAN, IsSequence(path.parts),
           \A part \in Range(path.parts) : IsSequence(part),
           NEW route, IsSequence(route), route # << >>
    PROVE  MatchesRoute(path, route) <=>
              ~ path.strict /\ path.parts # << << >> >> /\ InOrder(path.parts, route)
<1> DEFINE end == Ends(path.parts, route)[Len(path.parts)]
<1>1. Len(path.parts) \in Nat /\ DOMAIN path.parts = 1 .. Len(path.parts) /\ Len(route) \in Nat
  BY DEF IsSequence
<1>2. end > 0 <=> InOrder(path.parts, route)
  BY <1>1, GreedyIsRight
<1>3. end # Len(route) + 1
  BY NeverAtTheEnd
<1>4. MatchesRoute(path, route) <=>
        path.parts # << << >> >> /\ end > 0 /\ (path.strict => end = Len(route) + 1)
  BY DEF MatchesRoute
<1> HIDE DEF end
<1> QED
  BY <1>2, <1>3, <1>4

(* What a path means to exclude has its parts in order.                    *)
LEMMA MeantIsInOrder ==
    ASSUME NEW path, IsSequence(path.parts), \A part \in Range(path.parts) : IsSequence(part),
           NEW route, Len(route) \in Nat, Meant(path, route)
    PROVE  path.parts # << << >> >> /\ InOrder(path.parts, route)
<1> DEFINE parts == path.parts
           n == Len(parts)
           L == Len(route) + 1
<1>1. n \in Nat /\ DOMAIN parts = 1 .. n
  BY DEF IsSequence
<1>2. PICK at \in [1 .. n -> 1 .. L] :
        /\ parts # << << >> >>
        /\ \A i \in 1 .. n : OccursAt(parts[i], route, at[i]) /\ (i < n => at[i] + Len(parts[i]) <= at[i + 1])
  BY <1>1 DEF Meant
<1>3. ASSUME NEW i \in 1 .. n, i > 1 PROVE at[i - 1] <= at[i]
  <2>1. i - 1 \in 1 .. n /\ i - 1 < n /\ (i - 1) + 1 = i
    BY <1>1, <1>3
  <2>2. at[i - 1] + Len(parts[i - 1]) <= at[i]
    BY <1>2, <2>1
  <2>3. IsSequence(parts[i - 1])
    BY <1>1, <2>1 DEF Range
  <2>4. Len(parts[i - 1]) \in Nat /\ at[i - 1] \in 1 .. L /\ at[i] \in 1 .. L
    <3>1. Len(parts[i - 1]) \in Nat
      BY <2>3 DEF IsSequence
    <3> HIDE DEF n, L
    <3> QED
      BY <3>1, <1>2, <2>1
  <2> QED
    BY <2>2, <2>4
<1> HIDE DEF parts
<1>4. InOrder(parts, route)
  BY <1>1, <1>2, <1>3 DEF InOrder
<1> QED
  BY <1>2, <1>4 DEF parts

-----------------------------------------------------------------------------
(* The exclusion.                                                          *)

(* The text that was found is what was received of a response.             *)
TextIsSent == stage = "found" => \E r \in Responses : text = Received(r.lines)

(* What is received are lines of the response, and not too many.           *)
LEMMA ReceivedIs ==
    ASSUME NEW r \in Responses
    PROVE  /\ IsSequence(r.lines) /\ Range(Received(r.lines)) \subseteq Range(r.lines)
           /\ Len(Received(r.lines)) \in Nat /\ Len(Received(r.lines)) <= MaxBodySize
<1>1. IsSequence(r.lines) /\ MaxBodySize \in Nat
  BY RobotsAssumption
<1>2. r.lines \in Seq(Range(r.lines))
  BY <1>1 DEF IsSequence
<1> DEFINE lines == r.lines
<1>3. ASSUME Len(lines) > MaxBodySize
      PROVE  /\ Len(SubSeq(lines, 1, MaxBodySize)) = MaxBodySize
             /\ Range(SubSeq(lines, 1, MaxBodySize)) \subseteq Range(lines)
  <2> DEFINE S == Range(lines)
  <2>1. lines \in Seq(S)
    BY <1>2
  <2> HIDE DEF lines, S
  <2>2. 1 \in 1 .. Len(lines) + 1 /\ MaxBodySize \in 0 .. Len(lines) /\ Len(lines) \in Nat
    BY <1>1, <1>3, <2>1
  <2>3. /\ DOMAIN SubSeq(lines, 1, MaxBodySize) = 1 .. MaxBodySize
        /\ Len(SubSeq(lines, 1, MaxBodySize)) = MaxBodySize
        /\ \A i \in 1 .. MaxBodySize : SubSeq(lines, 1, MaxBodySize)[i] = lines[i]
    BY <1>1, <2>1, <2>2
  <2>4. \A i \in 1 .. MaxBodySize : i \in DOMAIN lines
    BY <1>1, <2>1, <2>2
  <2> QED
    BY <2>3, <2>4 DEF Range
<1>4. Len(lines) \in Nat
  BY <1>2
<1> HIDE DEF lines
<1>5. /\ Range(Received(lines)) \subseteq Range(lines)
      /\ Len(Received(lines)) \in Nat /\ Len(Received(lines)) <= MaxBodySize
  BY <1>1, <1>3, <1>4 DEF Received
<1> QED
  BY <1>1, <1>5 DEF lines

(* The text that excludes is of a response that has come: Found keeps what *)
(* Received left of it, and nothing writes it afterwards.                  *)
THEOREM TextSent == RobotsSpec => []TextIsSent
<1>1. RobotsInit => TextIsSent
  BY DEF RobotsInit, TextIsSent
<1>2. TextIsSent /\ [RobotsNext]_robotsVars => TextIsSent'
  <2> SUFFICES ASSUME TextIsSent, [RobotsNext]_robotsVars PROVE TextIsSent'
    OBVIOUS
  <2>1. CASE UNCHANGED robotsVars
    BY <2>1 DEF TextIsSent, robotsVars
  <2>2. CASE RobotsNext
    <3>1. PICK r \in Responses : Found(r) \/ Fail(r) \/ Follow(r) \/ Climb(r)
      BY <2>2 DEF RobotsNext
    <3>2. CASE Found(r)
      BY <3>2 DEF Found, TextIsSent
    <3>3. CASE Fail(r)
      BY <3>3 DEF Fail, TextIsSent
    <3>4. CASE Follow(r)
      BY <3>4 DEF Follow, Asking, TextIsSent
    <3>5. CASE Climb(r)
      BY <3>5 DEF Climb, Asking, TextIsSent
    <3> QED
      BY <3>1, <3>2, <3>3, <3>4, <3>5
  <2> QED
    BY <2>1, <2>2
<1> QED
  BY <1>1, <1>2, PTL DEF RobotsSpec

(* Whatever is sent, and for every route: what a rule that is not strict   *)
(* means to exclude is excluded, nothing is excluded without a rule that   *)
(* has its parts there, and there is no delay by no requests.              *)
THEOREM ExclusionIsRight == RobotsSpec => []ExclusionMeansIt
<1>1. TextIsSent => ExclusionMeansIt
  <2> SUFFICES ASSUME TextIsSent, stage = "found" PROVE ExclusionMeansIt
    BY DEF ExclusionMeansIt
  <2>1. PICK r \in Responses : text = Received(r.lines)
    BY DEF TextIsSent
  <2>2. \A l \in Range(text) : l \in Range(r.lines)
    BY <2>1, ReceivedIs
  <2>3. ASSUME NEW path \in Sent("disallow")
        PROVE  /\ path.strict \in BOOLEAN /\ IsSequence(path.parts)
               /\ \A part \in Range(path.parts) : IsSequence(part)
    <3>1. PICK l \in Range(text) : l[1] = "disallow" /\ path = l[2]
      BY <2>3 DEF Sent
    <3> QED
      BY <3>1, <2>2, RobotsAssumption
  <2>4. ASSUME NEW route \in Routes
        PROVE  IsSequence(route) /\ route # << >> /\ Len(route) \in Nat
    BY RobotsAssumption DEF IsSequence
  <2>5. ASSUME NEW path \in Sent("disallow"), NEW route \in Routes
        PROVE  /\ MatchesRoute(path, route) <=>
                    ~ path.strict /\ path.parts # << << >> >> /\ InOrder(path.parts, route)
               /\ Meant(path, route) => path.parts # << << >> >> /\ InOrder(path.parts, route)
    BY <2>3, <2>4, MatchesAre, MeantIsInOrder
  <2>6. Sent("disallow") = Disallowed(text)
    BY DEF Sent, Disallowed
  <2>7. ASSUME NEW path \in Sent("disallow"), NEW route \in Routes, IsDisobeyed(path, route)
        PROVE  path.strict
    <3>1. Meant(path, route) /\ ~ MatchesRoute(path, route)
      BY <2>6, <2>7 DEF IsDisobeyed, Allows
    <3> QED
      BY <3>1, <2>3, <2>5
  <2>8. ASSUME NEW route \in Routes, ~ Allows(text, route)
        PROVE  \E path \in Sent("disallow") : path.parts # << << >> >> /\ InOrder(path.parts, route)
    <3>1. PICK path \in Sent("disallow") : MatchesRoute(path, route)
      BY <2>6, <2>8 DEF Allows
    <3> QED
      BY <3>1, <2>5
  <2>9. \A d \in CrawlDelay(text) : d[2] > 0
    BY DEF CrawlDelay
  <2> QED
    BY <2>7, <2>8, <2>9 DEF ExclusionMeansIt
<1> QED
  BY <1>1, TextSent, PTL

-----------------------------------------------------------------------------
(* The climb.  What is asked is known by its length, for it is what is     *)
(* left of the host when some labels are left out.                         *)

(* d is what is left of the labels without the first ones.                 *)
Domain(d, labels) ==
    Len(d) <= Len(labels) /\ \A i \in 1 .. Len(d) : d[i] = labels[i + (Len(labels) - Len(d))]

(* A domain that may be asked: the host itself, or no top level domain.    *)
MayBeAsked(d, labels) ==
    /\ d \in Seq(Range(labels)) /\ Domain(d, labels)
    /\ d = labels \/ Len(d) >= 2

(* What has been asked is the longer the longer ago that was.              *)
AskedDown ==
    /\ asked \in Seq(Seq(Range(host))) /\ Len(asked) <= MaxHops + 1
    /\ \A i \in 1 .. Len(asked) : MayBeAsked(asked[i], host) /\ Len(base) <= Len(asked[i])
    /\ \A i \in 2 .. Len(asked) : Len(asked[i]) <= Len(asked[i - 1])

(* While it asks, the last hops requests were for base, and the ones       *)
(* before them for longer domains, if there are any.                       *)
AskedSinceClimb ==
    stage = "ask" /\ host # << >> =>
        \A i \in 1 .. Len(asked) : i <= Len(asked) - hops => Len(base) < Len(asked[i])

(* Of as many requests in a row as there may be hops, and one, the last is *)
(* not for what the first was for.                                         *)
NotTooOften ==
    host # << >> => \A i \in 1 .. Len(asked) : i > MaxHops => asked[i] # asked[i - MaxHops]

(* The inductive invariant of a climb.                                     *)
ClimbInv ==
    /\ host \in Hosts
    /\ MayBeAsked(base, host)
    /\ hops \in 0 .. MaxHops - 1
    /\ AskedDown
    /\ AskedSinceClimb
    /\ NotTooOften
    /\ stage = "panicked" => Len(host) = 1
    /\ Len(text) <= MaxBodySize

(* The suffixes of the community module are these domains.                 *)
LEMMA SuffixIs ==
    ASSUME NEW S, NEW s \in Seq(S), NEW t \in Seq(S), Domain(s, t)
    PROVE  IsSuffix(s, t)
<1> DEFINE m == Len(s)
           n == Len(t)
           r == Reverse(s)
           q == Reverse(t)
<1>1. m \in Nat /\ n \in Nat /\ m <= n /\ (\A i \in 1 .. m : s[i] = t[i + (n - m)])
  BY DEF Domain
<1>2. /\ r = [i \in 1 .. m |-> s[(m - i) + 1]]
      /\ q = [i \in 1 .. n |-> t[(n - i) + 1]]
  BY DEF Reverse
<1>3. r \in Seq(S) /\ Len(r) = m
  <2>1. \A i \in 1 .. m : s[(m - i) + 1] \in S
    BY <1>1
  <2> HIDE DEF r
  <2> QED
    BY <1>1, <1>2, <2>1
<1>4. q \in Seq(S) /\ Len(q) = n
  <2>1. \A i \in 1 .. n : t[(n - i) + 1] \in S
    BY <1>1
  <2> HIDE DEF q
  <2> QED
    BY <1>1, <1>2, <2>1
<1>5. ASSUME NEW i \in 1 .. m PROVE r[i] = q[i]
  <2>1. (m - i) + 1 \in 1 .. m /\ ((m - i) + 1) + (n - m) = (n - i) + 1 /\ i \in 1 .. n
    <3> HIDE DEF m, n
    <3> QED
      BY <1>1
  <2>2. s[(m - i) + 1] = t[(n - i) + 1]
    BY <1>1, <2>1
  <2>3. r[i] = s[(m - i) + 1] /\ q[i] = t[(n - i) + 1]
    BY <1>2, <2>1
  <2> QED
    BY <2>2, <2>3
<1> HIDE DEF r, q
<1>6. SubSeq(r, 1, m) = SubSeq(q, 1, m)
  <2>1. /\ SubSeq(r, 1, m) = [i \in 1 .. m |-> r[i]]
        /\ SubSeq(q, 1, m) = [i \in 1 .. m |-> q[i]]
    <3> HIDE DEF m, n
    <3>1. m \in 0 .. Len(r) /\ m \in 0 .. Len(q)
      BY <1>1, <1>3, <1>4
    <3> QED
      BY <3>1, <1>1, <1>3, <1>4
  <2> QED
    BY <2>1, <1>5
<1>7. IsPrefix(r, q)
  BY <1>1, <1>3, <1>4, <1>6 DEF IsPrefix
<1> QED
  BY <1>7 DEF IsSuffix, r, q

(* Of two domains of a host the shorter one is a domain of the longer one. *)
LEMMA DomainOfDomain ==
    ASSUME NEW S, NEW labels \in Seq(S), NEW s \in Seq(S), NEW t \in Seq(S),
           Domain(s, labels), Domain(t, labels), Len(s) <= Len(t)
    PROVE  Domain(s, t)
<1> DEFINE h == Len(labels)
           m == Len(s)
           n == Len(t)
<1>1. h \in Nat /\ m \in Nat /\ n \in Nat /\ m <= n
  OBVIOUS
<1>2. /\ \A i \in 1 .. m : s[i] = labels[i + (h - m)]
      /\ \A i \in 1 .. n : t[i] = labels[i + (h - n)]
  BY DEF Domain
<1>3. ASSUME NEW i \in 1 .. m PROVE s[i] = t[i + (n - m)]
  <2>1. i + (n - m) \in 1 .. n /\ (i + (n - m)) + (h - n) = i + (h - m)
    BY <1>1
  <2>2. t[i + (n - m)] = labels[i + (h - m)]
    BY <2>1, <1>2
  <2> QED
    BY <2>2, <1>2
<1> QED
  BY <1>1, <1>3 DEF Domain

(* What is left when the first label is left out.                          *)
LEMMA TailIsDomain ==
    ASSUME NEW labels, NEW d, MayBeAsked(d, labels), Len(labels) \in Nat, Len(d) > 2
    PROVE  MayBeAsked(Tail(d), labels) /\ Len(Tail(d)) = Len(d) - 1
<1> DEFINE S == Range(labels)
<1>1. d \in Seq(S)
  BY DEF MayBeAsked
<1> HIDE DEF S
<1>2. /\ Tail(d) \in Seq(S) /\ Len(Tail(d)) = Len(d) - 1 /\ Len(d) \in Nat
      /\ \A i \in 1 .. Len(d) - 1 : Tail(d)[i] = d[i + 1]
  BY <1>1
<1>3. Domain(d, labels)
  BY DEF MayBeAsked
<1>4. ASSUME NEW i \in 1 .. Len(d) - 1 PROVE Tail(d)[i] = labels[i + (Len(labels) - (Len(d) - 1))]
  <2>1. i + 1 \in 1 .. Len(d) /\ (i + 1) + (Len(labels) - Len(d)) = i + (Len(labels) - (Len(d) - 1))
    BY <1>2
  <2>2. d[i + 1] = labels[(i + 1) + (Len(labels) - Len(d))]
    BY <1>3, <2>1 DEF Domain
  <2> QED
    BY <1>2, <2>1, <2>2
<1>5. Domain(Tail(d), labels)
  BY <1>2, <1>3, <1>4 DEF Domain
<1> QED
  BY <1>2, <1>5 DEF MayBeAsked, S

(* A sequence without its first element.                                   *)
LEMMA TailIs ==
    ASSUME NEW S, NEW a \in Seq(S), Len(a) > 0
    PROVE  /\ Tail(a) \in Seq(S) /\ Len(Tail(a)) = Len(a) - 1
           /\ \A i \in 1 .. Len(a) - 1 : Tail(a)[i] = a[i + 1]
<1>1. a # << >> /\ Len(a) \in Nat
  OBVIOUS
<1> QED
  BY <1>1

(* A sequence with one element more.                                       *)
LEMMA AppendIs ==
    ASSUME NEW S, NEW a \in Seq(S), NEW b \in S
    PROVE  /\ Append(a, b) \in Seq(S) /\ Len(Append(a, b)) = Len(a) + 1
           /\ Append(a, b)[Len(a) + 1] = b
           /\ \A i \in 1 .. Len(a) : Append(a, b)[i] = a[i]
  OBVIOUS

(* The last bases asked, with one more.                                    *)
LEMMA OneMoreAsked ==
    ASSUME NEW S, NEW a \in Seq(S), Len(a) <= MaxHops + 1, NEW b \in S,
           NEW next, next = IF Len(a) <= MaxHops THEN Append(a, b) ELSE Append(Tail(a), b)
    PROVE  \E o \in {0, 1} :
            /\ o = 1 => Len(a) = MaxHops + 1
            /\ next \in Seq(S) /\ Len(next) = (Len(a) + 1) - o /\ Len(next) <= MaxHops + 1
            /\ next[Len(next)] = b
            /\ \A i \in 1 .. Len(next) - 1 : i + o \in 1 .. Len(a) /\ next[i] = a[i + o]
<1>1. Len(a) \in Nat /\ MaxHops = 5
  BY DEF MaxHops
<1>2. CASE Len(a) <= MaxHops
  <2>1. next = Append(a, b)
    BY <1>2
  <2>2. /\ next \in Seq(S) /\ Len(next) = (Len(a) + 1) - 0 /\ next[Len(next)] = b
        /\ \A i \in 1 .. Len(a) : next[i] = a[i + 0]
    <3>1. \A i \in 1 .. Len(a) : i + 0 = i
      BY <1>1
    <3> QED
      BY <2>1, <3>1, <1>1, AppendIs
  <2>3. /\ Len(next) <= MaxHops + 1
        /\ \A i \in 1 .. Len(next) - 1 : i + 0 \in 1 .. Len(a) /\ next[i] = a[i + 0]
    BY <1>1, <1>2, <2>2
  <2> QED
    BY <2>2, <2>3
<1>3. CASE ~ Len(a) <= MaxHops
  <2> DEFINE t == Tail(a)
  <2>1. next = Append(t, b) /\ Len(a) = MaxHops + 1
    <3>1. next = Append(t, b)
      BY <1>3
    <3>2. ASSUME NEW k \in Nat, k <= MaxHops + 1, ~ k <= MaxHops PROVE k = MaxHops + 1
      BY <1>1, <3>2
    <3>3. Len(a) = MaxHops + 1
      BY <1>1, <1>3, <3>2, Zenon
    <3> QED
      BY <3>1, <3>3
  <2>2. t \in Seq(S) /\ Len(t) = Len(a) - 1 /\ \A i \in 1 .. Len(a) - 1 : t[i] = a[i + 1]
    <3>1. Len(a) > 0
      BY <1>1, <2>1
    <3> QED
      BY <3>1, TailIs
  <2> HIDE DEF t
  <2>3. /\ next \in Seq(S) /\ Len(next) = Len(t) + 1 /\ next[Len(t) + 1] = b
        /\ \A i \in 1 .. Len(t) : next[i] = t[i]
    BY <2>1, <2>2, AppendIs
  <2>4. /\ Len(next) = (Len(a) + 1) - 1 /\ Len(next) <= MaxHops + 1 /\ next[Len(next)] = b
    BY <1>1, <2>1, <2>2, <2>3
  <2>5. ASSUME NEW i \in 1 .. Len(next) - 1 PROVE i + 1 \in 1 .. Len(a) /\ next[i] = a[i + 1]
    <3>1. i \in 1 .. Len(t) /\ i \in 1 .. Len(a) - 1 /\ i + 1 \in 1 .. Len(a)
      BY <1>1, <2>1, <2>2, <2>4
    <3> QED
      BY <3>1, <2>2, <2>3
  <2> QED
    BY <2>1, <2>3, <2>4, <2>5
<1> QED
  BY <1>2, <1>3

(* One more request keeps the order of what was asked, and adds to the     *)
(* ones for base.                                                          *)
LEMMA AskingKeeps ==
    ASSUME ClimbInv, stage = "ask",
           NEW next, next = IF Len(asked) <= MaxHops THEN Append(asked, base) ELSE Append(Tail(asked), base)
    PROVE  /\ next \in Seq(Seq(Range(host))) /\ Len(next) <= MaxHops + 1
           /\ \A i \in 1 .. Len(next) : MayBeAsked(next[i], host) /\ Len(base) <= Len(next[i])
           /\ \A i \in 2 .. Len(next) : Len(next[i]) <= Len(next[i - 1])
           /\ host # << >> =>
                /\ \A i \in 1 .. Len(next) : i <= Len(next) - (hops + 1) => Len(base) < Len(next[i])
                /\ \A i \in 1 .. Len(next) : i > MaxHops => next[i] # next[i - MaxHops]
<1> DEFINE S == Seq(Range(host))
           n == Len(next)
           m == Len(asked)
<1>1. /\ asked \in Seq(S) /\ m <= MaxHops + 1 /\ m \in Nat
      /\ \A i \in 1 .. m : MayBeAsked(asked[i], host) /\ Len(base) <= Len(asked[i])
      /\ \A i \in 2 .. m : Len(asked[i]) <= Len(asked[i - 1])
  BY DEF ClimbInv, AskedDown
<1>2. MayBeAsked(base, host) /\ base \in S /\ Len(base) \in Nat /\ hops \in 0 .. MaxHops - 1 /\ MaxHops = 5
  BY DEF ClimbInv, MayBeAsked, MaxHops
<1>3. host # << >> => \A i \in 1 .. m : i <= m - hops => Len(base) < Len(asked[i])
  BY DEF ClimbInv, AskedSinceClimb
<1>4. PICK o \in {0, 1} :
        /\ o = 1 => m = MaxHops + 1
        /\ next \in Seq(S) /\ n = (m + 1) - o /\ n <= MaxHops + 1
        /\ next[n] = base
        /\ \A i \in 1 .. n - 1 : i + o \in 1 .. m /\ next[i] = asked[i + o]
  <2> HIDE DEF S
  <2> QED
    BY <1>1, <1>2, OneMoreAsked
<1> HIDE DEF S, n, m
<1>5. n \in Nat /\ n > 0 /\ o \in {0, 1}
  BY <1>1, <1>4, <1>2
<1>6. ASSUME NEW i \in 1 .. n PROVE MayBeAsked(next[i], host) /\ Len(base) <= Len(next[i])
  <2>1. CASE i = n
    <3>1. next[i] = base
      BY <2>1, <1>4
    <3>2. MayBeAsked(base, host) /\ Len(base) <= Len(base)
      BY <1>2
    <3> QED
      BY <3>1, <3>2
  <2>2. CASE i # n
    <3>1. i \in 1 .. n - 1
      BY <2>2, <1>5
    <3> QED
      BY <3>1, <1>1, <1>4
  <2> QED
    BY <2>1, <2>2
<1>7. ASSUME NEW i \in 2 .. n PROVE Len(next[i]) <= Len(next[i - 1])
  <2>1. i - 1 \in 1 .. n - 1
    BY <1>5
  <2>2. CASE i = n
    BY <2>1, <2>2, <1>1, <1>4
  <2>3. CASE i # n
    <3>1. i \in 1 .. n - 1 /\ i + o \in 2 .. m /\ (i + o) - 1 = (i - 1) + o
      BY <2>3, <1>1, <1>4, <1>5
    <3> QED
      BY <3>1, <2>1, <1>1, <1>4
  <2> QED
    BY <2>2, <2>3
<1>8. ASSUME host # << >>, NEW i \in 1 .. n, i <= n - (hops + 1) PROVE Len(base) < Len(next[i])
  <2>1. i \in 1 .. n - 1 /\ i + o <= m - hops
    BY <1>1, <1>2, <1>4, <1>5, <1>8
  <2>2. i + o \in 1 .. m /\ next[i] = asked[i + o]
    BY <2>1, <1>4
  <2> QED
    BY <2>1, <2>2, <1>3, <1>8
<1>9. ASSUME host # << >>, NEW i \in 1 .. n, i > MaxHops PROVE next[i] # next[i - MaxHops]
  <2>1. i = n /\ n = MaxHops + 1
    BY <1>2, <1>4, <1>5, <1>9
  <2>2. i - MaxHops \in 1 .. n /\ i - MaxHops <= n - (hops + 1)
    BY <2>1, <1>2
  <2>3. Len(base) < Len(next[i - MaxHops])
    BY <2>2, <1>8, <1>9
  <2>4. next[i] = base
    BY <2>1, <1>4
  <2>5. ~ Len(base) < Len(base)
    BY <1>2
  <2> QED
    BY <2>3, <2>4, <2>5
<1> QED
  BY <1>4, <1>6, <1>7, <1>8, <1>9 DEF S, n, m

(* The host itself is asked first.                                         *)
LEMMA ClimbStarts == RobotsInit => ClimbInv
<1> SUFFICES ASSUME RobotsInit PROVE ClimbInv
  OBVIOUS
<1>1. host \in Seq(Range(host)) /\ Len(host) \in Nat
  BY RobotsAssumption DEF RobotsInit, IsSequence
<1>2. Domain(host, host)
  <2>1. \A i \in 1 .. Len(host) : i + (Len(host) - Len(host)) = i
    BY <1>1
  <2> QED
    BY <1>1, <2>1 DEF Domain
<1>3. MayBeAsked(base, host)
  BY <1>1, <1>2 DEF RobotsInit, MayBeAsked
<1>4. asked = << >> /\ Len(asked) = 0 /\ asked \in Seq(Seq(Range(host)))
  BY DEF RobotsInit
<1>5. AskedDown /\ AskedSinceClimb /\ NotTooOften
  BY <1>4 DEF AskedDown, AskedSinceClimb, NotTooOften, MaxHops
<1> QED
  BY <1>3, <1>5, RobotsAssumption DEF RobotsInit, ClimbInv, MaxHops

(* An answer ends the climb, or is followed, or base loses a label and is  *)
(* then shorter than all that was asked.                                   *)
LEMMA ClimbKeeps == ClimbInv /\ [RobotsNext]_robotsVars => ClimbInv'
<1> SUFFICES ASSUME ClimbInv, [RobotsNext]_robotsVars PROVE ClimbInv'
  OBVIOUS
<1>1. CASE UNCHANGED robotsVars
  BY <1>1 DEF ClimbInv, AskedDown, AskedSinceClimb, NotTooOften, robotsVars
<1>2. ASSUME NEW r \in Responses, NEW outcomes, Asking(r, outcomes)
      PROVE  /\ stage = "ask" /\ host' = host
             /\ asked' \in Seq(Seq(Range(host))) /\ Len(asked') <= MaxHops + 1
             /\ \A i \in 1 .. Len(asked') : MayBeAsked(asked'[i], host) /\ Len(base) <= Len(asked'[i])
             /\ \A i \in 2 .. Len(asked') : Len(asked'[i]) <= Len(asked'[i - 1])
             /\ host # << >> =>
                  /\ \A i \in 1 .. Len(asked') : i <= Len(asked') - (hops + 1) => Len(base) < Len(asked'[i])
                  /\ \A i \in 1 .. Len(asked') : i > MaxHops => asked'[i] # asked'[i - MaxHops]
  BY <1>2, AskingKeeps DEF Asking
<1>3. ASSUME NEW r \in Responses, NEW outcomes, Asking(r, outcomes), UNCHANGED base
      PROVE  MayBeAsked(base, host)' /\ AskedDown' /\ NotTooOften'
  BY <1>2, <1>3 DEF AskedDown, NotTooOften, ClimbInv
<1>4. ASSUME NEW r \in Responses, Found(r) PROVE ClimbInv'
  <2>1. MayBeAsked(base, host)' /\ AskedDown' /\ NotTooOften' /\ host' = host
    BY <1>2, <1>3, <1>4 DEF Found
  <2>2. Len(text') <= MaxBodySize
    BY <1>4, ReceivedIs DEF Found
  <2> QED
    BY <1>4, <2>1, <2>2 DEF Found, ClimbInv, AskedSinceClimb
<1>5. ASSUME NEW r \in Responses, Fail(r) PROVE ClimbInv'
  <2>1. MayBeAsked(base, host)' /\ AskedDown' /\ NotTooOften' /\ host' = host
    BY <1>2, <1>3, <1>5 DEF Fail
  <2> QED
    BY <1>5, <2>1 DEF Fail, ClimbInv, AskedSinceClimb
<1>6. ASSUME NEW r \in Responses, Follow(r) PROVE ClimbInv'
  <2>1. MayBeAsked(base, host)' /\ AskedDown' /\ NotTooOften' /\ host' = host
    BY <1>2, <1>3, <1>6 DEF Follow
  <2>2. AskedSinceClimb'
    BY <1>2, <1>6 DEF Follow, AskedSinceClimb
  <2>3. hops' \in 0 .. MaxHops - 1
    BY <1>6 DEF Follow, ClimbInv, MaxHops
  <2> QED
    BY <1>2, <1>6, <2>1, <2>2, <2>3 DEF Follow, ClimbInv
<1>7. ASSUME NEW r \in Responses, Climb(r) PROVE ClimbInv'
  <2>1. Asking(r, {"absolute", "bad status"}) /\ hops' = 0 /\ text' = text /\ host' = host
    BY <1>2, <1>7 DEF Climb
  <2>2. Len(base) \in Nat /\ Len(host) \in Nat /\ MayBeAsked(base, host) /\ host \in Hosts
    BY RobotsAssumption DEF ClimbInv, MayBeAsked, IsSequence
  <2>3. hops' \in 0 .. MaxHops - 1 /\ host' \in Hosts /\ Len(text') <= MaxBodySize
    <3>1. host \in Hosts /\ Len(text) <= MaxBodySize
      BY DEF ClimbInv
    <3>2. 0 \in 0 .. MaxHops - 1
      BY DEF MaxHops
    <3> QED
      BY <2>1, <3>1, <3>2
  <2>4. CASE base = << >> /\ UNCHANGED <<base, stage>>
    <3>1. host = << >> /\ stage' # "panicked"
      <4>1. base = host \/ Len(base) >= 2
        BY <2>2 DEF MayBeAsked
      <4>2. ~ Len(<< >>) >= 2
        OBVIOUS
      <4> QED
        BY <1>2, <2>1, <2>4, <4>1, <4>2
    <3>2. MayBeAsked(base, host)' /\ AskedDown' /\ NotTooOften'
      BY <1>3, <2>1, <2>4
    <3> QED
      BY <2>1, <2>3, <3>1, <3>2 DEF ClimbInv, AskedSinceClimb
  <2>5. CASE Len(base) = 1 /\ stage' = "panicked" /\ UNCHANGED base
    <3>1. MayBeAsked(base, host)' /\ AskedDown' /\ NotTooOften'
      BY <1>3, <2>1, <2>5
    <3>2. Len(host') = 1
      <4>1. base = host \/ Len(base) >= 2
        BY <2>2 DEF MayBeAsked
      <4>2. ~ Len(base) >= 2
        BY <2>5
      <4> QED
        BY <2>1, <2>5, <4>1, <4>2
    <3> QED
      BY <2>3, <2>5, <3>1, <3>2 DEF ClimbInv, AskedSinceClimb
  <2>6. CASE Len(base) = 2 /\ stage' = "none" /\ UNCHANGED base
    <3>1. MayBeAsked(base, host)' /\ AskedDown' /\ NotTooOften'
      BY <1>3, <2>1, <2>6
    <3> QED
      BY <2>3, <2>6, <3>1 DEF ClimbInv, AskedSinceClimb
  <2>7. CASE Len(base) > 2 /\ base' = OneUp(base) /\ UNCHANGED stage
    <3>1. MayBeAsked(base', host) /\ Len(base') = Len(base) - 1
      BY <2>2, <2>7, TailIsDomain DEF OneUp
    <3>2. \A i \in 1 .. Len(asked') : Len(base) <= Len(asked'[i]) /\ Len(asked'[i]) \in Nat
      <4>1. \A i \in 1 .. Len(asked') : Len(base) <= Len(asked'[i]) /\ MayBeAsked(asked'[i], host)
        BY <1>2, <2>1
      <4>2. \A d : MayBeAsked(d, host) => Len(d) \in Nat
        BY DEF MayBeAsked
      <4> QED
        BY <4>1, <4>2
    <3>3. \A i \in 1 .. Len(asked') : Len(base') <= Len(asked'[i]) /\ Len(base') < Len(asked'[i])
      BY <2>2, <3>1, <3>2
    <3>4. AskedDown' /\ NotTooOften'
      BY <1>2, <2>1, <3>3 DEF AskedDown, NotTooOften
    <3>5. AskedSinceClimb'
      BY <3>3 DEF AskedSinceClimb
    <3>6. stage' # "panicked"
      BY <1>2, <2>1, <2>7
    <3> QED
      BY <2>1, <2>3, <3>1, <3>4, <3>5, <3>6 DEF ClimbInv
  <2> QED
    BY <1>7, <2>4, <2>5, <2>6, <2>7 DEF Climb
<1> QED
  BY <1>1, <1>4, <1>5, <1>6, <1>7 DEF RobotsNext

(* What is kept of the last requests is in order, as get_robots goes up    *)
(* from the host: the invariant that RequestsAreFew follows from.          *)
THEOREM RobotsInvariant == RobotsSpec => []ClimbInv
  BY ClimbStarts, ClimbKeeps, PTL DEF RobotsSpec

(* Whatever the hosts and whatever they answer: only the host and the      *)
(* domains above it are asked, from below upwards, each one with no more   *)
(* than the redirects, and only a host of one label makes it panic.        *)
THEOREM FewRequests == RobotsSpec => []RequestsAreFew
<1>1. ClimbInv => RequestsAreFew
  <2> SUFFICES ASSUME ClimbInv PROVE RequestsAreFew
    OBVIOUS
  <2> DEFINE S == Range(host)
  <2>1. host \in Seq(S)
    BY RobotsAssumption DEF ClimbInv, IsSequence
  <2>2. ASSUME NEW d, MayBeAsked(d, host)
        PROVE  IsSuffix(d, host) /\ d \in Seq(S) /\ Domain(d, host) /\ (d = host \/ Len(d) >= 2)
    <3>1. d \in Seq(S) /\ Domain(d, host) /\ (d = host \/ Len(d) >= 2)
      BY <2>2 DEF MayBeAsked
    <3> HIDE DEF S
    <3> QED
      BY <2>1, <3>1, SuffixIs
  <2> HIDE DEF S
  <2>3. hops < MaxHops /\ IsSuffix(base, host) /\ Len(text) <= MaxBodySize
    BY <2>2 DEF ClimbInv, MaxHops
  <2>4. asked \in Seq(Seq(S)) /\ DOMAIN asked = 1 .. Len(asked) /\ Len(asked) \in Nat
    BY DEF ClimbInv, AskedDown, S
  <2>5. ASSUME NEW i \in DOMAIN asked
        PROVE  /\ IsSuffix(asked[i], host)
               /\ asked[i] = host \/ Len(asked[i]) >= 2
               /\ i > 1 => IsSuffix(asked[i], asked[i - 1])
               /\ i > MaxHops /\ host # << >> => asked[i] # asked[i - MaxHops]
    <3>1. i \in 1 .. Len(asked)
      BY <2>4
    <3>2. MayBeAsked(asked[i], host)
      BY <3>1 DEF ClimbInv, AskedDown
    <3>3. ASSUME i > 1 PROVE IsSuffix(asked[i], asked[i - 1])
      <4>1. i - 1 \in 1 .. Len(asked) /\ i \in 2 .. Len(asked)
        BY <2>4, <3>1, <3>3
      <4>2. MayBeAsked(asked[i - 1], host) /\ Len(asked[i]) <= Len(asked[i - 1])
        BY <4>1 DEF ClimbInv, AskedDown
      <4>3. Domain(asked[i], asked[i - 1])
        BY <2>1, <2>2, <3>2, <4>2, DomainOfDomain
      <4> QED
        BY <2>2, <3>2, <4>2, <4>3, SuffixIs
    <3>4. i > MaxHops /\ host # << >> => asked[i] # asked[i - MaxHops]
      BY <3>1 DEF ClimbInv, NotTooOften
    <3> QED
      BY <2>2, <3>2, <3>3, <3>4
  <2>6. stage = "panicked" => Len(host) = 1
    BY DEF ClimbInv
  <2> QED
    BY <2>3, <2>5, <2>6 DEF RequestsAreFew
<1> QED
  BY <1>1, RobotsInvariant, PTL

=============================================================================
