--------------------------- MODULE Origins_proofs ---------------------------
(***************************************************************************)
(* Theorems about Origins, for every number of tasks, every robots.txt and *)
(* every delay, and for timers that fire as late as they like.             *)
(***************************************************************************)
EXTENDS Origins, FiniteSetTheorems, TLAPS

(* A turn gives or takes nothing but what the types allow.                 *)
LEMMA TurnType ==
    ASSUME TypeOK, NEW t \in Tasks, NEW o \in Tasks, NEW r \in Rules, NEW last \in Nat,
           Turn(t, o, r, last)
    PROVE  /\ lastInstant' \in [Tasks -> Nat]
           /\ pc' \in [Tasks -> {"idle", "loading", "sleeping", "download", "done"}]
           /\ origin' \in [Tasks -> Tasks \cup {NoOne}]
           /\ slot' \in [Tasks -> Nat \cup {NoTime}]
           /\ hit' \in [Tasks -> Nat \cup {NoTime}]
<1>1. CrawlDelay(r) \in Nat
  BY LimitAssumption DEF CrawlDelay, Rules
<1>2. NextInstant(last, CrawlDelay(r)) \in Nat
  BY <1>1 DEF NextInstant, TypeOK
<1> QED
  BY <1>2 DEF Turn, TypeOK

(* The types at the start.                                                 *)
LEMMA InitType == Init => TypeOK
  BY SitesAssumption DEF Init, TypeOK, NoRules, Rules

(* The types from step to step.                                            *)
LEMMA NextType == TypeOK /\ [Next]_vars => TypeOK'
<1> SUFFICES ASSUME TypeOK, [Next]_vars PROVE TypeOK'
  OBVIOUS
<1>1. CASE Tick
  BY <1>1 DEF Tick, TypeOK
<1>2. ASSUME NEW t \in Tasks, Share(t) PROVE TypeOK'
  <2>1. origins[Site[t]] \in Tasks
    BY <1>2, SitesAssumption DEF Share, Known, TypeOK
  <2>2. rules[origins[Site[t]]] \in Rules /\ lastInstant[origins[Site[t]]] \in Nat
    BY <2>1 DEF TypeOK
  <2> QED
    BY <1>2, <2>1, <2>2, TurnType DEF Share, TypeOK
<1>3. ASSUME NEW t \in Tasks, Load(t) PROVE TypeOK'
  BY <1>3 DEF Load, TypeOK
<1>4. ASSUME NEW t \in Tasks, Loaded(t) PROVE TypeOK'
  <2>1. PICK r \in Robots[Site[t]] :
          /\ rules' = [rules EXCEPT ![t] = r]
          /\ origins' = [origins EXCEPT ![Site[t]] = t]
          /\ Turn(t, t, r, now)
    BY <1>4 DEF Loaded
  <2>2. r \in Rules /\ now \in Nat
    BY SitesAssumption DEF TypeOK
  <2> QED
    BY <1>4, <2>1, <2>2, TurnType DEF Loaded, TypeOK
<1>5. ASSUME NEW t \in Tasks, Wake(t) PROVE TypeOK'
  BY <1>5 DEF Wake, TypeOK
<1>6. ASSUME NEW t \in Tasks, Finish(t) PROVE TypeOK'
  BY <1>6 DEF Finish, TypeOK
<1>7. CASE UNCHANGED vars
  BY <1>7 DEF vars, TypeOK
<1> QED
  BY <1>1, <1>2, <1>3, <1>4, <1>5, <1>6, <1>7 DEF Next, TaskStep

(* Every variable keeps to its type.                                       *)
THEOREM TypeCorrect == Spec => []TypeOK
  BY InitType, NextType, PTL DEF Spec

-----------------------------------------------------------------------------
(* Who has an Origin value and a slot, and that the values in the map and  *)
(* those given to tasks were made for their site.                          *)
Shape ==
    /\ \A t \in Tasks :
        /\ pc[t] \in {"idle", "loading"} => origin[t] = NoOne
        /\ origin[t] = NoOne => slot[t] = NoTime
        /\ slot[t] = NoTime => hit[t] = NoTime
        /\ pc[t] = "sleeping" => slot[t] # NoTime
        /\ origin[t] # NoOne => origin[origin[t]] = origin[t]
    /\ \A s \in Sites : origins[s] # NoOne =>
        origins[s] \in Values /\ Site[origins[s]] = s
    /\ \A o \in Values : origins[Site[o]] # NoOne

(* The turn of a task with value o, given to it for good or made by it:    *)
(* what Share and Loaded have in common.                                   *)
Goes(t, o, r, last) ==
    /\ pc[t] \in {"idle", "loading"}
    /\ now' = now
    /\ rules' = [rules EXCEPT ![o] = r]
    /\ Turn(t, o, r, last)
    /\ \/ o \in Values /\ r = rules[o] /\ last = lastInstant[o]
       \/ o = t /\ last = now

(* Nobody is given a slot; a request may go out, not before its slot.      *)
Stays ==
    /\ UNCHANGED <<origin, slot, rules, lastInstant, origins>>
    /\ now <= now'
    /\ \A t \in Tasks :
          \/ hit'[t] = hit[t]
          \/ slot[t] # NoTime /\ slot[t] <= now /\ hit'[t] = now

(* Every step is a turn, or gives nobody a slot.                           *)
LEMMA StepKinds ==
    ASSUME TypeOK, Shape, [Next]_vars
    PROVE  \/ \E t \in Tasks, o \in Tasks, r \in Rules, last \in Nat : Goes(t, o, r, last)
           \/ Stays
<1>0. now \in Nat
  BY DEF TypeOK
<1>1. CASE Tick
  <2>1. Stays
    BY <1>1, <1>0 DEF Tick, Stays
  <2> QED
    BY <2>1
<1>2. ASSUME NEW t \in Tasks, Share(t)
      PROVE  \E o \in Tasks, r \in Rules, last \in Nat : Goes(t, o, r, last)
  <2> DEFINE o == origins[Site[t]]
  <2>1. o \in Values /\ o \in Tasks
    BY <1>2, SitesAssumption DEF Share, Known, Shape, Values
  <2>2. rules[o] \in Rules /\ lastInstant[o] \in Nat
    BY <2>1 DEF TypeOK
  <2>3. rules' = [rules EXCEPT ![o] = rules[o]]
    BY <1>2, <2>1 DEF Share, TypeOK
  <2>4. Goes(t, o, rules[o], lastInstant[o])
    BY <1>2, <2>1, <2>3 DEF Share, Goes
  <2> QED
    BY <2>1, <2>2, <2>4
<1>3. ASSUME NEW t \in Tasks, Loaded(t)
      PROVE  \E o \in Tasks, r \in Rules, last \in Nat : Goes(t, o, r, last)
  <2>1. PICK r \in Robots[Site[t]] : rules' = [rules EXCEPT ![t] = r] /\ Turn(t, t, r, now)
    BY <1>3 DEF Loaded
  <2>2. r \in Rules /\ now \in Nat
    BY SitesAssumption DEF TypeOK
  <2>3. Goes(t, t, r, now)
    BY <1>3, <2>1 DEF Loaded, Goes
  <2> QED
    BY <2>2, <2>3
<1>4. ASSUME NEW t \in Tasks, Load(t) \/ Finish(t)
      PROVE  Stays
  BY <1>4, <1>0 DEF Load, Finish, Stays
<1>5. ASSUME NEW t \in Tasks, Wake(t)
      PROVE  Stays
  <2>1. slot[t] # NoTime
    BY <1>5 DEF Wake, Shape
  <2>2. slot[t] <= now
    BY <1>5, <2>1 DEF Wake, Due, TypeOK
  <2> QED
    BY <1>5, <1>0, <2>1, <2>2 DEF Wake, TypeOK, Stays
<1>6. CASE UNCHANGED vars
  <2>1. Stays
    BY <1>6, <1>0 DEF vars, Stays
  <2> QED
    BY <2>1
<1>7. CASE \E t \in Tasks : TaskStep(t)
  BY <1>2, <1>3, <1>4, <1>5, <1>7 DEF TaskStep
<1> QED
  BY <1>1, <1>6, <1>7 DEF Next

(* No task has anything before it begins.                                  *)
LEMMA InitShape == Init => Shape
  BY SitesAssumption DEF Init, Shape, Values

(* A task is given a value of its own, or one that the map holds.          *)
LEMMA NextShape == TypeOK /\ Shape /\ [Next]_vars => Shape'
<1> SUFFICES ASSUME TypeOK, Shape, [Next]_vars PROVE Shape'
  OBVIOUS
<1> USE SitesAssumption DEF Shape, TypeOK, Values
<1>1. CASE Tick
  BY <1>1 DEF Tick
<1>2. ASSUME NEW t \in Tasks, Share(t) PROVE Shape'
  <2>1. origins[Site[t]] \in Tasks /\ origin[origins[Site[t]]] = origins[Site[t]]
    BY <1>2 DEF Share, Known
  <2>2. t # origins[Site[t]]
    BY <1>2, <2>1 DEF Share
  <2> QED
    BY <1>2, <2>1, <2>2 DEF Share, Turn, NoTime
<1>3. ASSUME NEW t \in Tasks, Load(t) PROVE Shape'
  BY <1>3 DEF Load
<1>4. ASSUME NEW t \in Tasks, Loaded(t) PROVE Shape'
  <2>1. PICK r \in Robots[Site[t]] :
          origins' = [origins EXCEPT ![Site[t]] = t] /\ Turn(t, t, r, now)
    BY <1>4 DEF Loaded
  <2>2. origin' = [origin EXCEPT ![t] = t]
    BY <2>1 DEF Turn
  <2>3. origin[t] = NoOne
    BY <1>4 DEF Loaded
  <2>4. \A u \in Tasks : origin'[u] # NoOne => origin'[origin'[u]] = origin'[u]
    BY <2>2, <2>3
  <2>5. \A s \in Sites : origins'[s] # NoOne => origins'[s] \in Values' /\ Site[origins'[s]] = s
    BY <2>1, <2>2
  <2>6. \A o \in Values' : origins'[Site[o]] # NoOne
    BY <2>1, <2>2
  <2>7. \A u \in Tasks :
            /\ pc'[u] \in {"idle", "loading"} => origin'[u] = NoOne
            /\ origin'[u] = NoOne => slot'[u] = NoTime
            /\ slot'[u] = NoTime => hit'[u] = NoTime
            /\ pc'[u] = "sleeping" => slot'[u] # NoTime
    BY <2>1, <2>2, <1>4 DEF Turn, Loaded, NoTime
  <2> QED
    BY <2>4, <2>5, <2>6, <2>7
<1>5. ASSUME NEW t \in Tasks, Wake(t) PROVE Shape'
  BY <1>5 DEF Wake
<1>6. ASSUME NEW t \in Tasks, Finish(t) PROVE Shape'
  BY <1>6 DEF Finish
<1>7. CASE UNCHANGED vars
  BY <1>7 DEF vars
<1> QED
  BY <1>1, <1>2, <1>3, <1>4, <1>5, <1>6, <1>7 DEF Next, TaskStep

-----------------------------------------------------------------------------
(* The next slot of a value lies a delay behind all that it gave.          *)
Ahead ==
    \A o \in Values : \A t \in SlotsOf(o) :
        /\ slot[t] + DefaultDelay <= lastInstant[o]
        /\ slot[t] + rules[o].delay <= lastInstant[o]

(* What a turn does to the slots of every value: those of o gain at most   *)
(* one, which no earlier one is behind, and those of others stay.          *)
LEMMA TurnSlots ==
    ASSUME TypeOK, Shape, Ahead, NEW t \in Tasks, NEW o \in Tasks, NEW r \in Rules, NEW last \in Nat,
           Goes(t, o, r, last)
    PROVE  /\ o \in Values' /\ Values' \subseteq Values \cup {o}
           /\ \A v \in Values \ {o} : SlotsOf(v)' = SlotsOf(v) /\ lastInstant'[v] = lastInstant[v]
           /\ \A v \in Values : rules'[v] = rules[v]
           /\ rules'[o] = r
           /\ o \notin Values => SlotsOf(o) = {}
           /\ t \notin SlotsOf(o)
           /\ \A u \in Tasks \ {t} : slot'[u] = slot[u] /\ hit'[u] = hit[u]
           /\ \A u \in SlotsOf(o) :
                slot[u] + DefaultDelay <= last /\ slot[u] + r.delay <= last
           /\ \/ SlotsOf(o)' = SlotsOf(o) /\ lastInstant'[o] = last
              \/ /\ SlotsOf(o)' = SlotsOf(o) \cup {t}
                 /\ slot'[t] \in Nat /\ last <= slot'[t]
                 /\ slot'[t] + DefaultDelay <= lastInstant'[o]
                 /\ slot'[t] + r.delay <= lastInstant'[o]
                 /\ hit'[t] # NoTime => slot'[t] <= hit'[t] /\ hit'[t] = now
<1> USE DEF TypeOK, Values, SlotsOf
<1>1. origin[t] = NoOne /\ slot[t] = NoTime /\ hit[t] = NoTime
  BY DEF Goes, Shape
<1>2. origin' = [origin EXCEPT ![t] = o]
  BY DEF Goes, Turn
<1>3. o \in Values \/ o = t
  BY DEF Goes
<1>4. t \notin Values
  BY <1>1, SitesAssumption
<1>5. o \in Values' /\ Values' \subseteq Values \cup {o}
  BY <1>1, <1>2, <1>3, <1>4
<1>6. \A u \in Tasks \ {t} : slot'[u] = slot[u] /\ hit'[u] = hit[u]
  BY DEF Goes, Turn
<1>7. \A v \in Values \ {o} : SlotsOf(v)' = SlotsOf(v)
  BY <1>1, <1>2, <1>6, SitesAssumption
<1>8. \A v \in Values \ {o} : lastInstant'[v] = lastInstant[v]
  BY DEF Goes, Turn
<1>9. rules'[o] = r /\ \A v \in Values : rules'[v] = rules[v]
  BY <1>4 DEF Goes
<1>10. o \notin Values => SlotsOf(o) = {}
  BY <1>1, <1>3, SitesAssumption DEF Shape
<1>11. \A u \in SlotsOf(o) : slot[u] + DefaultDelay <= last /\ slot[u] + r.delay <= last
  <2>1. CASE o \in Values
    BY <2>1, <1>4 DEF Goes, Ahead
  <2>2. CASE o \notin Values
    BY <2>2, <1>10
  <2> QED
    BY <2>1, <2>2
<1>12. CASE t \in r.disallow
  <2>1. SlotsOf(o)' = SlotsOf(o)
    BY <1>1, <1>2, <1>12 DEF Goes, Turn
  <2>2. lastInstant'[o] = last
    BY <1>12 DEF Goes, Turn
  <2> QED
    BY <1>1, <1>5, <1>6, <1>7, <1>8, <1>9, <1>10, <1>11, <2>1, <2>2
<1>13. CASE t \notin r.disallow
  <2>1. lastInstant'[o] = NextInstant(last, CrawlDelay(r))
    BY <1>13 DEF Goes, Turn
  <2>2. slot'[t] = (IF last > now THEN last ELSE now) /\ (hit'[t] # NoTime => hit'[t] = now /\ slot'[t] = now)
    BY <1>1, <1>13 DEF Goes, Turn
  <2>3. slot'[t] \in Nat /\ last <= slot'[t]
    BY <2>2
  <2>4. SlotsOf(o)' = SlotsOf(o) \cup {t}
    BY <1>2, <1>6, <2>3 DEF NoTime
  <2>5. CrawlDelay(r) \in Nat /\ DefaultDelay <= CrawlDelay(r) /\ r.delay <= CrawlDelay(r)
    BY LimitAssumption DEF CrawlDelay, Rules
  <2>6. r.delay \in Nat /\ DefaultDelay \in Nat
    BY LimitAssumption DEF Rules
  <2>7. slot'[t] + DefaultDelay <= lastInstant'[o] /\ slot'[t] + r.delay <= lastInstant'[o]
    BY <2>1, <2>2, <2>5, <2>6 DEF NextInstant
  <2> QED
    BY <1>1, <1>5, <1>6, <1>7, <1>8, <1>9, <1>10, <1>11, <2>2, <2>3, <2>4, <2>7
<1> QED
  BY <1>12, <1>13

(* Before anything is sent there is nothing to keep apart.                 *)
LEMMA InitPaced == Init => Ahead /\ Paced
  BY SitesAssumption DEF Init, Ahead, Paced, Values

(* A turn gives a slot behind all others of its value, and a sleep does not *)
(* end before its slot.                                                    *)
LEMMA NextPaced == TypeOK /\ Shape /\ Ahead /\ Paced /\ [Next]_vars => (Ahead /\ Paced)'
<1> SUFFICES ASSUME TypeOK, Shape, Ahead, Paced, [Next]_vars PROVE (Ahead /\ Paced)'
  OBVIOUS
<1>1. ASSUME NEW t \in Tasks, NEW o \in Tasks, NEW r \in Rules, NEW last \in Nat,
             Goes(t, o, r, last)
      PROVE  (Ahead /\ Paced)'
  <2>1. \A v \in Values \ {o} : SlotsOf(v)' = SlotsOf(v) /\ lastInstant'[v] = lastInstant[v]
                               /\ rules'[v] = rules[v] /\ t \notin SlotsOf(v)
    <3>1. origin[t] = NoOne
      BY <1>1 DEF Goes, Shape
    <3> QED
      BY <1>1, <3>1, TurnSlots, SitesAssumption DEF SlotsOf, Values
  <2>2. \A v \in Values' : v = o \/ v \in Values \ {o}
    BY <1>1, TurnSlots
  <2>3. \A u \in Tasks \ {t} : slot'[u] = slot[u] /\ hit'[u] = hit[u]
    BY <1>1, TurnSlots
  <2>4. r.delay \in Nat /\ DefaultDelay \in Nat /\ rules'[o] = r
    BY <1>1, TurnSlots, LimitAssumption DEF Rules
  <2>5. \A u \in SlotsOf(o) : /\ u \in Tasks \ {t} /\ slot[u] \in Nat
                            /\ slot[u] + DefaultDelay <= last /\ slot[u] + r.delay <= last
    BY <1>1, TurnSlots DEF SlotsOf, TypeOK
  <2>6. \/ SlotsOf(o)' = SlotsOf(o) /\ lastInstant'[o] = last
        \/ /\ SlotsOf(o)' = SlotsOf(o) \cup {t}
           /\ slot'[t] \in Nat /\ last <= slot'[t]
           /\ slot'[t] + DefaultDelay <= lastInstant'[o]
           /\ slot'[t] + r.delay <= lastInstant'[o]
           /\ hit'[t] # NoTime => slot'[t] <= hit'[t] /\ hit'[t] = now
    BY <1>1, TurnSlots
  <2>7. lastInstant'[o] \in Nat
    BY NextType DEF TypeOK
  <2>8. Ahead'
    <3> SUFFICES ASSUME NEW v \in Values', NEW u \in SlotsOf(v)'
                 PROVE  /\ slot'[u] + DefaultDelay <= lastInstant'[v]
                        /\ slot'[u] + rules'[v].delay <= lastInstant'[v]
      BY DEF Ahead
    <3>1. CASE v = o
      BY <3>1, <2>3, <2>4, <2>5, <2>6, <2>7
    <3>2. CASE v \in Values \ {o}
      BY <3>2, <2>1, <2>3 DEF Ahead, SlotsOf
    <3> QED
      BY <3>1, <3>2, <2>2
  <2>9. \A u \in SlotsOf(o) : hit[u] # NoTime => slot[u] <= hit[u]
    <3>1. CASE o \in Values
      BY <3>1 DEF Paced, HitsOf
    <3>2. CASE o \notin Values
      BY <3>2, <1>1, TurnSlots
    <3> QED
      BY <3>1, <3>2
  <2>10. Paced'
    <3> SUFFICES ASSUME NEW v \in Values'
                 PROVE  /\ \A a, b \in SlotsOf(v)' :
                             a # b =>
                                 \/ slot'[a] + DefaultDelay <= slot'[b] /\ slot'[a] + rules'[v].delay <= slot'[b]
                                 \/ slot'[b] + DefaultDelay <= slot'[a] /\ slot'[b] + rules'[v].delay <= slot'[a]
                        /\ \A a \in SlotsOf(v)' : hit'[a] # NoTime => slot'[a] <= hit'[a]
      BY DEF Paced, HitsOf
    <3>1. CASE v = o
      <4>1. \A a, b \in SlotsOf(o) : a # b =>
                 \/ slot[a] + DefaultDelay <= slot[b] /\ slot[a] + r.delay <= slot[b]
                 \/ slot[b] + DefaultDelay <= slot[a] /\ slot[b] + r.delay <= slot[a]
        <5>1. CASE o \in Values
          BY <5>1, <1>1, TurnSlots DEF Paced
        <5>2. CASE o \notin Values
          BY <5>2, <1>1, TurnSlots
        <5> QED
          BY <5>1, <5>2
      <4>2. \A a \in SlotsOf(o) : /\ a # t /\ slot'[a] = slot[a] /\ hit'[a] = hit[a]
        BY <2>3, <2>5
      <4>3. CASE SlotsOf(o)' = SlotsOf(o)
        BY <3>1, <4>1, <4>2, <4>3, <2>4, <2>9
      <4>4. CASE /\ SlotsOf(o)' = SlotsOf(o) \cup {t}
                 /\ slot'[t] \in Nat /\ last <= slot'[t]
                 /\ hit'[t] # NoTime => slot'[t] <= hit'[t] /\ hit'[t] = now
        <5>1. \A a \in SlotsOf(o) : slot'[a] + DefaultDelay <= slot'[t] /\ slot'[a] + r.delay <= slot'[t]
          BY <4>2, <4>4, <2>4, <2>5
        <5> QED
          BY <3>1, <4>1, <4>2, <4>4, <5>1, <2>4, <2>9
      <4> QED
        BY <4>3, <4>4, <2>6
    <3>2. CASE v \in Values \ {o}
      <4>1. \A a \in SlotsOf(v) : slot'[a] = slot[a] /\ hit'[a] = hit[a]
        BY <3>2, <2>1, <2>3 DEF SlotsOf
      <4> QED
        BY <3>2, <4>1, <2>1 DEF Paced, HitsOf
    <3> QED
      BY <3>1, <3>2, <2>2
  <2> QED
    BY <2>8, <2>10
<1>2. CASE Stays
  <2> USE <1>2 DEF Stays
  <2>1. Values' = Values /\ \A o \in Tasks : SlotsOf(o)' = SlotsOf(o)
    BY DEF Values, SlotsOf
  <2>2. Ahead'
    BY <2>1 DEF Ahead, Values
  <2>3. \A o \in Values : \A t \in HitsOf(o)' : slot'[t] <= hit'[t]
    BY <2>1 DEF Paced, HitsOf, SlotsOf, Values
  <2>4. Paced'
    BY <2>1, <2>3 DEF Paced, Values
  <2> QED
    BY <2>2, <2>4
<1> QED
  BY <1>1, <1>2, StepKinds

(* Whatever Origin value a task goes by, its slot keeps the distance of    *)
(* that value to all others, and its request is not sent before its slot.  *)
THEOREM SlotsAreApart == Spec => []Paced
  BY InitType, NextType, InitShape, NextShape, InitPaced, NextPaced, PTL DEF Spec

-----------------------------------------------------------------------------
(* Those who have made a value for a site, or are at it.                   *)
Makers(s) == {t \in Tasks : Site[t] = s /\ (origin[t] = t \/ pc[t] = "loading")}

FewMakers == \A s \in Sites : Cardinality(Makers(s)) <= MaxTasks

(* Few makers are few values.                                              *)
LEMMA MakersAreEnough == FewMakers => FewValues
<1> SUFFICES ASSUME FewMakers, NEW s \in Sites PROVE Cardinality(ValuesOf(s)) <= MaxTasks
  BY DEF FewValues
<1>1. IsFiniteSet(Makers(s)) /\ ValuesOf(s) \subseteq Makers(s)
  BY SitesAssumption, FS_Subset DEF Makers, ValuesOf, Values
<1>2. /\ IsFiniteSet(ValuesOf(s))
      /\ Cardinality(ValuesOf(s)) <= Cardinality(Makers(s))
  BY <1>1, FS_Subset
<1>3. Cardinality(ValuesOf(s)) \in Nat /\ Cardinality(Makers(s)) \in Nat
  BY <1>1, <1>2, FS_CardinalityType
<1> QED
  BY <1>2, <1>3, LimitAssumption DEF FewMakers

(* Sets of makers that do not grow stay few.                               *)
LEMMA NoNewMaker ==
    ASSUME FewMakers, NEW s \in Sites, Makers(s)' \subseteq Makers(s)
    PROVE  Cardinality(Makers(s)') <= MaxTasks
<1>1. IsFiniteSet(Makers(s))
  BY SitesAssumption, FS_Subset DEF Makers
<1>2. /\ IsFiniteSet(Makers(s)')
      /\ Cardinality(Makers(s)') <= Cardinality(Makers(s))
  BY <1>1, FS_Subset
<1>3. Cardinality(Makers(s)') \in Nat /\ Cardinality(Makers(s)) \in Nat
  BY <1>1, <1>2, FS_CardinalityType
<1> QED
  BY <1>2, <1>3, LimitAssumption DEF FewMakers

(* Nobody makes a value before it begins.                                  *)
LEMMA InitMakers == Init => FewMakers
<1> SUFFICES ASSUME Init, NEW s \in Sites PROVE Cardinality(Makers(s)) <= MaxTasks
  BY DEF FewMakers
<1>1. Makers(s) = {}
  BY SitesAssumption DEF Init, Makers
<1> QED
  BY <1>1, FS_EmptySet, LimitAssumption

(* A task begins to load only for a site without a value, so that the      *)
(* makers it joins are all at it, and so among the tasks that run.         *)
LEMMA NextMakers == TypeOK /\ Shape /\ FewMakers /\ [Next]_vars => FewMakers'
<1> SUFFICES ASSUME TypeOK, Shape, FewMakers, [Next]_vars, NEW s \in Sites
             PROVE  Cardinality(Makers(s)') <= MaxTasks
  BY DEF FewMakers
<1>1. ASSUME NEW t \in Tasks, Load(t) PROVE Cardinality(Makers(s)') <= MaxTasks
  <2>1. CASE Site[t] = s
    <3>1. \A u \in Tasks : Site[u] = s => origin[u] # u
      BY <1>1, <2>1 DEF Load, Known, Shape, Values
    <3>2. Makers(s)' \subseteq Running \cup {t}
      BY <1>1, <3>1 DEF Load, Makers, Running, TypeOK
    <3>3. IsFiniteSet(Running) /\ t \notin Running
      BY <1>1, SitesAssumption, FS_Subset DEF Running, Load
    <3>4. /\ IsFiniteSet(Running \cup {t})
          /\ Cardinality(Running \cup {t}) = Cardinality(Running) + 1
      BY <3>3, FS_AddElement
    <3>5. /\ IsFiniteSet(Makers(s)')
          /\ Cardinality(Makers(s)') <= Cardinality(Running \cup {t})
      BY <3>2, <3>4, FS_Subset
    <3>6. Cardinality(Makers(s)') \in Nat /\ Cardinality(Running) \in Nat
      BY <3>3, <3>5, FS_CardinalityType
    <3>7. Cardinality(Running) < MaxTasks
      BY <1>1 DEF Load
    <3> QED
      BY <3>4, <3>5, <3>6, <3>7, LimitAssumption
  <2>2. CASE Site[t] # s
    <3>1. Makers(s)' \subseteq Makers(s)
      BY <1>1, <2>2 DEF Load, Makers, TypeOK
    <3> QED
      BY <3>1, NoNewMaker
  <2> QED
    BY <2>1, <2>2
<1>2. CASE \A t \in Tasks : ~ Load(t)
  <2>1. ASSUME NEW t \in Tasks, Share(t) PROVE Makers(s)' \subseteq Makers(s)
    <3>1. origins[Site[t]] # t
      BY <2>1, SitesAssumption DEF Share, Known, Shape, Values
    <3>2. origin' = [origin EXCEPT ![t] = origins[Site[t]]]
      BY <2>1 DEF Share, Turn
    <3>3. \A u \in Tasks : pc'[u] = "loading" => pc[u] = "loading"
      BY <2>1 DEF Share, Turn, TypeOK
    <3> QED
      BY <3>1, <3>2, <3>3 DEF Makers, TypeOK
  <2>2. ASSUME NEW t \in Tasks, Loaded(t) PROVE Makers(s)' \subseteq Makers(s)
    <3>1. pc[t] = "loading" /\ origin' = [origin EXCEPT ![t] = t]
      BY <2>2 DEF Loaded, Turn
    <3>2. \A u \in Tasks : pc'[u] = "loading" => pc[u] = "loading"
      BY <2>2 DEF Loaded, Turn, TypeOK
    <3> QED
      BY <3>1, <3>2 DEF Makers, TypeOK
  <2>3. ASSUME NEW t \in Tasks, Wake(t) \/ Finish(t) PROVE Makers(s)' \subseteq Makers(s)
    BY <2>3 DEF Wake, Finish, Makers, TypeOK
  <2>4. Makers(s)' \subseteq Makers(s)
    <3>1. CASE Tick \/ UNCHANGED vars
      BY <3>1 DEF Tick, vars, Makers
    <3>2. CASE \E t \in Tasks : TaskStep(t)
      BY <1>2, <2>1, <2>2, <2>3, <3>2 DEF TaskStep
    <3> QED
      BY <3>1, <3>2 DEF Next
  <2> QED
    BY <2>4, NoNewMaker
<1> QED
  BY <1>1, <1>2

(* The tasks that load a site at once each put their own value into the    *)
(* map, and at most MaxTasks ever do.                                      *)
THEOREM ValuesAreFew == Spec => []FewValues
  BY InitType, NextType, InitShape, NextShape, InitMakers, NextMakers, MakersAreEnough, PTL
     DEF Spec

-----------------------------------------------------------------------------
(* The slots of value o from that of t to the instant x.                   *)
Between(o, t, x) == {u \in SlotsOf(o) : slot[t] <= slot[u] /\ slot[u] <= x}

(* The slots keep the rate, whether their requests have been sent or not.  *)
Spread ==
    \A o \in Values : \A t \in SlotsOf(o) : \A x \in Nat :
        slot[t] <= x => (Cardinality(Between(o, t, x)) - 1) * DefaultDelay <= x - slot[t]

(* No request is of the future.                                            *)
HitsArePast == \A t \in Tasks : hit[t] <= now

(* Nothing is spread before anything is given.                             *)
LEMMA InitSpread == Init => Spread /\ HitsArePast
  BY SitesAssumption DEF Init, Spread, Values, HitsArePast, NoTime

(* A slot behind all others leaves them spread.                            *)
LEMMA OneMore ==
    ASSUME NEW d \in Nat, NEW B, NEW t, IsFiniteSet(B), t \notin B,
           NEW a \in Nat, NEW n \in Nat, NEW x \in Nat, n <= x,
           (Cardinality(B) - 1) * d <= n - d - a
    PROVE  (Cardinality(B \cup {t}) - 1) * d <= x - a
<1> DEFINE c == Cardinality(B)
<1>1. c \in Nat
  BY FS_CardinalityType
<1>2. Cardinality(B \cup {t}) = c + 1
  BY FS_AddElement
<1>3. ASSUME NEW k \in Nat, (k - 1) * d <= n - d - a PROVE (k + 1 - 1) * d <= x - a
  <2>1. (k + 1 - 1) * d = (k - 1) * d + d
    BY <1>3
  <2> QED
    BY <1>3, <2>1
<1> QED
  BY <1>1, <1>2, <1>3

(* A turn keeps the slots spread.                                          *)
LEMMA TurnSpread ==
    ASSUME TypeOK, Shape, Ahead, Spread, NEW t \in Tasks, NEW o \in Tasks, NEW r \in Rules,
           NEW last \in Nat, Goes(t, o, r, last)
    PROVE  Spread'
<1>1. \A u \in Tasks \ {t} : slot'[u] = slot[u]
  BY TurnSlots
<1>2. \A v \in Values : t \notin SlotsOf(v)
  BY SitesAssumption DEF Goes, Shape, Values, SlotsOf
<1>3. \A u \in SlotsOf(o) : /\ u \in Tasks \ {t} /\ slot[u] \in Nat
                            /\ slot[u] + DefaultDelay <= last
  BY TurnSlots DEF SlotsOf, TypeOK
<1>4. DefaultDelay \in Nat
  BY LimitAssumption
<1> SUFFICES ASSUME NEW v \in Values', NEW a \in SlotsOf(v)', NEW x \in Nat, slot'[a] <= x
             PROVE  (Cardinality(Between(v, a, x)') - 1) * DefaultDelay <= x - slot'[a]
  BY DEF Spread
<1>5. CASE v \in Values /\ SlotsOf(v)' = SlotsOf(v)
  <2>1. \A u \in SlotsOf(v) : slot'[u] = slot[u]
    BY <1>1, <1>2, <1>5 DEF SlotsOf
  <2>2. Between(v, a, x)' = Between(v, a, x)
    BY <1>5, <2>1 DEF Between
  <2> QED
    BY <1>5, <2>1, <2>2 DEF Spread
<1>6. CASE /\ v = o
           /\ SlotsOf(o)' = SlotsOf(o) \cup {t}
           /\ slot'[t] \in Nat /\ last <= slot'[t]
  <2>1. \A u \in SlotsOf(o) : u # t /\ slot'[u] = slot[u] /\ slot[u] <= last
    BY <1>1, <1>3, <1>4
  <2>2. IsFiniteSet(SlotsOf(o))
    BY SitesAssumption, FS_Subset DEF SlotsOf
  <2>3. CASE a = t
    <3>1. CASE DefaultDelay = 0
      <4>1. /\ IsFiniteSet(Between(v, a, x)')
            /\ Cardinality(Between(v, a, x)') \in Nat
        <5>1. Between(v, a, x)' \subseteq SlotsOf(o) \cup {t}
          BY <1>6 DEF Between
        <5>2. IsFiniteSet(SlotsOf(o) \cup {t})
          BY <2>2, FS_AddElement
        <5> QED
          BY <5>1, <5>2, FS_Subset, FS_CardinalityType
      <4>2. \A c \in Nat : (c - 1) * DefaultDelay = 0
        BY <3>1
      <4> QED
        BY <4>1, <4>2, <2>3, <1>6
    <3>2. CASE DefaultDelay # 0
      <4>1. Between(v, a, x)' = {t}
        BY <1>3, <1>4, <1>6, <2>1, <2>3, <3>2 DEF Between
      <4>2. Cardinality(Between(v, a, x)') = 1
        BY <4>1, FS_Singleton
      <4>3. (1 - 1) * DefaultDelay = 0
        BY <1>4
      <4> QED
        BY <4>2, <4>3, <1>6, <2>3
    <3> QED
      BY <3>1, <3>2
  <2>4. CASE a \in SlotsOf(o)
    <3>1. o \in Values
      BY <2>4, TurnSlots
    <3>2. slot'[a] = slot[a] /\ slot[a] \in Nat /\ slot[a] + DefaultDelay <= slot'[t]
      BY <1>1, <1>3, <1>4, <1>6, <2>4
    <3>3. CASE slot'[t] <= x
      <4> DEFINE n == slot'[t]
      <4>1. n - DefaultDelay \in Nat /\ slot[a] <= n - DefaultDelay
        BY <1>4, <1>6, <3>2
      <4>2. Between(v, a, x)' = Between(o, a, n - DefaultDelay) \cup {t}
        BY <1>3, <1>4, <1>6, <2>1, <3>2, <3>3 DEF Between
      <4>3. (Cardinality(Between(o, a, n - DefaultDelay)) - 1) * DefaultDelay
              <= n - DefaultDelay - slot[a]
        BY <2>4, <3>1, <4>1 DEF Spread
      <4>4. IsFiniteSet(Between(o, a, n - DefaultDelay)) /\ t \notin Between(o, a, n - DefaultDelay)
        BY <2>1, <2>2, FS_Subset DEF Between
      <4>5. n \in Nat /\ n <= x
        BY <1>6, <3>3
      <4> HIDE DEF n
      <4>6. (Cardinality(Between(o, a, n - DefaultDelay) \cup {t}) - 1) * DefaultDelay <= x - slot[a]
        BY <1>4, <3>2, <4>3, <4>4, <4>5, OneMore
      <4> QED
        BY <3>2, <4>2, <4>6
    <3>4. CASE x < slot'[t]
      <4>1. Between(v, a, x)' = Between(o, a, x)
        BY <1>3, <1>6, <2>1, <3>2, <3>4 DEF Between
      <4> QED
        BY <2>4, <3>1, <3>2, <4>1 DEF Spread
    <3> QED
      BY <1>6, <3>3, <3>4
  <2> QED
    BY <1>6, <2>3, <2>4
<1>7. CASE v = o /\ SlotsOf(o)' = SlotsOf(o)
  <2>1. o \in Values
    BY <1>7, TurnSlots
  <2> QED
    BY <1>5, <1>7, <2>1
<1>8. CASE v \in Values \ {o}
  BY <1>5, <1>8, TurnSlots
<1>9. v = o \/ v \in Values \ {o}
  BY TurnSlots
<1> QED
  BY <1>6, <1>7, <1>8, <1>9, TurnSlots

(* Every step keeps the slots spread.                                      *)
LEMMA NextSpread == TypeOK /\ Shape /\ Ahead /\ Spread /\ [Next]_vars => Spread'
<1> SUFFICES ASSUME TypeOK, Shape, Ahead, Spread, [Next]_vars PROVE Spread'
  OBVIOUS
<1>1. CASE Stays
  <2>1. /\ Values' = Values
        /\ \A o \in Tasks : SlotsOf(o)' = SlotsOf(o)
        /\ slot' = slot
    BY <1>1 DEF Values, SlotsOf, Stays
  <2>2. \A o, t \in Tasks : \A x \in Nat : Between(o, t, x)' = Between(o, t, x)
    BY <2>1 DEF Between
  <2> QED
    BY <2>1, <2>2 DEF Spread, Values, SlotsOf
<1> QED
  BY <1>1, TurnSpread, StepKinds

(* A request is sent now.                                                  *)
LEMMA NextPast == TypeOK /\ Shape /\ HitsArePast /\ [Next]_vars => HitsArePast'
<1> SUFFICES ASSUME TypeOK, Shape, HitsArePast, [Next]_vars PROVE HitsArePast'
  OBVIOUS
<1>1. CASE Stays
  <2> SUFFICES ASSUME NEW t \in Tasks PROVE hit'[t] <= now'
    BY DEF HitsArePast
  <2>1. now \in Nat /\ now' \in Nat /\ now <= now' /\ hit[t] \in Int
    BY <1>1, NextType DEF Stays, TypeOK, NoTime
  <2> QED
    BY <1>1, <2>1 DEF Stays, HitsArePast
<1>2. ASSUME NEW t \in Tasks, NEW o \in Tasks, NEW r \in Rules, NEW last \in Nat,
             Goes(t, o, r, last)
      PROVE  HitsArePast'
  <2>1. now' = now /\ now \in Nat
    BY <1>2 DEF Goes, TypeOK
  <2>2. hit' = hit \/ hit' = [hit EXCEPT ![t] = now]
    BY <1>2 DEF Goes, Turn
  <2>3. hit \in [Tasks -> Nat \cup {NoTime}]
    BY DEF TypeOK
  <2> QED
    BY <2>1, <2>2, <2>3 DEF HitsArePast
<1> QED
  BY <1>1, <1>2, StepKinds

(* The requests that were sent are among the slots until now.              *)
LEMMA SpreadIsLimited == TypeOK /\ Paced /\ Spread /\ HitsArePast => EachIsLimited
<1> SUFFICES ASSUME TypeOK, Paced, Spread, HitsArePast, NEW o \in Values, NEW t \in HitsOf(o)
             PROVE  (Cardinality({u \in HitsOf(o) : slot[u] >= slot[t]}) - 1) * DefaultDelay
                      <= now - slot[t]
  BY DEF EachIsLimited, Limited
<1> DEFINE H == {u \in HitsOf(o) : slot[u] >= slot[t]}
           B == Between(o, t, now)
<1>1. \A u \in HitsOf(o) : u \in SlotsOf(o) /\ slot[u] \in Nat /\ slot[u] <= now
  BY DEF HitsOf, SlotsOf, Paced, HitsArePast, TypeOK, NoTime
<1>2. H \subseteq B
  BY <1>1 DEF Between, TypeOK
<1>3. IsFiniteSet(B)
  BY SitesAssumption, FS_Subset DEF Between, SlotsOf
<1>4. IsFiniteSet(H) /\ Cardinality(H) <= Cardinality(B)
  BY <1>2, <1>3, FS_Subset
<1>5. Cardinality(H) \in Nat /\ Cardinality(B) \in Nat
  BY <1>3, <1>4, FS_CardinalityType
<1>6. (Cardinality(B) - 1) * DefaultDelay <= now - slot[t]
  BY <1>1 DEF Spread, TypeOK
<1>7. \A h, b, d \in Nat : h <= b => (h - 1) * d <= (b - 1) * d
  OBVIOUS
<1> HIDE DEF H, B
<1>8. (Cardinality(H) - 1) * DefaultDelay <= (Cardinality(B) - 1) * DefaultDelay
  BY <1>4, <1>5, <1>7, LimitAssumption
<1>9. /\ (Cardinality(H) - 1) * DefaultDelay \in Int
      /\ (Cardinality(B) - 1) * DefaultDelay \in Int
      /\ now - slot[t] \in Int
  BY <1>1, <1>5, LimitAssumption DEF TypeOK
<1>10. (Cardinality(H) - 1) * DefaultDelay <= now - slot[t]
  BY <1>6, <1>8, <1>9
<1> QED
  BY <1>10 DEF H

(* Each Origin value keeps the rate, with any number of tasks that go by   *)
(* it and however late their timers fire.                                  *)
THEOREM EachKeepsTheRate == Spec => []EachIsLimited
  BY InitType, NextType, InitShape, NextShape, InitPaced, NextPaced,
     InitSpread, NextSpread, NextPast, SpreadIsLimited, PTL DEF Spec

=============================================================================
