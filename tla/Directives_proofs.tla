------------------------- MODULE Directives_proofs -------------------------
(***************************************************************************)
(* Theorems about Loader and Directives, for every disk, every page and    *)
(* every set of boundaries: what a load makes of the disk, by an invariant *)
(* of its stack; what validation leaves; and what comes into the queue.    *)
(***************************************************************************)
EXTENDS Directives, Induction, SequenceTheorems

(* What canonical_path makes of the imports among these items.             *)
Resolved(name, items) ==
    {CanonicalPath(name, items[i][2]) : i \in {i \in DOMAIN items : items[i][1] = "import"}}

(* The files a disk holds.                                                 *)
Held == {disk[f] : f \in DOMAIN disk}

(* The calls that there may be.                                            *)
Frames == [name : NamesOn(disk), items : Held, next : Nat]

(* The k-th item of a call, if it is an import, imports this.              *)
Imports(call, k) == call.items[k][1] = "import"

ImportAt(call, k) == CanonicalPath(call.name, call.items[k][2])

(* The calls under way, each at one of its items or past the last.         *)
StackIsTyped ==
    /\ disk \in Disks
    /\ stack \in Seq(Frames) /\ Len(stack) <= MaxStack
    /\ \A i \in DOMAIN stack : stack[i].next \in 1 .. Len(stack[i].items) + 1

(* The first call has the entry, every other the first file of its name.   *)
CallsHoldFiles ==
    \A i \in DOMAIN stack :
        IF i = 1 THEN Entry \in DOMAIN disk /\ stack[i].name = Main /\ stack[i].items = disk[Entry]
        ELSE There(Candidates(stack[i].name)) # {} /\ stack[i].items = First(Candidates(stack[i].name))

(* A call was made by the one below, for the import before its next item.  *)
CallsAreImports ==
    \A i \in DOMAIN stack :
        i > 1 => /\ stack[i - 1].next > 1
                 /\ Imports(stack[i - 1], stack[i - 1].next - 1)
                 /\ stack[i].name = ImportAt(stack[i - 1], stack[i - 1].next - 1)

(* Whatever a call is done with is known, or what the next one loads.      *)
DoneIsKnown ==
    \A i \in DOMAIN stack : \A k \in 1 .. stack[i].next - 1 :
        Imports(stack[i], k) => \/ ImportAt(stack[i], k) \in DOMAIN modules
                                \/ i < Len(stack) /\ ImportAt(stack[i], k) = stack[i + 1].name

(* A module that is known has the items of its file, and all its imports   *)
(* are known.                                                              *)
ModulesAreFiles ==
    /\ IsFiniteSet(DOMAIN modules)
    /\ \A n \in DOMAIN modules :
        /\ modules[n] \in Held
        /\ Resolved(n, modules[n]) \subseteq DOMAIN modules
        /\ \/ n = Main /\ modules[n] = disk[Entry]
           \/ There(Candidates(n)) # {} /\ modules[n] = First(Candidates(n))

(* A set that has what the entry imports, and what the files of its        *)
(* modules do.                                                             *)
Closed(S) ==
    /\ Entry \in DOMAIN disk => Resolved(Main, disk[Entry]) \subseteq S
    /\ \A n \in S : There(Candidates(n)) # {} => Resolved(n, First(Candidates(n))) \subseteq S

(* A call and a module are in every set that has what they are imported    *)
(* for.                                                                    *)
NothingElse ==
    \A S : Closed(S) => /\ \A i \in DOMAIN stack : i > 1 => stack[i].name \in S
                        /\ DOMAIN modules \subseteq S \cup {Main}

(* What there is in each phase of the load.                                *)
PhaseOK ==
    /\ phase \in {"start", "load", "loaded", "failed", "overflow", "ready", "invalid"}
    /\ phase = "start" => stack = << >>
    /\ phase = "load" => stack # << >>
    /\ phase = "overflow" => Len(stack) = MaxStack
    /\ Loaded => Main \in DOMAIN modules /\ modules[Main] = disk[Entry]

(* The inductive invariant of a load.                                      *)
LoaderInv ==
    /\ StackIsTyped
    /\ CallsHoldFiles
    /\ CallsAreImports
    /\ DoneIsKnown
    /\ ModulesAreFiles
    /\ NothingElse
    /\ PhaseOK

-----------------------------------------------------------------------------
(* Names and the paths of imports.                                         *)

Words == STRING

Names == Seq(Words)

(* What canonical_path makes has no part that leads elsewhere.             *)
Special == {"super", "root", ""}

IsPlain(name) == \A i \in 1 .. Len(name) : name[i] \notin Special

(* All but the last part of a name is a name.                              *)
LEMMA FrontOfName ==
    ASSUME NEW n \in Names, n # << >>
    PROVE  /\ Len(n) \in Nat \ {0} /\ Front(n) = SubSeq(n, 1, Len(n) - 1)
           /\ Front(n) \in Names /\ (IsPlain(n) => IsPlain(Front(n)))
<1>1. Len(n) \in Nat \ {0} /\ n \in Seq(Words)
  BY DEF Names
<1>2. Front(n) = SubSeq(n, 1, Len(n) - 1)
  BY DEF Front
<1>3. PICK m \in Nat : Len(n) = m + 1
  BY <1>1
<1>4. Front(n) = SubSeq(n, 1, m)
  BY <1>2, <1>3
<1>5. SubSeq(n, 1, m) \in Seq(Words)
  <2>1. \A i \in 1 .. m : n[i] \in Words
    BY <1>1, <1>3
  <2> QED
    BY <1>1, <1>3, <2>1, SubSeqProperties
<1>6. Len(SubSeq(n, 1, m)) = m /\ \A i \in 1 .. m : SubSeq(n, 1, m)[i] = n[i]
  BY <1>1, <1>3, SubSeqProperties
<1>7. IsPlain(n) => IsPlain(SubSeq(n, 1, m))
  BY <1>3, <1>6 DEF IsPlain
<1> QED
  BY <1>1, <1>2, <1>4, <1>5, <1>7 DEF Names

(* A part more makes a name of a name.                                     *)
LEMMA AppendedToName ==
    ASSUME NEW n \in Names, NEW part \in Words
    PROVE  /\ Append(n, part) \in Names /\ Len(n) \in Nat /\ Len(Append(n, part)) = Len(n) + 1
           /\ Append(n, part)[Len(n) + 1] = part
           /\ \A i \in 1 .. Len(n) : Append(n, part)[i] = n[i]
  BY DEF Names

(* One part of a path makes a name of a name, and a plain one of a plain   *)
(* one.                                                                    *)
LEMMA ResolvedOnce ==
    ASSUME NEW n \in Names, NEW part \in Words
    PROVE  Resolve(n, part) \in Names /\ (IsPlain(n) => IsPlain(Resolve(n, part)))
<1>1. << >> \in Names /\ IsPlain(<< >>)
  BY DEF Names, IsPlain
<1>2. n # << >> => Front(n) \in Names /\ (IsPlain(n) => IsPlain(Front(n)))
  BY FrontOfName
<1>3. part \notin Special => Append(n, part) \in Names /\ (IsPlain(n) => IsPlain(Append(n, part)))
  <2> SUFFICES ASSUME part \notin Special
               PROVE  Append(n, part) \in Names /\ (IsPlain(n) => IsPlain(Append(n, part)))
    OBVIOUS
  <2>1. /\ Append(n, part) \in Names /\ Len(n) \in Nat /\ Len(Append(n, part)) = Len(n) + 1
        /\ Append(n, part)[Len(n) + 1] = part
        /\ \A i \in 1 .. Len(n) : Append(n, part)[i] = n[i]
    BY AppendedToName
  <2>2. \A i \in 1 .. Len(n) + 1 : i = Len(n) + 1 \/ i \in 1 .. Len(n)
    BY <2>1
  <2> QED
    BY <2>1, <2>2 DEF IsPlain
<1>4. CASE part = "super"
  <2>1. Resolve(n, part) = IF n = << >> THEN << >> ELSE Front(n)
    BY <1>4 DEF Resolve
  <2> QED
    BY <2>1, <1>1, <1>2
<1>5. CASE part = "root"
  <2>1. Resolve(n, part) = << >>
    BY <1>5 DEF Resolve
  <2> QED
    BY <2>1, <1>1
<1>6. CASE part = ""
  <2>1. Resolve(n, part) = n
    BY <1>6 DEF Resolve
  <2> QED
    BY <2>1
<1>7. CASE part \notin Special
  <2>1. Resolve(n, part) = Append(n, part)
    BY <1>7 DEF Resolve, Special
  <2> QED
    BY <2>1, <1>3, <1>7
<1> QED
  BY <1>4, <1>5, <1>6, <1>7 DEF Special

(* The names that the loop over the parts of a path goes through.          *)
Resolving(g, all) ==
    /\ g \in [0 .. Len(all) -> Names]
    /\ g[0] = << >>
    /\ \A k \in 1 .. Len(all) : g[k] = Resolve(g[k - 1], all[k])

(* The recursive definition of CanonicalPath means what it says.           *)
LEMMA CanonicalIs ==
    ASSUME NEW name \in Names, NEW path \in Names
    PROVE  \E g : Resolving(g, name \o path) /\ CanonicalPath(name, path) = g[Len(name \o path)]
<1> DEFINE all == name \o path
           N == Len(all)
           Step(f) == [k \in 0 .. N |-> IF k = 0 THEN << >> ELSE Resolve(f[k - 1], all[k])]
           parts == CHOOSE f : f = Step(f)
           F == [i \in 1 .. N |-> [x \in Names |-> Resolve(x, all[i])]]
<1>1. CanonicalPath(name, path) = parts[N]
  BY DEF CanonicalPath
<1>2. N \in Nat /\ \A i \in 1 .. N : all[i] \in Words
  BY DEF Names
<1>3. << >> \in Names
  BY DEF Names
<1>4. F \in Steps(N, Names)
  <2> HIDE DEF N, all
  <2> QED
    BY <1>2, ResolvedOnce DEF Steps
<1>5. PICK g \in [0 .. N -> Names] : g[0] = << >> /\ \A i \in 1 .. N : g[i] = F[i][g[i - 1]]
  <2> HIDE DEF F, N
  <2> QED
    BY <1>2, <1>3, <1>4, Recursion DEF Chains
<1> HIDE DEF N, all
<1>6. \A i \in 1 .. N : g[i] = Resolve(g[i - 1], all[i])
  <2> SUFFICES ASSUME NEW i \in 1 .. N PROVE g[i] = Resolve(g[i - 1], all[i])
    OBVIOUS
  <2>1. i - 1 \in 0 .. N /\ g[i - 1] \in Names
    BY <1>2, <1>5
  <2> QED
    BY <1>5, <2>1
<1>7. g = Step(g)
  <2> HIDE DEF F
  <2>1. \A i \in 0 .. N : g[i] = Step(g)[i]
    BY <1>2, <1>5, <1>6
  <2>2. DOMAIN g = 0 .. N /\ g = [i \in 0 .. N |-> g[i]]
    BY <1>5
  <2> QED
    BY <2>1, <2>2
<1>8. parts = Step(parts)
  <2> HIDE DEF Step
  <2> QED
    BY <1>7
<1>9. parts = g
  <2> DEFINE T == {k \in 0 .. N : parts[k] = g[k]}
  <2>1. \A k \in 0 .. N : parts[k] = IF k = 0 THEN << >> ELSE Resolve(parts[k - 1], all[k])
    <3> HIDE DEF parts
    <3> QED
      BY <1>8
  <2>2. DOMAIN parts = 0 .. N /\ parts = [k \in 0 .. N |-> parts[k]]
    <3> HIDE DEF parts
    <3> QED
      BY <1>8
  <2> HIDE DEF parts, F
  <2>3. 0 \in T
    BY <1>2, <1>5, <2>1
  <2>4. ASSUME NEW k \in 0 .. N - 1, k \in T PROVE k + 1 \in T
    <3>1. k + 1 \in 1 .. N /\ (k + 1) - 1 = k /\ k + 1 \in 0 .. N /\ k + 1 # 0
      BY <1>2, <2>4
    <3>2. parts[k + 1] = Resolve(parts[k], all[k + 1]) /\ g[k + 1] = Resolve(g[k], all[k + 1])
      BY <1>6, <2>1, <3>1
    <3> QED
      BY <2>4, <3>1, <3>2
  <2>5. 0 .. N \subseteq T
    <3> HIDE DEF T
    <3> QED
      BY <1>2, <2>3, <2>4, InductionUpTo
  <2>6. \A k \in 0 .. N : parts[k] = g[k]
    BY <2>5
  <2> QED
    BY <1>5, <2>2, <2>6
<1>10. Resolving(g, all)
  BY <1>5, <1>6 DEF Resolving, N
<1>11. CanonicalPath(name, path) = g[N]
  <2> HIDE DEF parts
  <2> QED
    BY <1>1, <1>9
<1> QED
  BY <1>10, <1>11 DEF N, all

(* Names that canonical_path makes are plain.                              *)
LEMMA CanonicalIsPlain ==
    ASSUME NEW name \in Names, NEW path \in Names
    PROVE  CanonicalPath(name, path) \in Names /\ IsPlain(CanonicalPath(name, path))
<1>1. PICK all : all = name \o path
  OBVIOUS
<1>2. Len(all) \in Nat /\ \A i \in 1 .. Len(all) : all[i] \in Words
  BY <1>1 DEF Names
<1>3. PICK g : Resolving(g, all) /\ CanonicalPath(name, path) = g[Len(all)]
  BY <1>1, CanonicalIs
<1> DEFINE T == {k \in 0 .. Len(all) : IsPlain(g[k])}
<1>4. 0 \in T
  BY <1>2, <1>3 DEF Resolving, IsPlain
<1>5. ASSUME NEW k \in 0 .. Len(all) - 1, k \in T PROVE k + 1 \in T
  <2>1. k + 1 \in 1 .. Len(all) /\ (k + 1) - 1 = k /\ k + 1 \in 0 .. Len(all) /\ k \in 0 .. Len(all)
    BY <1>2, <1>5
  <2>2. g[k + 1] = Resolve(g[k], all[k + 1]) /\ g[k] \in Names /\ all[k + 1] \in Words
    BY <1>2, <1>3, <2>1 DEF Resolving
  <2> QED
    BY <1>5, <2>1, <2>2, ResolvedOnce
<1>6. 0 .. Len(all) \subseteq T
  <2> HIDE DEF T
  <2> QED
    BY <1>2, <1>4, <1>5, InductionUpTo
<1> QED
  BY <1>2, <1>3, <1>6 DEF Resolving

(* The walk that Named goes, from the module that imports.                 *)
Walking(h, name, path) ==
    /\ h \in [0 .. Len(path) -> SUBSET Names]
    /\ h[0] = {name}
    /\ \A k \in 1 .. Len(path) : h[k] = UNION {Leads(n, path[k]) : n \in h[k - 1]}

(* A part leads nowhere, or where canonical_path goes.                     *)
LEMMA LeadsOnce ==
    ASSUME NEW n, NEW part
    PROVE  Leads(n, part) \subseteq {Resolve(n, part)}
  BY DEF Leads, Resolve, Main

(* The recursive definition of Named means what it says.                   *)
LEMMA NamedIs ==
    ASSUME NEW name \in Names, NEW path \in Names
    PROVE  \E h : Walking(h, name, path) /\ Named(name, path) = h[Len(path)]
<1> DEFINE N == Len(path)
           S == SUBSET Names
           Step(f) == [k \in 0 .. N |-> IF k = 0 THEN {name} ELSE UNION {Leads(n, path[k]) : n \in f[k - 1]}]
           at == CHOOSE f : f = Step(f)
           F == [i \in 1 .. N |-> [x \in S |-> UNION {Leads(n, path[i]) : n \in x}]]
<1>1. Named(name, path) = at[N]
  BY DEF Named
<1>2. N \in Nat /\ \A i \in 1 .. N : path[i] \in Words
  BY DEF Names
<1>3. {name} \in S
  OBVIOUS
<1>4. ASSUME NEW i \in 1 .. N, NEW x \in S
      PROVE  UNION {Leads(n, path[i]) : n \in x} \in S
  <2>1. path[i] \in Words
    BY <1>2
  <2>2. ASSUME NEW n \in x PROVE Leads(n, path[i]) \subseteq Names
    <3>1. n \in Names
      BY DEF S
    <3>2. Resolve(n, path[i]) \in Names
      BY <2>1, <3>1, ResolvedOnce
    <3> QED
      BY <3>2, LeadsOnce
  <2> QED
    BY <2>2
<1>5. F \in Steps(N, S)
  <2> HIDE DEF N, S
  <2> QED
    BY <1>4 DEF Steps
<1>6. PICK g \in [0 .. N -> S] : g[0] = {name} /\ \A i \in 1 .. N : g[i] = F[i][g[i - 1]]
  <2> HIDE DEF F, N, S
  <2> QED
    BY <1>2, <1>3, <1>5, Recursion DEF Chains
<1> HIDE DEF N, S
<1>7. \A i \in 1 .. N : g[i] = UNION {Leads(n, path[i]) : n \in g[i - 1]}
  <2> SUFFICES ASSUME NEW i \in 1 .. N PROVE g[i] = UNION {Leads(n, path[i]) : n \in g[i - 1]}
    OBVIOUS
  <2>1. i - 1 \in 0 .. N /\ g[i - 1] \in S
    BY <1>2, <1>6
  <2> QED
    BY <1>6, <2>1
<1>8. g = Step(g)
  <2> HIDE DEF F
  <2>1. \A i \in 0 .. N : g[i] = Step(g)[i]
    BY <1>2, <1>6, <1>7
  <2>2. DOMAIN g = 0 .. N /\ g = [i \in 0 .. N |-> g[i]]
    BY <1>6
  <2> QED
    BY <2>1, <2>2
<1>9. at = Step(at)
  <2> HIDE DEF Step
  <2> QED
    BY <1>8
<1>10. /\ DOMAIN at = 0 .. N /\ at = [k \in 0 .. N |-> at[k]]
       /\ \A k \in 0 .. N : at[k] = IF k = 0 THEN {name} ELSE UNION {Leads(n, path[k]) : n \in at[k - 1]}
  <2> HIDE DEF at
  <2> QED
    BY <1>9
<1> HIDE DEF at, F
<1> DEFINE T == {k \in 0 .. N : at[k] = g[k]}
<1>11. 0 \in T
  <2>1. 0 \in 0 .. N
    BY <1>2
  <2>2. at[0] = {name}
    BY <1>10, <2>1
  <2> QED
    BY <1>6, <2>1, <2>2
<1>12. ASSUME NEW k \in 0 .. N - 1, k \in T PROVE k + 1 \in T
  <2>1. k + 1 \in 1 .. N /\ (k + 1) - 1 = k /\ k + 1 \in 0 .. N /\ k + 1 # 0
    BY <1>2, <1>12
  <2>2. /\ at[k + 1] = UNION {Leads(n, path[k + 1]) : n \in at[k]}
        /\ g[k + 1] = UNION {Leads(n, path[k + 1]) : n \in g[k]}
    BY <1>7, <1>10, <2>1
  <2> QED
    BY <1>12, <2>1, <2>2
<1>13. 0 .. N \subseteq T
  <2> HIDE DEF T
  <2> QED
    BY <1>2, <1>11, <1>12, InductionUpTo
<1>14. Walking(g, name, path)
  BY <1>6, <1>7 DEF Walking, N, S
<1>15. Named(name, path) = g[N]
  BY <1>1, <1>2, <1>13
<1> QED
  BY <1>14, <1>15 DEF N

(* Over the parts of a plain name, canonical_path makes that name again.   *)
LEMMA PlainIsKept ==
    ASSUME NEW name \in Names, IsPlain(name), NEW path \in Names,
           NEW g, Resolving(g, name \o path)
    PROVE  g[Len(name)] = name
<1> DEFINE m == Len(name)
           T == {k \in 0 .. m : g[k] = SubSeq(name, 1, k)}
<1>1. /\ m \in Nat /\ Len(path) \in Nat /\ Len(name \o path) = m + Len(path)
      /\ \A i \in 1 .. m : (name \o path)[i] = name[i] /\ name[i] \in Words
  BY DEF Names
<1>2. SubSeq(name, 1, 0) = << >> /\ SubSeq(name, 1, m) = name
  BY DEF Names
<1>3. 0 \in T
  <2>1. 0 \in 0 .. m
    BY <1>1
  <2>2. g[0] = << >>
    BY DEF Resolving
  <2> QED
    BY <1>2, <2>1, <2>2, Zenon
<1>4. ASSUME NEW k \in 0 .. m - 1, k \in T PROVE k + 1 \in T
  <2>1. k + 1 \in 1 .. m /\ k + 1 \in 0 .. m /\ (k + 1) - 1 = k /\ k + 1 \in 1 .. Len(name \o path)
    BY <1>1, <1>4
  <2>2. g[k + 1] = Resolve(SubSeq(name, 1, k), name[k + 1])
    BY <1>1, <1>4, <2>1 DEF Resolving
  <2>3. name[k + 1] \notin Special
    BY <2>1 DEF IsPlain
  <2>4. g[k + 1] = Append(SubSeq(name, 1, k), name[k + 1])
    BY <2>2, <2>3 DEF Resolve, Special
  <2>5. Append(SubSeq(name, 1, k), name[k + 1]) = SubSeq(name, 1, k + 1)
    BY <1>1, <2>1 DEF Names
  <2> QED
    BY <2>1, <2>4, <2>5
<1>5. 0 .. m \subseteq T
  <2> HIDE DEF T, m
  <2> QED
    BY <1>1, <1>3, <1>4, InductionUpTo
<1> QED
  BY <1>1, <1>2, <1>5

(* What a path names, if anything, is what canonical_path makes of it:     *)
(* names being plain, it may as well start above them.                     *)
LEMMA NamedIsCanonical ==
    ASSUME NEW name \in Names, IsPlain(name), NEW path \in Names
    PROVE  Named(name, path) \subseteq {CanonicalPath(name, path)}
<1>1. PICK h : Walking(h, name, path) /\ Named(name, path) = h[Len(path)]
  BY NamedIs
<1>2. PICK g : Resolving(g, name \o path) /\ CanonicalPath(name, path) = g[Len(name \o path)]
  BY CanonicalIs
<1>3. g[Len(name)] = name
  BY <1>2, PlainIsKept
<1>4. PICK m \in Nat : m = Len(name)
  BY DEF Names
<1>5. PICK N \in Nat : N = Len(path)
  BY DEF Names
<1>6. Len(name \o path) = m + N /\ \A j \in 1 .. N : (name \o path)[m + j] = path[j]
  BY <1>4, <1>5 DEF Names
<1> DEFINE T == {j \in 0 .. N : h[j] \subseteq {g[m + j]}}
<1>7. 0 \in T
  BY <1>1, <1>3, <1>4, <1>5 DEF Walking
<1>8. ASSUME NEW j \in 0 .. N - 1, j \in T PROVE j + 1 \in T
  <2>1. j + 1 \in 1 .. N /\ j + 1 \in 0 .. N /\ (j + 1) - 1 = j
        /\ m + (j + 1) \in 1 .. m + N /\ (m + (j + 1)) - 1 = m + j
    BY <1>8
  <2>2. h[j + 1] = UNION {Leads(n, path[j + 1]) : n \in h[j]}
    BY <1>1, <1>5, <2>1 DEF Walking
  <2>3. g[m + (j + 1)] = Resolve(g[m + j], path[j + 1])
    BY <1>2, <1>6, <2>1 DEF Resolving
  <2>4. h[j] \subseteq {g[m + j]}
    BY <1>8
  <2>5. \A n \in h[j] : Leads(n, path[j + 1]) \subseteq {Resolve(g[m + j], path[j + 1])}
    BY <2>4, LeadsOnce
  <2> QED
    BY <2>1, <2>2, <2>3, <2>5
<1>9. 0 .. N \subseteq T
  <2> HIDE DEF T
  <2> QED
    BY <1>7, <1>8, InductionUpTo
<1> QED
  BY <1>1, <1>2, <1>5, <1>6, <1>9

-----------------------------------------------------------------------------
(* Files.                                                                  *)

(* A file holds a sequence of items.                                       *)
LEMMA HeldIsSeq ==
    ASSUME disk \in Disks, NEW items \in Held
    PROVE  items \in Seq(Range(items)) /\ Len(items) \in Nat /\ DOMAIN items = 1 .. Len(items)
<1>1. PICK f \in DOMAIN disk : items = disk[f]
  BY DEF Held
<1>2. items \in Seq(Range(items))
  BY <1>1, LoaderAssumption
<1> QED
  BY <1>2

(* The files that a module may be are two for each directory, all of its   *)
(* name.                                                                   *)
LEMMA CandidatesAre ==
    ASSUME NEW n
    PROVE  /\ DOMAIN Candidates(n) = 1 .. 2 * Len(Roots)
           /\ Len(Roots) \in Nat /\ DOMAIN Roots = 1 .. Len(Roots)
           /\ \A k \in DOMAIN Candidates(n) : Candidates(n)[k][2] = n
  BY LoaderAssumption DEF Candidates

(* What is read is the first of the files there are.                       *)
LEMMA FirstIsThere ==
    ASSUME NEW n, There(Candidates(n)) # {}
    PROVE  First(Candidates(n)) \in Held /\ n \in NamesOn(disk)
<1> DEFINE T == There(Candidates(n))
           m == CHOOSE k \in T : \A l \in T : k <= l
<1>1. T \in SUBSET Nat /\ T # {}
  BY CandidatesAre DEF There
<1>2. \E k \in T : \A l \in T : k <= l
  <2> HIDE DEF T
  <2> QED
    BY <1>1, Least
<1>3. m \in T
  BY <1>2
<1>4. Candidates(n)[m] \in DOMAIN disk /\ Candidates(n)[m][2] = n
  BY <1>3, CandidatesAre DEF There
<1>5. First(Candidates(n)) = disk[Candidates(n)[m]]
  BY DEF First
<1> HIDE DEF m
<1> QED
  BY <1>4, <1>5 DEF Held, NamesOn

(* What is first of the entry alone is the entry.                          *)
LEMMA EntryIsThere ==
    ASSUME There(<<Entry>>) # {}
    PROVE  Entry \in DOMAIN disk /\ First(<<Entry>>) = disk[Entry]
<1>1. There(<<Entry>>) = {1} /\ Entry \in DOMAIN disk
  BY DEF There
<1>2. (CHOOSE k \in {1} : \A l \in {1} : k <= l) = 1
  OBVIOUS
<1> QED
  BY <1>1, <1>2 DEF First

(* What is said of the disk alone stays as the disk does.                  *)
LEMMA HeldOnDisk ==
    disk' = disk => /\ Held' = Held /\ Frames' = Frames
                    /\ \A paths : There(paths)' = There(paths) /\ First(paths)' = First(paths)
                    /\ \A S : Closed(S)' <=> Closed(S)
  BY DEF Held, Frames, There, First, Closed, NamesOn

-----------------------------------------------------------------------------
(* Each step of the load, one part of the invariant after the other.       *)

(* Nothing is loaded at first.                                             *)
LEMMA LoaderStarts ==
    LoaderInit => LoaderInv
<1> SUFFICES ASSUME LoaderInit PROVE LoaderInv
  OBVIOUS
<1>1. stack = << >> /\ DOMAIN modules = {} /\ disk \in Disks /\ phase = "start"
  BY DEF LoaderInit
<1>2. StackIsTyped
  BY <1>1, LoaderAssumption DEF StackIsTyped
<1>3. ModulesAreFiles
  BY <1>1, FS_EmptySet DEF ModulesAreFiles
<1>4. CallsHoldFiles /\ CallsAreImports /\ DoneIsKnown /\ NothingElse /\ PhaseOK
  BY <1>1 DEF CallsHoldFiles, CallsAreImports, DoneIsKnown, NothingElse, PhaseOK, Loaded
<1> QED
  BY <1>2, <1>3, <1>4 DEF LoaderInv

(* What a call holds.                                                      *)
LEMMA Calls ==
    ASSUME StackIsTyped, NEW i \in DOMAIN stack
    PROVE  /\ stack[i] = [name |-> stack[i].name, items |-> stack[i].items, next |-> stack[i].next]
           /\ stack[i].name \in NamesOn(disk) /\ stack[i].items \in Held /\ stack[i].next \in Nat
           /\ Len(stack[i].items) \in Nat /\ DOMAIN stack[i].items = 1 .. Len(stack[i].items)
           /\ Len(stack) \in Nat /\ DOMAIN stack = 1 .. Len(stack) /\ i \in 1 .. Len(stack)
<1>1. stack[i] \in Frames /\ Len(stack) \in Nat /\ DOMAIN stack = 1 .. Len(stack)
  BY DEF StackIsTyped
<1>2. stack[i].items \in Held
  BY <1>1 DEF Frames
<1>3. Len(stack[i].items) \in Nat /\ DOMAIN stack[i].items = 1 .. Len(stack[i].items)
  BY <1>2, HeldIsSeq DEF StackIsTyped
<1> QED
  BY <1>1, <1>2, <1>3 DEF Frames

(* A call in progress is the last one.                                     *)
LEMMA TopIs ==
    ASSUME LoaderInv, phase = "load"
    PROVE  /\ Len(stack) \in Nat \ {0} /\ Len(stack) \in DOMAIN stack /\ Top = stack[Len(stack)]
           /\ DOMAIN stack = 1 .. Len(stack)
<1>1. stack \in Seq(Frames) /\ stack # << >>
  BY DEF LoaderInv, StackIsTyped, PhaseOK
<1> QED
  BY <1>1 DEF Top, Last

(* The call on top goes on to its next item, and all else stays.           *)
LEMMA AdvancedIs ==
    ASSUME LoaderInv, HasNext
    PROVE  /\ Advanced \in Seq(Frames) /\ Len(Advanced) = Len(stack) /\ DOMAIN Advanced = DOMAIN stack
           /\ \A i \in DOMAIN stack :
                /\ Advanced[i].name = stack[i].name /\ Advanced[i].items = stack[i].items
                /\ Advanced[i].next = IF i = Len(stack) THEN stack[i].next + 1 ELSE stack[i].next
<1> DEFINE n == Len(stack)
<1>1. StackIsTyped /\ phase = "load" /\ stack \in Seq(Frames)
  BY DEF LoaderInv, StackIsTyped, HasNext
<1>2. n \in Nat \ {0} /\ n \in DOMAIN stack /\ DOMAIN stack = 1 .. n
  BY <1>1, TopIs
<1> DEFINE f == [name |-> stack[n].name, items |-> stack[n].items, next |-> stack[n].next + 1]
<1>3. stack[n] = [name |-> stack[n].name, items |-> stack[n].items, next |-> stack[n].next]
      /\ stack[n].name \in NamesOn(disk) /\ stack[n].items \in Held /\ stack[n].next \in Nat
  BY <1>1, <1>2, Calls
<1>4. [stack[n] EXCEPT !.next = @ + 1] = f
  BY <1>3
<1>5. f \in Frames
  BY <1>3 DEF Frames
<1>6. Advanced = [stack EXCEPT ![n] = f]
  BY <1>4 DEF Advanced
<1>7. [stack EXCEPT ![n] = f] \in Seq(Frames)
  <2> HIDE DEF f
  <2> QED
    BY <1>1, <1>2, <1>5
<1>8. Len(Advanced) = n /\ DOMAIN Advanced = DOMAIN stack /\ Advanced \in Seq(Frames)
  <2> HIDE DEF f
  <2> QED
    BY <1>1, <1>2, <1>5, <1>6, <1>7
<1>9. \A i \in DOMAIN stack : Advanced[i] = IF i = n THEN f ELSE stack[i]
  <2> HIDE DEF f
  <2> QED
    BY <1>1, <1>2, <1>6
<1> QED
  BY <1>8, <1>9

(* An item that is passed over imports nothing, or what is known: what the *)
(* call is done with stays known.                                          *)
LEMMA SkipKeeps ==
    LoaderInv /\ Skip => LoaderInv'
<1> SUFFICES ASSUME LoaderInv, Skip PROVE LoaderInv'
  OBVIOUS
<1> DEFINE n == Len(stack)
<1>1. HasNext /\ phase = "load" /\ stack' = Advanced /\ disk' = disk /\ modules' = modules /\ phase' = phase
      /\ (NextIsImport => NextImport \in DOMAIN modules)
  BY DEF Skip, HasNext
<1>2. /\ stack' \in Seq(Frames) /\ Len(stack') = n /\ DOMAIN stack' = DOMAIN stack
      /\ \A i \in DOMAIN stack :
            /\ stack'[i].name = stack[i].name /\ stack'[i].items = stack[i].items
            /\ stack'[i].next = IF i = n THEN stack[i].next + 1 ELSE stack[i].next
  BY <1>1, AdvancedIs
<1>3. n \in Nat \ {0} /\ n \in DOMAIN stack /\ Top = stack[n] /\ DOMAIN stack = 1 .. n
  BY <1>1, TopIs
<1>4. /\ Held' = Held /\ Frames' = Frames
      /\ \A paths : There(paths)' = There(paths) /\ First(paths)' = First(paths)
      /\ \A S : Closed(S)' <=> Closed(S)
  BY <1>1, HeldOnDisk
<1>5. StackIsTyped
  BY DEF LoaderInv
<1>6. \A i \in DOMAIN stack : \A k : (Imports(stack'[i], k) <=> Imports(stack[i], k)) /\ ImportAt(stack'[i], k) = ImportAt(stack[i], k)
  BY <1>2 DEF Imports, ImportAt
<1>7. StackIsTyped'
  <2>1. ASSUME NEW i \in DOMAIN stack PROVE stack'[i].next \in 1 .. Len(stack'[i].items) + 1
    <3>1. stack[i].next \in 1 .. Len(stack[i].items) + 1 /\ Len(stack[i].items) \in Nat
      BY <1>5, <2>1, Calls DEF StackIsTyped
    <3>2. i = n => stack[i].next <= Len(stack[i].items)
      BY <1>1, <1>3 DEF HasNext
    <3> QED
      BY <3>1, <3>2, <1>2
  <2> QED
    BY <2>1, <1>1, <1>2, <1>4, <1>5 DEF StackIsTyped
<1>8. CallsHoldFiles'
  BY <1>1, <1>2, <1>4 DEF LoaderInv, CallsHoldFiles
<1>9. CallsAreImports'
  <2> SUFFICES ASSUME NEW i \in DOMAIN stack, i > 1
               PROVE  /\ stack'[i - 1].next > 1
                      /\ Imports(stack'[i - 1], stack'[i - 1].next - 1)
                      /\ stack'[i].name = ImportAt(stack'[i - 1], stack'[i - 1].next - 1)
    BY <1>2 DEF CallsAreImports
  <2>1. i - 1 \in DOMAIN stack /\ i - 1 # n
    BY <1>3
  <2>2. stack'[i - 1].next = stack[i - 1].next /\ stack'[i].name = stack[i].name
    BY <2>1, <1>2
  <2>3. /\ stack[i - 1].next > 1 /\ Imports(stack[i - 1], stack[i - 1].next - 1)
        /\ stack[i].name = ImportAt(stack[i - 1], stack[i - 1].next - 1)
    BY DEF LoaderInv, CallsAreImports
  <2> QED
    BY <2>1, <2>2, <2>3, <1>6
<1>10. DoneIsKnown'
  <2> SUFFICES ASSUME NEW i \in DOMAIN stack, NEW k \in 1 .. stack'[i].next - 1, Imports(stack[i], k)
               PROVE  \/ ImportAt(stack[i], k) \in DOMAIN modules
                      \/ i < n /\ ImportAt(stack[i], k) = stack[i + 1].name
    BY <1>1, <1>2, <1>3, <1>6 DEF DoneIsKnown
  <2>1. CASE i = n /\ k = stack[i].next
    BY <2>1, <1>1, <1>3 DEF NextIsImport, NextImport, Imports, ImportAt
  <2>2. CASE ~ (i = n /\ k = stack[i].next)
    <3>1. k \in 1 .. stack[i].next - 1
      BY <2>2, <1>2, <1>5, Calls
    <3> QED
      BY <3>1 DEF LoaderInv, DoneIsKnown
  <2> QED
    BY <2>1, <2>2
<1>11. ModulesAreFiles'
  BY <1>1, <1>4 DEF LoaderInv, ModulesAreFiles
<1>12. NothingElse'
  BY <1>1, <1>2, <1>4 DEF LoaderInv, NothingElse
<1>13. PhaseOK'
  BY <1>1, <1>2, <1>3 DEF LoaderInv, PhaseOK, Loaded
<1> QED
  BY <1>7, <1>8, <1>9, <1>10, <1>11, <1>12, <1>13 DEF LoaderInv

(* The first call has the entry.                                           *)
LEMMA LoadMainKeeps ==
    LoaderInv /\ LoadMain => LoaderInv'
<1> SUFFICES ASSUME LoaderInv, LoadMain PROVE LoaderInv'
  OBVIOUS
<1>1. disk' = disk /\ modules' = modules /\ phase = "start" /\ stack = << >> /\ DOMAIN stack = {} /\ disk \in Disks
  BY DEF LoadMain, LoaderInv, StackIsTyped, PhaseOK
<1>2. /\ Held' = Held /\ Frames' = Frames
      /\ \A paths : There(paths)' = There(paths) /\ First(paths)' = First(paths)
      /\ \A S : Closed(S)' <=> Closed(S)
  BY <1>1, HeldOnDisk
<1>3. ModulesAreFiles'
  BY <1>1, <1>2 DEF LoaderInv, ModulesAreFiles
<1>4. CASE phase' = "failed" /\ stack' = stack
  <2>1. StackIsTyped' /\ CallsHoldFiles' /\ CallsAreImports' /\ DoneIsKnown' /\ NothingElse' /\ PhaseOK'
    BY <1>1, <1>2, <1>4
    DEF LoaderInv, StackIsTyped, CallsHoldFiles, CallsAreImports, DoneIsKnown, NothingElse, PhaseOK, Loaded
  <2> QED
    BY <2>1, <1>3 DEF LoaderInv
<1>5. CASE Readable(<<Entry>>) /\ phase' = "load" /\ stack' = <<Call(Main, <<Entry>>)>>
  <2>1. Entry \in DOMAIN disk /\ First(<<Entry>>) = disk[Entry]
    BY <1>5, EntryIsThere DEF Readable
  <2> DEFINE f == [name |-> Main, items |-> disk[Entry], next |-> 1]
  <2>2. stack' = <<f>>
    BY <1>5, <2>1 DEF Call
  <2>3. f \in Frames
    BY <2>1 DEF Frames, NamesOn, Held
  <2>4. stack' \in Seq(Frames) /\ Len(stack') = 1 /\ DOMAIN stack' = {1} /\ stack'[1] = f
    <3> HIDE DEF f
    <3> QED
      BY <2>2, <2>3
  <2>5. StackIsTyped'
    <3>1. Len(disk[Entry]) \in Nat
      BY <2>1, <1>1, HeldIsSeq DEF Held
    <3>2. MaxStack \in Nat /\ 1 <= MaxStack
      BY <1>1, LoaderAssumption, FS_CardinalityType
    <3> QED
      BY <3>1, <3>2, <2>4, <1>1, <1>2 DEF StackIsTyped
  <2>6. CallsHoldFiles' /\ CallsAreImports' /\ PhaseOK' /\ DoneIsKnown'
    BY <1>1, <1>2, <1>5, <2>1, <2>4 DEF LoaderInv, CallsHoldFiles, CallsAreImports, DoneIsKnown, PhaseOK, Loaded
  <2>7. NothingElse'
    BY <1>1, <1>2, <2>4 DEF LoaderInv, NothingElse
  <2> QED
    BY <2>5, <2>6, <2>7, <1>3 DEF LoaderInv
<1> QED
  BY <1>4, <1>5 DEF LoadMain

(* What a call imports belongs to whatever has all imports.                *)
LEMMA ImportIsNeeded ==
    ASSUME LoaderInv, HasNext, NextIsImport, NEW S, Closed(S)
    PROVE  NextImport \in S
<1> DEFINE n == Len(stack)
<1>1. n \in DOMAIN stack /\ Top = stack[n]
  BY TopIs DEF HasNext
<1>2. NextImport \in Resolved(stack[n].name, stack[n].items)
  <2>1. stack[n].next \in DOMAIN stack[n].items
    BY <1>1, Calls DEF LoaderInv, StackIsTyped, HasNext
  <2> QED
    BY <2>1, <1>1 DEF NextImport, NextIsImport, Resolved
<1>3. CASE n = 1
  BY <1>1, <1>2, <1>3 DEF Closed, LoaderInv, CallsHoldFiles
<1>4. CASE n # 1
  <2>1. \A i \in DOMAIN stack : i > 1 => stack[i].name \in S
    BY DEF LoaderInv, NothingElse
  <2>2. n > 1
    BY <1>4, TopIs DEF HasNext
  <2>3. stack[n].name \in S
    BY <2>1, <2>2, <1>1
  <2> QED
    BY <1>1, <1>2, <1>4, <2>3 DEF Closed, LoaderInv, CallsHoldFiles
<1> QED
  BY <1>3, <1>4

(* A call for an import holds the first file of its name, and comes from   *)
(* the call below.                                                         *)
LEMMA ImportKeeps ==
    LoaderInv /\ Import => LoaderInv'
<1> SUFFICES ASSUME LoaderInv, Import PROVE LoaderInv'
  OBVIOUS
<1> DEFINE n == Len(stack)
<1>1. HasNext /\ phase = "load" /\ NextIsImport /\ NextImport \notin DOMAIN modules
      /\ disk' = disk /\ modules' = modules
  BY DEF Import, HasNext
<1>2. /\ n \in Nat \ {0} /\ n \in DOMAIN stack /\ Top = stack[n] /\ DOMAIN stack = 1 .. n /\ n = Len(stack)
      /\ n <= MaxStack /\ MaxStack \in Nat
  BY <1>1, TopIs, LoaderAssumption DEF LoaderInv, StackIsTyped
<1>n. n \in Nat \ {0} /\ n <= MaxStack /\ MaxStack \in Nat
  BY <1>2
<1> HIDE DEF n
<1>3. /\ Held' = Held /\ Frames' = Frames
      /\ \A paths : There(paths)' = There(paths) /\ First(paths)' = First(paths)
      /\ \A S : Closed(S)' <=> Closed(S)
  BY <1>1, HeldOnDisk
<1>4. ModulesAreFiles'
  BY <1>1, <1>3 DEF LoaderInv, ModulesAreFiles
<1>5. CASE stack' = stack /\ (phase' = "failed" \/ (phase' = "overflow" /\ n = MaxStack))
  <2>1. StackIsTyped' /\ CallsHoldFiles' /\ CallsAreImports' /\ DoneIsKnown' /\ NothingElse' /\ PhaseOK'
    BY <1>1, <1>2, <1>3, <1>5
    DEF LoaderInv, StackIsTyped, CallsHoldFiles, CallsAreImports, DoneIsKnown, NothingElse, PhaseOK, Loaded
  <2> QED
    BY <2>1, <1>4 DEF LoaderInv
<1> DEFINE paths == Candidates(NextImport)
           call == [name |-> NextImport, items |-> First(paths), next |-> 1]
<1>6. CASE Readable(paths) /\ n # MaxStack /\ stack' = Append(Advanced, Call(NextImport, paths)) /\ phase' = phase
  <2>1. There(paths) # {} /\ First(paths) \in Held /\ NextImport \in NamesOn(disk)
    BY <1>6, FirstIsThere DEF Readable
  <2>2. stack' = Append(Advanced, call)
    BY <1>6 DEF Call
  <2>3. call \in Frames
    BY <2>1 DEF Frames
  <2>4. /\ Advanced \in Seq(Frames) /\ Len(Advanced) = n
        /\ \A i \in DOMAIN stack :
              /\ Advanced[i].name = stack[i].name /\ Advanced[i].items = stack[i].items
              /\ Advanced[i].next = IF i = n THEN stack[i].next + 1 ELSE stack[i].next
    BY <1>1, <1>2, AdvancedIs
  <2>5. /\ stack' \in Seq(Frames) /\ Len(stack') = n + 1 /\ DOMAIN stack' = 1 .. n + 1
        /\ stack'[n + 1] = call /\ \A i \in 1 .. n : stack'[i] = Advanced[i]
    <3> HIDE DEF call
    <3> QED
      BY <2>2, <2>3, <2>4, <1>2
  <2>6. /\ stack'[n + 1].name = NextImport /\ stack'[n + 1].items = First(paths) /\ stack'[n + 1].next = 1
        /\ \A i \in 1 .. n :
              /\ stack'[i].name = stack[i].name /\ stack'[i].items = stack[i].items
              /\ stack'[i].next = IF i = n THEN stack[i].next + 1 ELSE stack[i].next
    BY <2>4, <2>5, <1>2
  <2>7. \A i \in 1 .. n : \A k :
            (Imports(stack'[i], k) <=> Imports(stack[i], k)) /\ ImportAt(stack'[i], k) = ImportAt(stack[i], k)
    BY <2>6 DEF Imports, ImportAt
  <2>8. Imports(stack[n], stack[n].next) /\ ImportAt(stack[n], stack[n].next) = NextImport
    BY <1>1, <1>2 DEF NextIsImport, NextImport, Imports, ImportAt
  <2> HIDE DEF paths, call
  <2>9. \A i \in 1 .. n : /\ stack[i].next \in 1 .. Len(stack[i].items) + 1 /\ Len(stack[i].items) \in Nat
                          /\ i = n => stack[i].next <= Len(stack[i].items)
    BY <1>1, <1>2, Calls DEF LoaderInv, StackIsTyped, HasNext
  <2>10. StackIsTyped'
    <3>1. \A i \in 1 .. n : stack'[i].next \in 1 .. Len(stack'[i].items) + 1
      BY <2>6, <2>9
    <3>2. Len(stack'[n + 1].items) \in Nat
      BY <2>1, <2>6, HeldIsSeq DEF LoaderInv, StackIsTyped
    <3>3. n + 1 <= MaxStack
      <4>1. n # MaxStack
        BY <1>6
      <4> QED
        BY <4>1, <1>n
    <3>4. \A i \in 1 .. n + 1 : (i \in 1 .. n) \/ (i = n + 1)
      BY <1>2
    <3>5. \A i \in 1 .. n + 1 : stack'[i].next \in 1 .. Len(stack'[i].items) + 1
      BY <3>1, <3>2, <3>4, <2>6
    <3> QED
      BY <3>3, <3>5, <2>5, <1>1, <1>3 DEF LoaderInv, StackIsTyped
  <2>11. CallsHoldFiles'
    <3> SUFFICES ASSUME NEW i \in 1 .. n + 1
                 PROVE  IF i = 1
                        THEN Entry \in DOMAIN disk /\ stack'[i].name = Main /\ stack'[i].items = disk[Entry]
                        ELSE /\ There(Candidates(stack'[i].name)) # {}
                             /\ stack'[i].items = First(Candidates(stack'[i].name))
      BY <2>5, <1>1, <1>3 DEF CallsHoldFiles
    <3>1. CASE i \in 1 .. n
      BY <3>1, <2>6, <1>2 DEF LoaderInv, CallsHoldFiles
    <3>2. CASE i = n + 1
      <4>1. stack'[i].name = NextImport /\ stack'[i].items = First(Candidates(NextImport))
        BY <3>2, <2>6 DEF paths
      <4>3. i # 1
        BY <3>2, <1>n
      <4>2. There(Candidates(NextImport)) # {}
        BY <2>1 DEF paths
      <4> QED
        BY <4>1, <4>2, <4>3
    <3> QED
      BY <3>1, <3>2, <1>2
  <2>12. CallsAreImports'
    <3> SUFFICES ASSUME NEW i \in 1 .. n + 1, i > 1
                 PROVE  /\ stack'[i - 1].next > 1
                        /\ Imports(stack'[i - 1], stack'[i - 1].next - 1)
                        /\ stack'[i].name = ImportAt(stack'[i - 1], stack'[i - 1].next - 1)
      BY <2>5 DEF CallsAreImports
    <3>1. CASE i = n + 1
      <4>1. i - 1 = n /\ n \in 1 .. n
        BY <3>1, <1>2
      <4>2. stack[n].next \in 1 .. Len(stack[n].items) + 1 /\ Len(stack[n].items) \in Nat
        BY <4>1, <2>9
      <4>3. stack'[n].next = stack[n].next + 1 /\ stack'[n].next > 1 /\ stack'[n].next - 1 = stack[n].next
        BY <4>1, <4>2, <2>6
      <4>4. Imports(stack'[n], stack[n].next) /\ ImportAt(stack'[n], stack[n].next) = NextImport
        BY <4>1, <2>7, <2>8
      <4>5. stack'[i].name = NextImport
        BY <3>1, <2>6
      <4> QED
        BY <4>1, <4>3, <4>4, <4>5
    <3>2. CASE i # n + 1
      <4>1. i \in 1 .. n /\ i - 1 \in 1 .. n /\ i - 1 # n
        BY <3>2, <1>2
      <4>2. stack'[i - 1].next = stack[i - 1].next /\ stack'[i].name = stack[i].name
        BY <4>1, <2>6
      <4>3. /\ stack[i - 1].next > 1 /\ Imports(stack[i - 1], stack[i - 1].next - 1)
            /\ stack[i].name = ImportAt(stack[i - 1], stack[i - 1].next - 1)
        BY <4>1, <1>2 DEF LoaderInv, CallsAreImports
      <4> QED
        BY <4>1, <4>2, <4>3, <2>7
    <3> QED
      BY <3>1, <3>2
  <2>13. DoneIsKnown'
    <3> SUFFICES ASSUME NEW i \in 1 .. n + 1, NEW k \in 1 .. stack'[i].next - 1, Imports(stack'[i], k)
                 PROVE  \/ ImportAt(stack'[i], k) \in DOMAIN modules
                        \/ i < n + 1 /\ ImportAt(stack'[i], k) = stack'[i + 1].name
      BY <1>1, <2>5 DEF DoneIsKnown
    <3>1. i \in 1 .. n
      <4>1. i # n + 1
        BY <2>6
      <4> QED
        BY <4>1, <1>2
    <3>2. CASE i = n /\ k = stack[i].next
      BY <3>1, <3>2, <2>6, <2>7, <2>8, <1>2
    <3>3. CASE ~ (i = n /\ k = stack[i].next)
      <4>1. k \in 1 .. stack[i].next - 1
        BY <3>1, <3>3, <2>6, <2>9
      <4>2. \/ ImportAt(stack[i], k) \in DOMAIN modules
            \/ i < n /\ ImportAt(stack[i], k) = stack[i + 1].name
        BY <4>1, <3>1, <2>7, <1>2 DEF LoaderInv, DoneIsKnown
      <4>3. i < n => i + 1 \in 1 .. n /\ stack'[i + 1].name = stack[i + 1].name
        <5>1. i < n => i + 1 \in 1 .. n
          BY <3>1, <1>2
        <5> QED
          BY <5>1, <2>6
      <4> QED
        BY <4>2, <4>3, <3>1, <2>7, <1>2
    <3> QED
      BY <3>2, <3>3
  <2>14. NothingElse'
    <3> SUFFICES ASSUME NEW S, Closed(S)
                 PROVE  /\ \A i \in 1 .. n + 1 : i > 1 => stack'[i].name \in S
                        /\ DOMAIN modules \subseteq S \cup {Main}
      BY <1>1, <1>3, <2>5 DEF NothingElse
    <3>1. NextImport \in S
      BY <1>1, ImportIsNeeded
    <3>2. \A i \in 1 .. n : i > 1 => stack'[i].name \in S
      BY <2>6, <1>2 DEF LoaderInv, NothingElse
    <3>3. DOMAIN modules \subseteq S \cup {Main}
      BY DEF LoaderInv, NothingElse
    <3>4. \A i \in 1 .. n + 1 : (i \in 1 .. n) \/ (i = n + 1)
      BY <1>2
    <3> QED
      BY <3>1, <3>2, <3>3, <3>4, <2>6
  <2>15. PhaseOK'
    <3>1. phase' = "load" /\ stack' # << >>
      BY <1>1, <1>6, <2>5, <1>n
    <3> QED
      BY <3>1 DEF PhaseOK, Loaded
  <2> QED
    BY <2>10, <2>11, <2>12, <2>13, <2>14, <2>15, <1>4 DEF LoaderInv
<1> QED
  BY <1>2, <1>5, <1>6 DEF Import

(* A module is inserted with all that it imports: the call that ends is    *)
(* done with its last item, and the one below, if any, was waiting for it. *)
LEMMA InsertKeeps ==
    LoaderInv /\ Insert => LoaderInv'
<1> SUFFICES ASSUME LoaderInv, Insert PROVE LoaderInv'
  OBVIOUS
<1> DEFINE n == Len(stack)
<1>1. phase = "load" /\ Top.next > Len(Top.items) /\ stack' = Front(stack) /\ disk' = disk
      /\ phase' = (IF n = 1 THEN "loaded" ELSE "load")
      /\ modules' = [m \in DOMAIN modules \cup {Top.name} |-> IF m = Top.name THEN Top.items ELSE modules[m]]
  BY DEF Insert
<1>2. n \in Nat \ {0} /\ n \in DOMAIN stack /\ Top = stack[n] /\ DOMAIN stack = 1 .. n /\ stack \in Seq(Frames)
      /\ n <= MaxStack /\ MaxStack \in Nat /\ n = Len(stack)
  BY <1>1, TopIs, LoaderAssumption DEF LoaderInv, StackIsTyped
<1>3. /\ Held' = Held /\ Frames' = Frames
      /\ \A paths : There(paths)' = There(paths) /\ First(paths)' = First(paths)
      /\ \A S : Closed(S)' <=> Closed(S)
  BY <1>1, HeldOnDisk
<1>4. /\ stack' \in Seq(Frames) /\ Len(stack') = n - 1 /\ DOMAIN stack' = 1 .. n - 1
      /\ \A i \in 1 .. n - 1 : stack'[i] = stack[i] /\ i \in DOMAIN stack
  BY <1>1, <1>2 DEF Front
<1>n. n \in Nat \ {0} /\ n <= MaxStack /\ MaxStack \in Nat
  BY <1>2
<1> HIDE DEF n
<1>5. stack[n].name \in DOMAIN modules' /\ DOMAIN modules \subseteq DOMAIN modules'
      /\ DOMAIN modules' = DOMAIN modules \cup {stack[n].name}
      /\ modules'[stack[n].name] = stack[n].items
      /\ \A m \in DOMAIN modules : m # stack[n].name => modules'[m] = modules[m]
  BY <1>1, <1>2
<1>6. stack[n].items \in Held /\ Len(stack[n].items) \in Nat /\ DOMAIN stack[n].items = 1 .. Len(stack[n].items)
      /\ stack[n].next = Len(stack[n].items) + 1
  <2>1. StackIsTyped
    BY DEF LoaderInv
  <2>2. stack[n].items \in Held /\ Len(stack[n].items) \in Nat
        /\ DOMAIN stack[n].items = 1 .. Len(stack[n].items)
    BY <2>1, <1>2, Calls
  <2>3. stack[n].next \in 1 .. Len(stack[n].items) + 1
    BY <2>1, <1>2 DEF StackIsTyped
  <2>4. stack[n].next > Len(stack[n].items)
    BY <1>1, <1>2
  <2> QED
    BY <2>2, <2>3, <2>4
<1>7. IF n = 1 THEN Entry \in DOMAIN disk /\ stack[n].name = Main /\ stack[n].items = disk[Entry]
      ELSE There(Candidates(stack[n].name)) # {} /\ stack[n].items = First(Candidates(stack[n].name))
  BY <1>2 DEF LoaderInv, CallsHoldFiles
<1>8. StackIsTyped'
  <2>1. \A i \in 1 .. n - 1 : stack[i].next \in 1 .. Len(stack[i].items) + 1
    BY <1>4 DEF LoaderInv, StackIsTyped
  <2>2. n - 1 <= MaxStack
    BY <1>2
  <2> QED
    BY <2>1, <2>2, <1>1, <1>3, <1>4 DEF LoaderInv, StackIsTyped
<1>9. CallsHoldFiles'
  BY <1>1, <1>3, <1>4 DEF LoaderInv, CallsHoldFiles
<1>10. CallsAreImports'
  <2>1. \A i \in 1 .. n - 1 : i > 1 => i - 1 \in 1 .. n - 1
    BY <1>2
  <2> QED
    BY <2>1, <1>4 DEF LoaderInv, CallsAreImports
<1>11. DoneIsKnown'
  <2> SUFFICES ASSUME NEW i \in 1 .. n - 1, NEW k \in 1 .. stack[i].next - 1, Imports(stack[i], k)
               PROVE  \/ ImportAt(stack[i], k) \in DOMAIN modules'
                      \/ i < n - 1 /\ ImportAt(stack[i], k) = stack'[i + 1].name
    BY <1>4 DEF DoneIsKnown
  <2>1. \/ ImportAt(stack[i], k) \in DOMAIN modules
        \/ i < n /\ ImportAt(stack[i], k) = stack[i + 1].name
    BY <1>2, <1>4 DEF LoaderInv, DoneIsKnown
  <2>2. CASE i = n - 1
    BY <2>1, <2>2, <1>2, <1>5
  <2>3. CASE i # n - 1
    <3>1. i \in 1 .. n - 1 /\ i + 1 \in 1 .. n - 1 /\ i < n - 1
      <4>1. i \in 1 .. n - 1
        OBVIOUS
      <4> QED
        BY <4>1, <2>3, <1>n
    <3> QED
      BY <3>1, <2>1, <1>4, <1>5
  <2> QED
    BY <2>2, <2>3
<1>12. ModulesAreFiles'
  <2>1. IsFiniteSet(DOMAIN modules')
    <3>1. IsFiniteSet(DOMAIN modules)
      BY DEF LoaderInv, ModulesAreFiles
    <3>2. IsFiniteSet(DOMAIN modules \cup {stack[n].name})
      BY <3>1, FS_AddElement
    <3> QED
      BY <3>2, <1>5
  <2>2. Resolved(stack[n].name, stack[n].items) \subseteq DOMAIN modules
    <3> SUFFICES ASSUME NEW k \in DOMAIN stack[n].items, Imports(stack[n], k)
                 PROVE  ImportAt(stack[n], k) \in DOMAIN modules
      BY DEF Resolved, Imports, ImportAt
    <3>1. k \in 1 .. stack[n].next - 1
      BY <1>6
    <3> QED
      BY <3>1, <1>2 DEF LoaderInv, DoneIsKnown
  <2> SUFFICES ASSUME NEW m \in DOMAIN modules'
               PROVE  /\ modules'[m] \in Held
                      /\ Resolved(m, modules'[m]) \subseteq DOMAIN modules'
                      /\ \/ m = Main /\ modules'[m] = disk[Entry]
                         \/ There(Candidates(m)) # {} /\ modules'[m] = First(Candidates(m))
    BY <2>1, <1>1, <1>3 DEF ModulesAreFiles
  <2>3. CASE m = stack[n].name
    BY <2>2, <2>3, <1>5, <1>6, <1>7
  <2>4. CASE m # stack[n].name
    BY <2>4, <1>5 DEF LoaderInv, ModulesAreFiles
  <2> QED
    BY <2>3, <2>4
<1>13. NothingElse'
  <2> SUFFICES ASSUME NEW S, Closed(S)
               PROVE  /\ \A i \in 1 .. n - 1 : i > 1 => stack[i].name \in S
                      /\ DOMAIN modules' \subseteq S \cup {Main}
    BY <1>3, <1>4 DEF NothingElse
  <2>1. \A i \in DOMAIN stack : i > 1 => stack[i].name \in S
    BY DEF LoaderInv, NothingElse
  <2>2. stack[n].name \in S \cup {Main}
    BY <2>1, <1>2, <1>7
  <2>3. DOMAIN modules \subseteq S \cup {Main}
    BY DEF LoaderInv, NothingElse
  <2> QED
    BY <2>1, <2>2, <2>3, <1>4, <1>5
<1>14. PhaseOK'
  BY <1>1, <1>2, <1>4, <1>5, <1>7 DEF PhaseOK, Loaded
<1> QED
  BY <1>8, <1>9, <1>10, <1>11, <1>12, <1>13, <1>14 DEF LoaderInv

(* A step of the crawl leaves the load as it is.                           *)
LEMMA LoaderStutters ==
    LoaderInv /\ UNCHANGED loaderVars => LoaderInv'
<1> SUFFICES ASSUME LoaderInv, UNCHANGED loaderVars PROVE LoaderInv'
  OBVIOUS
<1>1. stack' = stack /\ disk' = disk /\ modules' = modules /\ phase' = phase
  BY DEF loaderVars
<1>2. /\ Held' = Held /\ Frames' = Frames
      /\ \A paths : There(paths)' = There(paths) /\ First(paths)' = First(paths)
      /\ \A S : Closed(S)' <=> Closed(S)
  BY <1>1, HeldOnDisk
<1>3. StackIsTyped' /\ CallsHoldFiles' /\ CallsAreImports' /\ DoneIsKnown'
  BY <1>1, <1>2 DEF LoaderInv, StackIsTyped, CallsHoldFiles, CallsAreImports, DoneIsKnown
<1>4. ModulesAreFiles' /\ NothingElse' /\ PhaseOK'
  BY <1>1, <1>2 DEF LoaderInv, ModulesAreFiles, NothingElse, PhaseOK, Loaded
<1> QED
  BY <1>3, <1>4 DEF LoaderInv

(* What is done with the directives afterwards changes the phase only.     *)
LEMMA ValidateKeeps ==
    LoaderInv /\ Validate => LoaderInv'
<1> SUFFICES ASSUME LoaderInv, Validate PROVE LoaderInv'
  OBVIOUS
<1>1. stack' = stack /\ disk' = disk /\ modules' = modules /\ phase = "loaded" /\ phase' \in {"ready", "invalid"}
  BY DEF Validate
<1>2. /\ Held' = Held /\ Frames' = Frames
      /\ \A paths : There(paths)' = There(paths) /\ First(paths)' = First(paths)
      /\ \A S : Closed(S)' <=> Closed(S)
  BY <1>1, HeldOnDisk
<1>3. StackIsTyped' /\ CallsHoldFiles' /\ CallsAreImports' /\ DoneIsKnown'
  BY <1>1, <1>2 DEF LoaderInv, StackIsTyped, CallsHoldFiles, CallsAreImports, DoneIsKnown
<1>4. ModulesAreFiles' /\ NothingElse' /\ PhaseOK'
  BY <1>1, <1>2 DEF LoaderInv, ModulesAreFiles, NothingElse, PhaseOK, Loaded
<1> QED
  BY <1>3, <1>4 DEF LoaderInv

(* Every step of the load keeps the invariant.                             *)
LEMMA LoaderKeeps ==
    LoaderInv /\ LoaderNext => LoaderInv'
  BY LoadMainKeeps, SkipKeeps, ImportKeeps, InsertKeeps DEF LoaderNext

-----------------------------------------------------------------------------
(* Loading is right.                                                       *)

(* The first of the candidates is in the first directory that has one.     *)
LEMMA FirstIsFileOf ==
    ASSUME NEW n
    PROVE  /\ There(Candidates(n)) # {} <=> RootsOf(n) # {}
           /\ There(Candidates(n)) # {} => First(Candidates(n)) = disk[FileOf(n)]
<1> DEFINE C == Candidates(n)
           R == Len(Roots)
           T == There(C)
           D == RootsOf(n)
           m == CHOOSE k \in T : \A l \in T : k <= l
           r == CHOOSE k \in D : \A l \in D : k <= l
<1>1. R \in Nat /\ DOMAIN Roots = 1 .. R /\ DOMAIN C = 1 .. 2 * R
  BY CandidatesAre
<1>2. \A k \in 1 .. R : /\ 2 * k - 1 \in DOMAIN C /\ C[2 * k - 1] = <<Roots[k], n, "file">>
                        /\ 2 * k \in DOMAIN C /\ C[2 * k] = <<Roots[k], n, "folder">>
  <2> SUFFICES ASSUME NEW k \in 1 .. R
               PROVE  /\ 2 * k - 1 \in DOMAIN C /\ C[2 * k - 1] = <<Roots[k], n, "file">>
                      /\ 2 * k \in DOMAIN C /\ C[2 * k] = <<Roots[k], n, "folder">>
    OBVIOUS
  <2>1. 2 * k - 1 \in 1 .. 2 * R /\ ((2 * k - 1) + 1) \div 2 = k /\ (2 * k - 1) % 2 = 1
    BY <1>1
  <2>2. 2 * k \in 1 .. 2 * R /\ (2 * k + 1) \div 2 = k /\ (2 * k) % 2 # 1
    BY <1>1
  <2> QED
    BY <2>1, <2>2 DEF Candidates
<1>3. \A k \in 1 .. 2 * R : \E i \in 1 .. R : k = 2 * i - 1 \/ k = 2 * i
  <2> SUFFICES ASSUME NEW k \in 1 .. 2 * R PROVE \E i \in 1 .. R : k = 2 * i - 1 \/ k = 2 * i
    OBVIOUS
  <2>1. (k + 1) \div 2 \in 1 .. R /\ (k = 2 * ((k + 1) \div 2) - 1 \/ k = 2 * ((k + 1) \div 2))
    BY <1>1
  <2> QED
    BY <2>1
<1>4. D = {k \in 1 .. R : 2 * k - 1 \in T \/ 2 * k \in T}
  BY <1>1, <1>2 DEF RootsOf, There
<1>5. T \in SUBSET (1 .. 2 * R) /\ T \in SUBSET Nat /\ D \in SUBSET Nat
  BY <1>1, <1>4 DEF There
<1>6. T # {} <=> D # {}
  <2> HIDE DEF T, D
  <2> QED
    BY <1>3, <1>4, <1>5
<1>7. ASSUME T # {} PROVE First(C) = disk[FileOf(n)]
  <2>1. m \in T /\ \A l \in T : m <= l
    <3> HIDE DEF T
    <3>1. \E k \in T : \A l \in T : k <= l
      BY <1>5, <1>7, Least
    <3> QED
      BY <3>1
  <2>2. r \in D /\ \A l \in D : r <= l
    <3> HIDE DEF D, T
    <3>1. \E k \in D : \A l \in D : k <= l
      BY <1>5, <1>6, <1>7, Least
    <3> QED
      BY <3>1
  <2>3. First(C) = disk[C[m]]
    BY DEF First
  <2>4. FileOf(n) = IF <<Roots[r], n, "file">> \in DOMAIN disk THEN <<Roots[r], n, "file">>
                    ELSE <<Roots[r], n, "folder">>
    BY DEF FileOf
  <2>5. r \in 1 .. R /\ (2 * r - 1 \in T <=> <<Roots[r], n, "file">> \in DOMAIN disk)
    BY <2>2, <1>1, <1>2, <1>4 DEF There
  <2> HIDE DEF m, r, T, D, C, R
  <2>6. PICK i \in 1 .. R : m = 2 * i - 1 \/ m = 2 * i
    BY <2>1, <1>3, <1>5
  <2>7. i = r
    <3>1. i \in D /\ r <= i
      BY <2>1, <2>2, <2>6, <1>4
    <3>2. 2 * r - 1 \in T \/ 2 * r \in T
      BY <2>2, <1>4
    <3>3. m <= 2 * r
      BY <3>2, <2>1, <2>5, <2>6, <1>1
    <3> QED
      BY <3>1, <3>3, <2>5, <2>6, <1>1
  <2>8. CASE 2 * r - 1 \in T
    <3>1. m = 2 * r - 1
      BY <2>1, <2>5, <2>6, <2>7, <2>8, <1>1
    <3> QED
      BY <3>1, <2>3, <2>4, <2>5, <2>8, <1>2
  <2>9. CASE 2 * r - 1 \notin T
    <3>1. m = 2 * r
      BY <2>1, <2>6, <2>7, <2>9
    <3> QED
      BY <3>1, <2>3, <2>4, <2>5, <2>9, <1>2
  <2> QED
    BY <2>8, <2>9
<1> QED
  BY <1>6, <1>7

(* There are more calls than names when the stack overflows, and so two of *)
(* them are for the same.                                                  *)
LEMMA OverflowIsCycle ==
    LoaderInv => OverflowsOnCycles
<1> SUFFICES ASSUME LoaderInv, phase = "overflow"
             PROVE  \E i, j \in DOMAIN stack : i < j /\ stack[i].name = stack[j].name
  BY DEF OverflowsOnCycles
<1> DEFINE S == 1 .. Len(stack)
           N == NamesOn(disk)
           f == [i \in S |-> stack[i].name]
<1>1. Len(stack) \in Nat /\ DOMAIN stack = S /\ Len(stack) = MaxStack /\ disk \in Disks
  BY DEF LoaderInv, StackIsTyped, PhaseOK
<1>2. IsFiniteSet(S) /\ Cardinality(S) = Len(stack)
  BY <1>1, FS_Interval
<1>3. IsFiniteSet(N) /\ Cardinality(N) < Cardinality(S)
  BY <1>1, <1>2, LoaderAssumption
<1>4. f \in [S -> N]
  BY <1>1, Calls DEF LoaderInv
<1>5. PICK x, y \in S : x # y /\ f[x] = f[y]
  <2> HIDE DEF S, N, f
  <2> QED
    BY <1>2, <1>3, <1>4, FS_PigeonHole
<1>6. stack[x].name = stack[y].name /\ (x < y \/ y < x)
  BY <1>1, <1>5
<1> QED
  BY <1>1, <1>6

(* Paths that the parser made of imports.                                  *)
LEMMA PathsAreNames ==
    ASSUME disk \in Disks
    PROVE  /\ \A n \in NamesOn(disk) : n \in Names
           /\ \A items \in Held : \A path \in PathsOf(items) : path \in Names
<1>1. \A n \in NamesOn(disk) : n \in Names
  <2>1. Main \in Names
    BY DEF Main, Names
  <2> QED
    BY <2>1, LoaderAssumption DEF NamesOn, Names, Words
<1>2. ASSUME NEW items \in Held, NEW path \in PathsOf(items)
      PROVE  path \in Names
  <2>1. PICK f \in DOMAIN disk : items = disk[f]
    BY DEF Held
  <2>2. PICK i \in DOMAIN items : items[i][1] = "import" /\ path = items[i][2]
    BY DEF PathsOf
  <2>3. items[i] \in Range(disk[f])
    BY <2>1, <2>2 DEF Range
  <2> QED
    BY <2>2, <2>3, LoaderAssumption DEF Names, Words
<1> QED
  BY <1>1, <1>2

(* Modules have plain names, for names that are plain have all imports.    *)
LEMMA ModulesArePlain ==
    ASSUME LoaderInv, NEW n \in DOMAIN modules
    PROVE  n \in Names /\ IsPlain(n)
<1> DEFINE S == {m \in Names : IsPlain(m)}
<1>1. disk \in Disks
  BY DEF LoaderInv, StackIsTyped
<1>2. Main \in S
  BY DEF Main, Names, IsPlain
<1>3. ASSUME NEW m \in S, NEW items \in Held PROVE Resolved(m, items) \subseteq S
  <2>1. \A path \in PathsOf(items) : CanonicalPath(m, path) \in S
    BY <1>1, PathsAreNames, CanonicalIsPlain
  <2> QED
    BY <2>1 DEF Resolved, PathsOf
<1>4. Entry \in DOMAIN disk => Resolved(Main, disk[Entry]) \subseteq S
  BY <1>2, <1>3 DEF Held
<1>5. \A m \in S : There(Candidates(m)) # {} => Resolved(m, First(Candidates(m))) \subseteq S
  BY <1>3, FirstIsThere
<1>6. Closed(S)
  BY <1>4, <1>5 DEF Closed
<1>7. DOMAIN modules \subseteq S \cup {Main}
  BY <1>6 DEF LoaderInv, NothingElse
<1> QED
  BY <1>2, <1>7

(* What items import by name are the files that are looked for, and all of *)
(* these, if no position is impossible.                                    *)
LEMMA ImportedIsResolved ==
    ASSUME disk \in Disks, NEW n \in Names, IsPlain(n), NEW items \in Held
    PROVE  /\ Imported(n, items) \subseteq Resolved(n, items)
           /\ ~ Impossible(n, items) => Imported(n, items) = Resolved(n, items)
<1>1. \A path \in PathsOf(items) : Named(n, path) \subseteq {CanonicalPath(n, path)}
  BY PathsAreNames, NamedIsCanonical
<1>2. Resolved(n, items) = {CanonicalPath(n, path) : path \in PathsOf(items)}
  BY DEF Resolved, PathsOf
<1>3. ~ Impossible(n, items) => \A path \in PathsOf(items) : Named(n, path) = {CanonicalPath(n, path)}
  BY <1>1 DEF Impossible
<1> QED
  BY <1>1, <1>2, <1>3 DEF Imported

(* What the invariant says of the modules is what is asked of a load.      *)
LEMMA LoaderIsRight ==
    LoaderInv => LoadIsRight
<1> SUFFICES ASSUME LoaderInv PROVE LoadIsRight
  OBVIOUS
<1>1. disk \in Disks /\ ModulesAreFiles /\ PhaseOK
  BY DEF LoaderInv, StackIsTyped
<1>2. ImportsAreLoaded
  <2> SUFFICES ASSUME NEW n \in DOMAIN modules PROVE Imported(n, modules[n]) \subseteq DOMAIN modules
    BY <1>1 DEF PhaseOK, ImportsAreLoaded
  <2>1. modules[n] \in Held /\ Resolved(n, modules[n]) \subseteq DOMAIN modules
    BY <1>1 DEF ModulesAreFiles
  <2> QED
    BY <2>1, <1>1, ModulesArePlain, ImportedIsResolved
<1>3. FilesAreFirst
  BY <1>1, FirstIsFileOf DEF ModulesAreFiles, PhaseOK, FilesAreFirst
<1>4. OnlyImportsAreLoaded
  <2> SUFFICES ASSUME Loaded, ~ SuperAboveMain, NEW S \in SUBSET DOMAIN modules,
                      Imported(Main, disk[Entry]) \subseteq S,
                      \A n \in S : RootsOf(n) # {} => Imported(n, disk[FileOf(n)]) \subseteq S
               PROVE  DOMAIN modules \subseteq S \cup {Main}
    BY DEF OnlyImportsAreLoaded
  <2>1. Entry \in DOMAIN disk => Resolved(Main, disk[Entry]) \subseteq S
    <3>1. Main \in Names /\ IsPlain(Main)
      BY DEF Main, Names, IsPlain
    <3>2. ~ Impossible(Main, disk[Entry])
      BY DEF SuperAboveMain
    <3>3. Entry \in DOMAIN disk => disk[Entry] \in Held
      BY DEF Held
    <3> QED
      BY <3>1, <3>2, <3>3, <1>1, ImportedIsResolved
  <2>2. ASSUME NEW n \in S, There(Candidates(n)) # {}
        PROVE  Resolved(n, First(Candidates(n))) \subseteq S
    <3>1. RootsOf(n) # {} /\ First(Candidates(n)) = disk[FileOf(n)] /\ disk[FileOf(n)] \in Held
      BY <2>2, FirstIsFileOf, FirstIsThere
    <3>2. ~ Impossible(n, disk[FileOf(n)])
      BY <3>1 DEF SuperAboveMain
    <3>3. n \in Names /\ IsPlain(n)
      BY ModulesArePlain
    <3> QED
      BY <3>1, <3>2, <3>3, <1>1, ImportedIsResolved
  <2>3. Closed(S)
    BY <2>1, <2>2 DEF Closed
  <2> QED
    BY <2>3 DEF LoaderInv, NothingElse
<1>5. OverflowsOnCycles
  BY OverflowIsCycle
<1> QED
  BY <1>2, <1>3, <1>4, <1>5 DEF LoadIsRight

-----------------------------------------------------------------------------
(* Items and their places.                                                 *)

(* The places of items are finitely many, and each has an item of a file   *)
(* on the disk.                                                            *)
LEMMA PlacesAre ==
    ASSUME LoaderInv, NEW kind
    PROVE  /\ IsFiniteSet(Places(kind))
           /\ \A p \in Places(kind) : \E f \in DOMAIN disk : \E item \in Range(disk[f]) :
                item[1] = kind /\ item[2] = ItemAt(p)
<1>1. ASSUME NEW n \in DOMAIN modules
      PROVE  modules[n] \in Held /\ Len(modules[n]) \in Nat /\ DOMAIN modules[n] = 1 .. Len(modules[n])
  <2>1. modules[n] \in Held /\ disk \in Disks
    BY DEF LoaderInv, ModulesAreFiles, StackIsTyped
  <2> QED
    BY <2>1, HeldIsSeq
<1> DEFINE In(n) == {n} \X DOMAIN modules[n]
           g == [n \in DOMAIN modules |-> In(n)]
           A == {In(n) : n \in DOMAIN modules}
<1>2. IsFiniteSet(A)
  <2>1. IsFiniteSet(DOMAIN modules) /\ g \in Surjection(DOMAIN modules, A)
    BY DEF LoaderInv, ModulesAreFiles, Surjection
  <2> HIDE DEF A, g
  <2> QED
    BY <2>1, FS_Surjection
<1>3. \A X \in A : IsFiniteSet(X)
  <2> SUFFICES ASSUME NEW n \in DOMAIN modules PROVE IsFiniteSet(In(n))
    OBVIOUS
  <2>1. IsFiniteSet({n})
    BY FS_Singleton
  <2>2. IsFiniteSet(DOMAIN modules[n])
    BY <1>1, FS_Interval
  <2> QED
    BY <2>1, <2>2, FS_Product
<1>4. IsFiniteSet(UNION A)
  <2> HIDE DEF A
  <2> QED
    BY <1>2, <1>3, FS_UNION
<1>5. Places(kind) \subseteq UNION A
  BY DEF Places
<1>6. IsFiniteSet(Places(kind))
  BY <1>4, <1>5, FS_Subset
<1>7. ASSUME NEW p \in Places(kind)
      PROVE  \E f \in DOMAIN disk : \E item \in Range(disk[f]) : item[1] = kind /\ item[2] = ItemAt(p)
  <2>1. PICK n \in DOMAIN modules : p \in {n} \X DOMAIN modules[n]
    BY DEF Places
  <2>2. p[1] = n /\ p[2] \in DOMAIN modules[n] /\ modules[n][p[2]][1] = kind /\ ItemAt(p) = modules[n][p[2]][2]
    BY <2>1 DEF Places, ItemAt
  <2>3. PICK f \in DOMAIN disk : modules[n] = disk[f]
    BY <1>1 DEF Held
  <2>4. modules[n][p[2]] \in Range(disk[f])
    BY <2>2, <2>3 DEF Range
  <2> QED
    BY <2>2, <2>4
<1> QED
  BY <1>6, <1>7

(* Seeds are URLs and counts are numbers, since the parser made them.      *)
LEMMA ItemsAreTyped ==
    ASSUME LoaderInv
    PROVE  /\ Items("seed") \subseteq Urls
           /\ \A s \in Items("set") : s[2][1] = "count" => s[2][2] \in Nat
<1>1. disk \in Disks
  BY DEF LoaderInv, StackIsTyped
<1> QED
  BY <1>1, PlacesAre, DirectivesAssumption DEF Items

(* Where nothing is said twice, each says something else.                  *)
LEMMA AllDiffer ==
    ASSUME NEW P, IsFiniteSet(P), NEW f, DOMAIN f = P, f = [p \in P |-> f[p]],
           Cardinality({f[p] : p \in P}) = Cardinality(P)
    PROVE  \A p, q \in P : p # q => f[p] # f[q]
<1> DEFINE T == {f[p] : p \in P}
<1>1. f \in Surjection(P, T) /\ Cardinality(P) = Cardinality(T)
  BY DEF Surjection
<1>2. f \in Injection(P, T)
  <2> HIDE DEF T
  <2> QED
    BY <1>1, FS_SurjSameCardinalityImpliesInj
<1> QED
  BY <1>2 DEF Injection, IsInjective

(* A number keeps its value as a depth if and only if it fits the width.   *)
LEMMA DepthIsCut ==
    ASSUME NEW n \in Nat
    PROVE  AsDepth(n) \in -DepthRange .. DepthRange - 1 /\ (AsDepth(n) = n <=> n < DepthRange)
<1> DEFINE R == DepthRange
<1>1. R \in Nat \ {0}
  BY DirectivesAssumption
<1> HIDE DEF R
<1>2. (n + R) % (2 * R) \in 0 .. 2 * R - 1
  BY <1>1
<1>3. n < R => (n + R) % (2 * R) = n + R
  BY <1>1
<1> QED
  BY <1>1, <1>2, <1>3 DEF AsDepth, R

(* What is accepted.                                                       *)
LEMMA NoIssues ==
    ASSUME Issues = {}
    PROVE  /\ Cardinality(RuleNames) = Cardinality(Places("rule"))
           /\ \A u \in Items("seed") : IsAllowed(Clean(u)) /\ ~ IsFrontier(Clean(u))
           /\ \A s \in Items("set") : s[1] \in Variables /\ Fits(s[1], s[2])
           /\ Cardinality({s[1] : s \in Items("set")}) = Cardinality(Places("set"))
<1>1. ~ Cardinality(RuleNames) # Cardinality(Places("rule"))
  BY DEF Issues
<1>2. ~ \E u \in Items("seed") : ~ IsAllowed(Clean(u)) \/ IsFrontier(Clean(u))
  BY DEF Issues
<1>3. ~ \E s \in Items("set") : s[1] \notin Variables
  BY DEF Issues
<1>4. ~ Duplicate("set")
  BY DEF Issues
<1>5. ~ \E s \in Items("set") : s[1] \in Variables /\ ~ Fits(s[1], s[2])
  BY DEF Issues
<1> QED
  BY <1>1, <1>2, <1>3, <1>4, <1>5 DEF Duplicate

(* Two declarations of one name leave fewer names than declarations, and   *)
(* are found by that.                                                      *)
LEMMA NamesDiffer ==
    ASSUME LoaderInv, Issues = {}
    PROVE  /\ \A p, q \in Places("set") : p # q => ItemAt(p)[1] # ItemAt(q)[1]
           /\ \A p, q \in Places("rule") : p # q => p[1] # q[1] \/ ItemAt(p)[1] # ItemAt(q)[1]
<1>1. \A p, q \in Places("set") : p # q => ItemAt(p)[1] # ItemAt(q)[1]
  <2> DEFINE f == [p \in Places("set") |-> ItemAt(p)[1]]
  <2>1. {f[p] : p \in Places("set")} = {s[1] : s \in Items("set")}
    BY DEF Items
  <2>2. IsFiniteSet(Places("set")) /\ DOMAIN f = Places("set") /\ f = [p \in Places("set") |-> f[p]]
    BY PlacesAre
  <2>3. Cardinality({f[p] : p \in Places("set")}) = Cardinality(Places("set"))
    <3> HIDE DEF f
    <3> QED
      BY <2>1, NoIssues
  <2>4. \A p, q \in Places("set") : p # q => f[p] # f[q]
    <3> HIDE DEF f
    <3> QED
      BY <2>2, <2>3, AllDiffer
  <2> QED
    BY <2>4
<1>2. \A p, q \in Places("rule") : p # q => p[1] # q[1] \/ ItemAt(p)[1] # ItemAt(q)[1]
  <2> DEFINE f == [p \in Places("rule") |-> Append(p[1], ItemAt(p)[1])]
  <2>1. {f[p] : p \in Places("rule")} = RuleNames
    BY DEF RuleNames
  <2>2. IsFiniteSet(Places("rule")) /\ DOMAIN f = Places("rule") /\ f = [p \in Places("rule") |-> f[p]]
    BY PlacesAre
  <2>3. Cardinality({f[p] : p \in Places("rule")}) = Cardinality(Places("rule"))
    <3> HIDE DEF f
    <3> QED
      BY <2>1, NoIssues
  <2>4. \A p, q \in Places("rule") : p # q => f[p] # f[q]
    <3> HIDE DEF f
    <3> QED
      BY <2>2, <2>3, AllDiffer
  <2> QED
    BY <2>4
<1> QED
  BY <1>1, <1>2

(* The one max_depth there is, if any, gives the depth.                    *)
LEMMA AcceptedDepth ==
    ASSUME LoaderInv, Issues = {}
    PROVE  /\ MaxDepth \in -DepthRange .. DepthRange - 1
           /\ \A p \in Places("set") : LET s == ItemAt(p) IN
                s[1] = "max_depth" => (MaxDepth = s[2][2] <=> s[2][2] < DepthRange)
<1> DEFINE set == {s \in Items("set") : s[1] = "max_depth"}
           t == CHOOSE s \in set : TRUE
<1>1. \A s \in set : s[2][2] \in Nat
  BY NoIssues, ItemsAreTyped DEF Fits, Counts, Rates
<1>2. \A p \in Places("set") : ItemAt(p) \in set => set = {ItemAt(p)}
  BY NamesDiffer DEF Items
<1>3. MaxDepth = AsDepth(IF set = {} THEN 7 ELSE t[2][2])
  BY DEF MaxDepth
<1>4. set # {} => t \in set
  OBVIOUS
<1>5. MaxDepth \in -DepthRange .. DepthRange - 1
  <2> HIDE DEF set, t
  <2>1. (IF set = {} THEN 7 ELSE t[2][2]) \in Nat
    BY <1>1, <1>4
  <2> QED
    BY <2>1, <1>3, DepthIsCut
<1>6. ASSUME NEW p \in Places("set"), ItemAt(p)[1] = "max_depth"
      PROVE  MaxDepth = ItemAt(p)[2][2] <=> ItemAt(p)[2][2] < DepthRange
  <2>1. ItemAt(p) \in set
    BY <1>6 DEF Items
  <2>2. t = ItemAt(p) /\ set # {}
    BY <2>1, <1>2
  <2> HIDE DEF set, t
  <2>3. MaxDepth = AsDepth(ItemAt(p)[2][2]) /\ ItemAt(p)[2][2] \in Nat
    BY <2>1, <2>2, <1>1, <1>3
  <2> QED
    BY <2>3, DepthIsCut
<1> QED
  BY <1>5, <1>6

(* Directives without issues mean one thing.                               *)
LEMMA AcceptedMeansOneThing ==
    ASSUME LoaderInv, phase = "ready" => Issues = {}
    PROVE  AcceptedIsSound
<1> SUFFICES ASSUME phase = "ready"
             PROVE  /\ \A p, q \in Places("set") : p # q => ItemAt(p)[1] # ItemAt(q)[1]
                    /\ \A p \in Places("set") : LET s == ItemAt(p) IN
                        /\ s[1] \in Variables /\ Fits(s[1], s[2])
                        /\ s[1] = "max_depth" => (MaxDepth = s[2][2] <=> s[2][2] < DepthRange)
                    /\ \A p, q \in Places("rule") : p # q => p[1] # q[1] \/ ItemAt(p)[1] # ItemAt(q)[1]
  BY DEF AcceptedIsSound
<1>1. Issues = {}
  OBVIOUS
<1>2. \A p \in Places("set") : ItemAt(p)[1] \in Variables /\ Fits(ItemAt(p)[1], ItemAt(p)[2])
  BY <1>1, NoIssues DEF Items
<1> QED
  BY <1>1, <1>2, NamesDiffer, AcceptedDepth

-----------------------------------------------------------------------------
(* URLs and their clean form.                                              *)

(* What is clean is not changed by cleaning.                               *)
LEMMA CleanIsOnce ==
    ASSUME NEW u \in Urls
    PROVE  Clean(u) \in Urls /\ Clean(Clean(u)) = Clean(u)
<1> DEFINE pairs(v) == IF v.query = NoQuery THEN {} ELSE v.query
           kept(v) == {<<p[1], "full">> : p \in {p \in pairs(v) : UsesParam(p[1])}}
           c == [u EXCEPT !.query = IF kept(u) = {} THEN NoQuery ELSE kept(u)]
<1>1. \A v : Clean(v) = [v EXCEPT !.query = IF kept(v) = {} THEN NoQuery ELSE kept(v)]
  BY DEF Clean
<1>2. pairs(u) \subseteq Keys \X {"bare", "full"}
  BY DEF Urls, Queries
<1>3. kept(u) \subseteq Keys \X {"bare", "full"}
  BY <1>2
<1>4. c \in Urls /\ c.query = (IF kept(u) = {} THEN NoQuery ELSE kept(u))
  BY <1>3 DEF Urls, Queries
<1>5. kept(u) # NoQuery => kept(c) = kept(u)
  <2>1. \A p \in kept(u) : p = <<p[1], "full">> /\ UsesParam(p[1])
    OBVIOUS
  <2>2. CASE kept(u) = {}
    BY <2>2, <1>4
  <2>3. CASE kept(u) # {} /\ kept(u) # NoQuery
    <3>1. pairs(c) = kept(u)
      BY <2>3, <1>4
    <3> QED
      BY <3>1, <2>1
  <2> QED
    BY <2>2, <2>3
<1>6. kept(u) = NoQuery => c.query = NoQuery /\ kept(c) = {}
  BY <1>4
<1>7. (IF kept(c) = {} THEN NoQuery ELSE kept(c)) = c.query
  BY <1>4, <1>5, <1>6
<1>8. [c EXCEPT !.query = c.query] = c
  BY <1>4 DEF Urls
<1> QED
  BY <1>1, <1>4, <1>7, <1>8

(* A raw link makes a URL, or none.                                        *)
LEMMA JoinedAreUrls ==
    ASSUME NEW u \in Urls, NEW raw \in Raw
    PROVE  CheckedJoin(u, raw) \subseteq Urls
<1>1. raw[1] = "url" => raw[2] \in Urls
  BY DirectivesAssumption
<1>2. raw[1] = "query" => [u EXCEPT !.query = raw[2], !.section = FALSE] \in Urls
  BY DirectivesAssumption DEF Urls
<1>3. raw[1] \in {"url", "query"} \cup BadLinks
  BY DirectivesAssumption
<1> QED
  BY <1>1, <1>2, <1>3 DEF CheckedJoin, BadLinks

(* What the links of a page become.                                        *)
LEMMA LinksAreClean ==
    ASSUME NEW u \in Urls, NEW raws \in SUBSET Raw, NEW v \in CleanLinks(u, raws)
    PROVE  v \in Urls /\ TestUrl(v) = {v} /\ ~ IsFrontier(u)
<1>1. ~ IsFrontier(u) /\ \E raw \in raws : \E w \in CheckedJoin(u, raw) : IsAllowed(Clean(w)) /\ v = Clean(Clean(w))
  BY DEF CleanLinks
<1>2. PICK raw \in raws : \E w \in CheckedJoin(u, raw) : IsAllowed(Clean(w)) /\ v = Clean(Clean(w))
  BY <1>1
<1>3. PICK w \in CheckedJoin(u, raw) : IsAllowed(Clean(w)) /\ v = Clean(Clean(w))
  BY <1>2
<1>4. w \in Urls
  BY JoinedAreUrls
<1>5. v = Clean(w) /\ Clean(v) = v /\ v \in Urls /\ IsAllowed(v)
  BY <1>3, <1>4, CleanIsOnce
<1> QED
  BY <1>1, <1>5 DEF TestUrl

(* Redirects are clean, and the URL that was allowed is the one before.    *)
LEMMA RedirectsAreClean ==
    ASSUME NEW u \in Urls, NEW raw \in Raw, NEW v \in CleanRedirect(u, raw)
    PROVE  /\ v \in Urls /\ Clean(v) = v /\ ~ IsFrontier(u)
           /\ \E w \in Urls : Clean(w) = v /\ IsAllowed(w)
<1>1. ~ IsFrontier(u) /\ \E w \in CheckedJoin(u, raw) : IsAllowed(w) /\ v = Clean(w)
  BY DEF CleanRedirect
<1>2. PICK w \in CheckedJoin(u, raw) : IsAllowed(w) /\ v = Clean(w)
  BY <1>1
<1>3. w \in Urls
  BY JoinedAreUrls
<1> QED
  BY <1>1, <1>2, <1>3, CleanIsOnce

-----------------------------------------------------------------------------
(* The whole of it.                                                        *)

QueueIsTyped ==
    /\ \A e \in queue : e.url \in Urls /\ e.how \in Hows /\ e.from \in Urls
    /\ visited \subseteq {e.url : e \in queue}

(* Only what was accepted is crawled.                                      *)
OnlyWhenReady ==
    /\ queue # {} => phase = "ready"
    /\ phase = "ready" => Issues = {}

DirectivesInv ==
    /\ LoaderInv
    /\ QueueIsTyped
    /\ OnlyWhenReady
    /\ QueueIsWithin

(* What the directives say is what the modules hold.                       *)
LEMMA SameDirectives ==
    modules' = modules =>
        /\ \A kind : Items(kind)' = Items(kind) /\ Places(kind)' = Places(kind)
        /\ \A u : /\ Clean(u)' = Clean(u) /\ TestUrl(u)' = TestUrl(u)
                  /\ IsAllowed(u)' <=> IsAllowed(u)
                  /\ IsFrontier(u)' <=> IsFrontier(u)
        /\ Issues' = Issues
<1> SUFFICES ASSUME modules' = modules
             PROVE  /\ \A kind : Items(kind)' = Items(kind) /\ Places(kind)' = Places(kind)
                    /\ \A u : /\ Clean(u)' = Clean(u) /\ TestUrl(u)' = TestUrl(u)
                              /\ IsAllowed(u)' <=> IsAllowed(u)
                              /\ IsFrontier(u)' <=> IsFrontier(u)
                    /\ Issues' = Issues
  OBVIOUS
<1>1. \A p : ItemAt(p)' = ItemAt(p)
  BY DEF ItemAt
<1>2. \A kind : Places(kind)' = Places(kind)
  BY DEF Places
<1>3. \A kind : Items(kind)' = Items(kind)
  BY <1>1, <1>2 DEF Items
<1>4. \A u : (IsAllowed(u)' <=> IsAllowed(u)) /\ (IsFrontier(u)' <=> IsFrontier(u))
  BY <1>3 DEF IsAllowed, IsFrontier, Matches
<1>5. \A key : UsesParam(key)' <=> UsesParam(key)
  BY <1>3 DEF UsesParam
<1>6. \A u : Clean(u)' = Clean(u)
  BY <1>5 DEF Clean
<1>7. \A u : TestUrl(u)' = TestUrl(u)
  BY <1>4, <1>6 DEF TestUrl
<1>8. RuleNames' = RuleNames /\ (Duplicate("set")' <=> Duplicate("set"))
  BY <1>1, <1>2, <1>3 DEF RuleNames, Duplicate
<1>9. Issues' = Issues
  BY <1>2, <1>3, <1>4, <1>6, <1>8 DEF Issues
<1> QED
  BY <1>2, <1>3, <1>4, <1>6, <1>7, <1>9

(* Nothing is queued at first.                                             *)
LEMMA DirectivesStart ==
    Init => DirectivesInv
<1> SUFFICES ASSUME Init PROVE DirectivesInv
  OBVIOUS
<1>1. LoaderInv /\ queue = {} /\ visited = {} /\ phase = "start"
  BY LoaderStarts DEF Init, LoaderInit
<1> QED
  BY <1>1 DEF DirectivesInv, QueueIsTyped, OnlyWhenReady, QueueIsWithin

(* The queue of directives that stay as they are.                          *)
LEMMA WithinStays ==
    ASSUME modules' = modules, queue' = queue, QueueIsWithin
    PROVE  QueueIsWithin'
<1>1. /\ \A u : /\ Clean(u)' = Clean(u) /\ TestUrl(u)' = TestUrl(u)
                /\ IsAllowed(u)' <=> IsAllowed(u)
                /\ IsFrontier(u)' <=> IsFrontier(u)
  BY SameDirectives
<1> QED
  BY <1>1 DEF QueueIsWithin

(* A load queues nothing, and keeps its own invariant.                     *)
LEMMA LoadKeeps ==
    DirectivesInv /\ Load => DirectivesInv'
<1> SUFFICES ASSUME DirectivesInv, Load PROVE DirectivesInv'
  OBVIOUS
<1>1. queue' = queue /\ visited' = visited /\ LoaderNext
  BY DEF Load
<1>2. LoaderInv'
  BY <1>1, LoaderKeeps DEF DirectivesInv
<1>3. phase # "ready" /\ phase' # "ready"
  BY <1>1 DEF LoaderNext, LoadMain, Skip, Import, Insert, HasNext
<1>4. queue' = {} /\ visited' = {}
  BY <1>1, <1>3 DEF DirectivesInv, OnlyWhenReady, QueueIsTyped
<1> QED
  BY <1>2, <1>3, <1>4 DEF DirectivesInv, OnlyWhenReady, QueueIsTyped, QueueIsWithin

(* What is accepted has no issues.                                         *)
LEMMA ValidationKeeps ==
    DirectivesInv /\ Validate => DirectivesInv'
<1> SUFFICES ASSUME DirectivesInv, Validate PROVE DirectivesInv'
  OBVIOUS
<1>1. queue' = queue /\ visited' = visited /\ modules' = modules /\ phase = "loaded"
      /\ phase' = (IF Issues = {} THEN "ready" ELSE "invalid")
  BY DEF Validate
<1>2. LoaderInv'
  BY ValidateKeeps DEF DirectivesInv
<1>3. queue' = {} /\ visited' = {}
  BY <1>1 DEF DirectivesInv, OnlyWhenReady, QueueIsTyped
<1>4. phase' = "ready" => Issues' = {}
  BY <1>1, SameDirectives
<1> QED
  BY <1>2, <1>3, <1>4 DEF DirectivesInv, OnlyWhenReady, QueueIsTyped, QueueIsWithin

(* What may come into the queue.                                           *)
Within(e) ==
    /\ e.url \in Urls /\ e.how \in Hows /\ e.from \in Urls
    /\ e.how = "seed" => TestUrl(e.url) # {} /\ ~ IsFrontier(Clean(e.url))
    /\ e.how = "link" => TestUrl(e.url) = {e.url}
    /\ e.how = "redirect" =>
        /\ Clean(e.url) = e.url
        /\ \E u \in Urls : Clean(u) = e.url /\ IsAllowed(u)
    /\ e.how # "seed" => ~ IsFrontier(e.from)

(* What joins the queue within the boundaries leaves it so, for they are   *)
(* set.                                                                    *)
LEMMA GrowingKeeps ==
    ASSUME DirectivesInv, UNCHANGED loaderVars, phase = "ready",
           NEW new, \A e \in new : Within(e), queue' = queue \cup new,
           visited' \subseteq visited \cup {e.url : e \in queue}
    PROVE  DirectivesInv'
<1>1. LoaderInv'
  BY LoaderStutters DEF DirectivesInv
<1>2. modules' = modules /\ phase' = phase
  BY DEF loaderVars
<1>3. QueueIsTyped'
  BY DEF DirectivesInv, QueueIsTyped, Within
<1>4. OnlyWhenReady'
  BY <1>2, SameDirectives DEF DirectivesInv, OnlyWhenReady
<1>5. /\ \A u : /\ Clean(u)' = Clean(u) /\ TestUrl(u)' = TestUrl(u)
                /\ IsAllowed(u)' <=> IsAllowed(u)
                /\ IsFrontier(u)' <=> IsFrontier(u)
  BY <1>2, SameDirectives
<1>6. \A e \in queue \cup new :
        /\ e.how = "seed" => TestUrl(e.url) # {} /\ ~ IsFrontier(Clean(e.url))
        /\ e.how = "link" => TestUrl(e.url) = {e.url}
        /\ e.how = "redirect" =>
            /\ Clean(e.url) = e.url
            /\ \E u \in Urls : Clean(u) = e.url /\ IsAllowed(u)
        /\ e.how # "seed" => ~ IsFrontier(e.from)
  BY DEF DirectivesInv, QueueIsWithin, Within
<1>7. QueueIsWithin'
  BY <1>5, <1>6 DEF QueueIsWithin
<1> QED
  BY <1>1, <1>3, <1>4, <1>7 DEF DirectivesInv

(* Seeds were validated.                                                   *)
LEMMA SeedKeeps ==
    DirectivesInv /\ Seed => DirectivesInv'
<1> SUFFICES ASSUME DirectivesInv, Seed PROVE DirectivesInv'
  OBVIOUS
<1> DEFINE new == {[url |-> u, how |-> "seed", from |-> u] : u \in Items("seed")}
<1>1. UNCHANGED loaderVars /\ phase = "ready" /\ queue' = queue \cup new /\ visited' = visited
  BY DEF Seed
<1>2. Items("seed") \subseteq Urls /\ Issues = {}
  BY <1>1, ItemsAreTyped DEF DirectivesInv, OnlyWhenReady
<1>3. \A u \in Items("seed") : TestUrl(u) # {} /\ ~ IsFrontier(Clean(u))
  BY <1>2, NoIssues DEF TestUrl
<1>4. \A e \in new : Within(e)
  BY <1>2, <1>3 DEF Within, Hows
<1>5. visited' \subseteq visited \cup {e.url : e \in queue}
  BY <1>1
<1> QED
  <2> HIDE DEF new
  <2> QED
    BY <1>1, <1>4, <1>5, GrowingKeeps

(* The links of a page join the queue within the boundaries.               *)
LEMMA PageKeeps ==
    ASSUME DirectivesInv, NEW e \in queue, Page(e)
    PROVE  DirectivesInv'
<1>1. PICK raws \in {{}} \cup {{raw} : raw \in Raw} :
            /\ Visit(e.url)
            /\ queue' = queue \cup Entries(CleanLinks(e.url, raws), "link", e.url)
  BY DEF Page
<1> DEFINE new == Entries(CleanLinks(e.url, raws), "link", e.url)
<1>2. e.url \in Urls /\ raws \in SUBSET Raw
  BY DEF DirectivesInv, QueueIsTyped
<1>3. \A v \in CleanLinks(e.url, raws) : v \in Urls /\ TestUrl(v) = {v} /\ ~ IsFrontier(e.url)
  BY <1>2, LinksAreClean
<1>4. \A f \in new : Within(f)
  BY <1>2, <1>3 DEF Within, Hows, Entries
<1>5. UNCHANGED loaderVars /\ phase = "ready" /\ visited' \subseteq visited \cup {f.url : f \in queue}
  BY <1>1 DEF Visit
<1> QED
  <2> HIDE DEF new
  <2>1. queue' = queue \cup new
    BY <1>1 DEF new
  <2> QED
    BY <2>1, <1>4, <1>5, GrowingKeeps

(* And so does a redirect.                                                 *)
LEMMA RedirectKeeps ==
    ASSUME DirectivesInv, NEW e \in queue, Redirect(e)
    PROVE  DirectivesInv'
<1>1. PICK raw \in Raw :
            /\ Visit(e.url)
            /\ queue' = queue \cup Entries(CleanRedirect(e.url, raw), "redirect", e.url)
  BY DEF Redirect
<1> DEFINE new == Entries(CleanRedirect(e.url, raw), "redirect", e.url)
<1>2. e.url \in Urls
  BY DEF DirectivesInv, QueueIsTyped
<1>3. \A v \in CleanRedirect(e.url, raw) :
            /\ v \in Urls /\ Clean(v) = v /\ ~ IsFrontier(e.url)
            /\ \E w \in Urls : Clean(w) = v /\ IsAllowed(w)
  BY <1>2, RedirectsAreClean
<1>4. \A f \in new : Within(f)
  BY <1>2, <1>3 DEF Within, Hows, Entries
<1>5. UNCHANGED loaderVars /\ phase = "ready" /\ visited' \subseteq visited \cup {f.url : f \in queue}
  BY <1>1 DEF Visit
<1> QED
  <2> HIDE DEF new
  <2>1. queue' = queue \cup new
    BY <1>1 DEF new
  <2> QED
    BY <2>1, <1>4, <1>5, GrowingKeeps

(* A step that changes nothing keeps everything.                           *)
LEMMA DirectivesStutter ==
    DirectivesInv /\ UNCHANGED directivesVars => DirectivesInv'
<1> SUFFICES ASSUME DirectivesInv, UNCHANGED directivesVars PROVE DirectivesInv'
  OBVIOUS
<1>1. UNCHANGED loaderVars /\ modules' = modules /\ phase' = phase /\ queue' = queue /\ visited' = visited
  BY DEF directivesVars, loaderVars
<1>2. LoaderInv' /\ QueueIsWithin'
  BY <1>1, LoaderStutters, WithinStays DEF DirectivesInv
<1>3. QueueIsTyped' /\ OnlyWhenReady'
  BY <1>1, SameDirectives DEF DirectivesInv, QueueIsTyped, OnlyWhenReady
<1> QED
  BY <1>2, <1>3 DEF DirectivesInv

(* The inductive invariant of the load, the validation and the queue.      *)
THEOREM DirectivesInvariant == Spec => []DirectivesInv
<1>1. DirectivesInv /\ [Next]_directivesVars => DirectivesInv'
  BY LoadKeeps, ValidationKeeps, SeedKeeps, PageKeeps, RedirectKeeps, DirectivesStutter DEF Next
<1> QED
  BY DirectivesStart, <1>1, PTL DEF Spec

(* The types: the calls fit the stack, what is in the queue is made of     *)
(* URLs, and the limit on the depth is a number of its type.               *)
THEOREM DirectivesTyped == Spec => []TypeOK
<1>1. DirectivesInv => TypeOK
  <2> SUFFICES ASSUME DirectivesInv PROVE TypeOK
    OBVIOUS
  <2>1. phase = "ready" => MaxDepth \in -DepthRange .. DepthRange - 1
    BY AcceptedDepth DEF DirectivesInv, OnlyWhenReady
  <2> QED
    BY <2>1 DEF DirectivesInv, LoaderInv, StackIsTyped, PhaseOK, QueueIsTyped, TypeOK
<1> QED
  BY <1>1, DirectivesInvariant, PTL

(* Whatever the disk holds, a load that ends well has found all modules,   *)
(* each in its place, and none that nobody imports; and the stack of one   *)
(* that has room for all names overflows on cycles only.                   *)
THEOREM LoadedRight == Spec => []LoadIsRight
<1>1. DirectivesInv => LoadIsRight
  BY LoaderIsRight DEF DirectivesInv
<1> QED
  BY <1>1, DirectivesInvariant, PTL

(* Whatever the modules say, what was accepted means one thing.            *)
THEOREM AcceptedSound == Spec => []AcceptedIsSound
<1>1. DirectivesInv => AcceptedIsSound
  BY AcceptedMeansOneThing DEF DirectivesInv, OnlyWhenReady
<1> QED
  BY <1>1, DirectivesInvariant, PTL

(* Whatever boundaries are drawn and whatever pages hold as links, what    *)
(* comes into the queue is within them.                                    *)
THEOREM QueuedWithin == Spec => []QueueIsWithin
<1>1. DirectivesInv => QueueIsWithin
  BY DEF DirectivesInv
<1> QED
  BY <1>1, DirectivesInvariant, PTL

=============================================================================
