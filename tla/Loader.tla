------------------------------- MODULE Loader -------------------------------
(***************************************************************************)
(* Loading directives and all that they import (directives.rs,             *)
(* Module::load).  The recursion is a stack of the modules being loaded; a *)
(* module is known only once everything it imports is.                     *)
(*                                                                         *)
(* A module's name is the sequence of its parts, a file the place where it *)
(* lies, <<directory, name, kind>>, and its contents a sequence of items   *)
(* <<kind, argument>>.                                                     *)
(***************************************************************************)
EXTENDS Integers, FiniteSets, SequencesExt

CONSTANTS
    Disks,          \* what the disk may hold: contents of the files there are
    Unparsable,     \* the contents of a file that is no directives
    Entry,          \* the file that is named in the command line
    Roots,          \* its directory, and the one of imports
    MaxStack        \* bound: calls that the stack of the process holds

Main == << >>

(* The names of the modules that a disk has files for.                     *)
NamesOn(d) == {Main} \cup {f[2] : f \in DOMAIN d}

(* Names and paths are made of strings, and the stack holds more than one  *)
(* call for each name.                                                     *)
ASSUME LoaderAssumption ==
    /\ Roots \in Seq(Range(Roots))
    /\ MaxStack \in Nat
    /\ \A d \in Disks :
        /\ \A f \in DOMAIN d :
            /\ f[2] \in Seq(STRING)
            /\ d[f] \in Seq(Range(d[f]))
            /\ \A item \in Range(d[f]) : item[1] = "import" => item[2] \in Seq(STRING)
        /\ IsFiniteSet(NamesOn(d)) /\ Cardinality(NamesOn(d)) < MaxStack

VARIABLES
    disk,
    stack,          \* a call each: the name, its items, and which is the next of them
    modules,        \* Directives::modules, name to items
    phase           \* "start", "load", "loaded", "failed", "overflow"; then "ready" or "invalid"

loaderVars == <<disk, stack, modules, phase>>

(* Variant: a super leads nowhere.                                         *)
SuperIgnored(parts, part) ==
    CASE part \in {"super", ""} -> parts
      [] part = "root" -> << >>
      [] OTHER -> Append(parts, part)

(* One part of a path, in canonical_path; no super fails, for what it      *)
(* looks at is the path, which is not empty.                               *)
Resolve(parts, part) ==
    CASE part = "super" -> IF parts = << >> THEN << >> ELSE Front(parts)
      [] part = "root" -> << >>
      [] part = "" -> parts
      [] OTHER -> Append(parts, part)

CanonicalPath(name, path) ==
    LET all == name \o path
        parts[k \in 0 .. Len(all)] == IF k = 0 THEN << >> ELSE Resolve(parts[k - 1], all[k])
    IN  parts[Len(all)]

(* Where a module may be: a file, or the module file of a folder.          *)
Candidates(name) ==
    [k \in 1 .. 2 * Len(Roots) |->
        <<Roots[(k + 1) \div 2], name, IF k % 2 = 1 THEN "file" ELSE "folder">>]

(* read_from_many: the first that there is.                                *)
There(paths) == {k \in DOMAIN paths : paths[k] \in DOMAIN disk}

First(paths) == disk[paths[CHOOSE k \in There(paths) : \A l \in There(paths) : k <= l]]

Readable(paths) == There(paths) # {} /\ First(paths) # Unparsable

(* A call of load that has read its file.                                  *)
Call(name, paths) == [name |-> name, items |-> First(paths), next |-> 1]

Top == Last(stack)

LoaderInit ==
    /\ disk \in Disks
    /\ stack = << >>
    /\ modules = [n \in {} |-> << >>]
    /\ phase = "start"

LoadMain ==
    /\ phase = "start"
    /\ IF Readable(<<Entry>>)
       THEN phase' = "load" /\ stack' = <<Call(Main, <<Entry>>)>>
       ELSE phase' = "failed" /\ UNCHANGED stack
    /\ UNCHANGED <<disk, modules>>

(* Variant: the next item stays the next.                                  *)
StaysPut == stack

Advanced == [stack EXCEPT ![Len(stack)].next = @ + 1]

HasNext == phase = "load" /\ Top.next <= Len(Top.items)

NextIsImport == Top.items[Top.next][1] = "import"

NextImport == CanonicalPath(Top.name, Top.items[Top.next][2])

(* The next item imports nothing, or what is known already.                *)
Skip ==
    /\ HasNext
    /\ NextIsImport => NextImport \in DOMAIN modules
    /\ stack' = Advanced
    /\ UNCHANGED <<disk, modules, phase>>

(* It imports what is not known: whether that is being loaded does not     *)
(* matter, and so a cycle goes on until the stack overflows.               *)
Import ==
    /\ HasNext
    /\ NextIsImport /\ NextImport \notin DOMAIN modules
    /\ LET paths == Candidates(NextImport) IN
        IF ~ Readable(paths) THEN phase' = "failed" /\ UNCHANGED stack
        ELSE IF Len(stack) = MaxStack THEN phase' = "overflow" /\ UNCHANGED stack
        ELSE stack' = Append(Advanced, Call(NextImport, paths)) /\ UNCHANGED phase
    /\ UNCHANGED <<disk, modules>>

(* All is imported: the module is inserted, in place of one of its name.   *)
Insert ==
    /\ phase = "load" /\ Top.next > Len(Top.items)
    /\ modules' = [n \in DOMAIN modules \cup {Top.name} |->
                        IF n = Top.name THEN Top.items ELSE modules[n]]
    /\ stack' = Front(stack)
    /\ phase' = IF Len(stack) = 1 THEN "loaded" ELSE "load"
    /\ UNCHANGED disk

LoaderNext == LoadMain \/ Skip \/ Import \/ Insert

LoaderSpec == LoaderInit /\ [][LoaderNext]_loaderVars /\ WF_loaderVars(LoaderNext)

-----------------------------------------------------------------------------
(* Correctness.                                                            *)

Loaded == phase \in {"loaded", "ready", "invalid"}

(* Where a part of a path leads to from a module, if anywhere: above the   *)
(* main module is an impossible position.                                  *)
Leads(name, part) ==
    CASE part = "super" -> IF name = Main THEN {} ELSE {Front(name)}
      [] part = "root" -> {Main}
      [] part = "" -> {name}
      [] OTHER -> {Append(name, part)}

(* The module that a path names, seen from the one that imports it; none,  *)
(* if some super of the path is impossible.                                *)
Named(name, path) ==
    LET at[k \in 0 .. Len(path)] ==
            IF k = 0 THEN {name} ELSE UNION {Leads(n, path[k]) : n \in at[k - 1]}
    IN  at[Len(path)]

PathsOf(items) == {items[i][2] : i \in {i \in DOMAIN items : items[i][1] = "import"}}

(* The names of the modules that these items import.                       *)
Imported(name, items) == UNION {Named(name, path) : path \in PathsOf(items)}

Impossible(name, items) == \E path \in PathsOf(items) : Named(name, path) = {}

(* Once the load has ended well, everything that a module imports is       *)
(* loaded too: what its paths name, walked from where it stands, and not   *)
(* what canonical_path makes of them.                                      *)
ImportsAreLoaded ==
    Loaded => /\ Main \in DOMAIN modules
              /\ \A n \in DOMAIN modules : Imported(n, modules[n]) \subseteq DOMAIN modules

(* The directories that have a file of a module.                           *)
RootsOf(n) == {r \in DOMAIN Roots : \E k \in {"file", "folder"} : <<Roots[r], n, k>> \in DOMAIN disk}

(* Its file is in the first of them, and there before one in the folder.   *)
FileOf(n) ==
    LET first == CHOOSE r \in RootsOf(n) : \A s \in RootsOf(n) : r <= s
        file == <<Roots[first], n, "file">>
    IN  IF file \in DOMAIN disk THEN file ELSE <<Roots[first], n, "folder">>

(* Each module is what the first file of that name holds, but for the main *)
(* one, whose name an import may have as well: what that puts there is     *)
(* replaced in the end.                                                    *)
FilesAreFirst ==
    Loaded => \A n \in DOMAIN modules :
        modules[n] = disk[IF n = Main THEN Entry ELSE FileOf(n)]

(* A file that was read imports from an impossible position.               *)
SuperAboveMain ==
    \/ Impossible(Main, disk[Entry])
    \/ \E n \in DOMAIN modules : RootsOf(n) # {} /\ Impossible(n, disk[FileOf(n)])

(* All that is loaded was imported for a reason: it is the least that has  *)
(* what the entry imports, and what the files of these modules do.         *)
(*                                                                         *)
(* There is one exception, by the code and not by its comment: that one    *)
(* says of canonical_path that it "returns errors if put into an           *)
(* impossible position" (directives.rs:65), but a super in the main module *)
(* stays there, and the load goes on with a module that nothing names.     *)
OnlyImportsAreLoaded ==
    Loaded /\ ~ SuperAboveMain => \A S \in SUBSET DOMAIN modules :
        /\ Imported(Main, disk[Entry]) \subseteq S
        /\ \A n \in S : RootsOf(n) # {} => Imported(n, disk[FileOf(n)]) \subseteq S
        => DOMAIN modules \subseteq S \cup {Main}

(* The stack overflows on a cycle of imports only: a module that is being  *)
(* loaded is loaded again below itself.                                    *)
OverflowsOnCycles ==
    phase = "overflow" => \E i, j \in DOMAIN stack : i < j /\ stack[i].name = stack[j].name

(* The load of directives is right, but for a super above the main module, *)
(* which OnlyImportsAreLoaded leaves out: see above.                       *)
LoadIsRight == ImportsAreLoaded /\ FilesAreFirst /\ OnlyImportsAreLoaded /\ OverflowsOnCycles

(* The load ends, be it with an overflow.                                  *)
LoadEnds == <>(phase \notin {"start", "load"})

=============================================================================
