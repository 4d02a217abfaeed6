---------------------------- MODULE StatusTable ----------------------------
(***************************************************************************)
(* The tables of one wave and the SQL statements that the master and the   *)
(* workers run against them (postgres-lopez).  Each operator below is one  *)
(* statement; PostgreSQL runs a statement atomically and autocommits it,   *)
(* so that a crawl step is a sequence of these operators and anything may  *)
(* happen between two of them.                                             *)
(*                                                                         *)
(* A page stands for its page_id, the 64-bit hash of its URL; hash         *)
(* collisions are not modelled.                                            *)
(***************************************************************************)
EXTENDS Naturals, FiniteSets

CONSTANTS
    Pages,      \* the pages of the web
    Hosts,
    Host        \* Host[p]: the part of p's URL that fetch.sql partitions by

VARIABLES
    status,     \* "status".search_status, "absent" where there is no row
    depth,      \* "status".depth, 0 where there is no row
    names,      \* the rows of pages, which give a page_id its URL
    linkage,    \* the rows of linkage
    analyzed    \* the pages with rows in analysis_results

tables == <<status, depth, names, linkage, analyzed>>

ASSUME PagesAssumption == IsFiniteSet(Pages) /\ Host \in [Pages -> Hosts]

SearchStatus == {"open", "taken", "closed", "error"}

(* reason_enum, of which only 'redirect' has a unique index of its own.    *)
Reasons == {"ahref", "redirect"}

LinkRow == [from : Pages, to : Pages, reason : Reasons]

TablesTypeOK ==
    /\ status \in [Pages -> SearchStatus \cup {"absent"}]
    /\ depth \in [Pages -> Nat]
    /\ names \subseteq Pages
    /\ linkage \subseteq LinkRow
    /\ analyzed \subseteq Pages

TablesInit ==
    /\ status = [p \in Pages |-> "absent"]
    /\ depth = [p \in Pages |-> 0]
    /\ names = {}
    /\ linkage = {}
    /\ analyzed = {}

-----------------------------------------------------------------------------
(* The rows that the statements read.                                      *)

Rows == {p \in Pages : status[p] # "absent"}

Closed == {p \in Pages : status[p] = "closed"}

(* Variant: the statement counts what is in progress instead.              *)
CountTaken == Cardinality({p \in Pages : status[p] = "taken"})

(* count_crawled.sql *)
CountCrawled == Cardinality(Closed)

(* Variant: the statement looks for work that is left, not in progress.    *)
ExistsOpen == \E p \in Pages : status[p] = "open"

(* exists_taken.sql *)
ExistsTaken == \E p \in Pages : status[p] = "taken"

(* The rows of "numbered" in fetch.sql: open, shallow and joined to pages. *)
Fetchable(maxDepth) == {p \in names : status[p] = "open" /\ depth[p] <= maxDepth}

(* The window count of fetch.sql.  A window that is only ordered counts    *)
(* the current row's peers too, here the rows of the same depth.           *)
Crowd(rows, p) ==
    Cardinality({q \in rows : Host[q] = Host[p] /\ depth[q] <= depth[p]})

(* order by count, depth *)
Precedes(rows, p, q) ==
    \/ Crowd(rows, p) < Crowd(rows, q)
    \/ Crowd(rows, p) = Crowd(rows, q) /\ depth[p] <= depth[q]

(* The sets of rows that fetch.sql may return under `limit n': a prefix of *)
(* the ordering, where ties fall either way.                               *)
Batches(n, maxDepth) ==
    LET rows == Fetchable(maxDepth)
    IN  {b \in SUBSET rows :
            /\ Cardinality(b) <= n
            /\ Cardinality(b) < n => b = rows
            /\ \A p \in b, q \in rows \ b : Precedes(rows, p, q)}

-----------------------------------------------------------------------------
(* The statements that write.  Each one constrains the primed value of the *)
(* tables that it changes and of no other.                                 *)

(* ensure_names.sql *)
EnsureNames(ps) == names' = names \cup ps

(* Variant: `on conflict do update set depth', the last page to link wins. *)
UpsertStatus(ps, d) ==
    /\ status' = [p \in Pages |-> IF p \in ps \ Rows THEN "open" ELSE status[p]]
    /\ depth' = [p \in Pages |-> IF p \in ps THEN d ELSE depth[p]]

(* ensure_status.sql: rows that exist already keep their depth.            *)
EnsureStatus(ps, d) ==
    /\ status' = [p \in Pages |-> IF p \in ps \ Rows THEN "open" ELSE status[p]]
    /\ depth' = [p \in Pages |-> IF p \in ps \ Rows THEN d ELSE depth[p]]

(* ensure_links.sql: `on conflict do nothing' applies to the primary key   *)
(* and also to the index that gives a page at most one redirect row.       *)
EnsureLinks(p, ps, reason) ==
    linkage' = linkage \cup
        {row \in [from : {p}, to : ps, reason : {reason}] :
            reason = "redirect" =>
                ~ \E old \in linkage : old.from = p /\ old.reason = "redirect"}

(* ensure_analyzed.sql has no `on conflict': a second row with the same    *)
(* primary key makes the whole statement fail.                             *)
CanAnalyze(p) == p \notin analyzed

EnsureAnalyzed(p) == CanAnalyze(p) /\ analyzed' = analyzed \cup {p}

(* ensure_closed.sql: an update, of whatever row is there.                 *)
EnsureClosed(p) ==
    status' = [q \in Pages |-> IF q = p /\ q \in Rows THEN "closed" ELSE status[q]]

(* Variant: the statement matches no row.                                  *)
EnsureNoError(p) == UNCHANGED status

(* ensure_error.sql: on a closed row, whose status_code is not null, the   *)
(* update breaks closing_criterion and changes nothing.                    *)
EnsureError(p) ==
    status' = [q \in Pages |-> IF q = p /\ q \in Rows \ Closed THEN "error" ELSE status[q]]

(* Variant: fetch reads the rows and does not mark them.                   *)
ReadOnly(ps) == UNCHANGED status

(* The update of fetch.sql.                                                *)
Take(ps) == status' = [p \in Pages |-> IF p \in ps THEN "taken" ELSE status[p]]

(* Variant: the statement opens every row again.                           *)
ResetAll ==
    status' = [p \in Pages |-> IF status[p] # "absent" THEN "open" ELSE status[p]]

(* reset_queue.sql *)
ResetTaken ==
    status' = [p \in Pages |-> IF status[p] \in {"taken", "error"} THEN "open" ELSE status[p]]

=============================================================================
