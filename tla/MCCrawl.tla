------------------------------ MODULE MCCrawl ------------------------------
(***************************************************************************)
(* Small webs for Crawl.  "home" is a seed, and deeper pages lead back to  *)
(* it in every web; in the first two, two pages lead to "deep" and answers *)
(* differ between two downloads of the same page.                          *)
(***************************************************************************)
EXTENDS Crawl

AnswerPage(links) == [kind |-> "page", links |-> links, analyses |-> TRUE]
AnswerBare(links) == [kind |-> "page", links |-> links, analyses |-> FALSE]
AnswerStatus == [kind |-> "status", links |-> {}, analyses |-> FALSE]
AnswerFailed == [kind |-> "failed", links |-> {}, analyses |-> FALSE]
AnswerBadLocation == [kind |-> "bad_location", links |-> {}, analyses |-> FALSE]
AnswerRedirect(q) == [kind |-> "redirect", links |-> {q}, analyses |-> FALSE]

MCHost == [p \in Pages |-> IF p = "far" THEN "h2" ELSE "h1"]

MCRoute == [p \in Pages |-> IF p = "far" THEN "w2" ELSE "w1"]

(* One worker for everything. *)
OneRoute == [p \in Pages |-> "w1"]

(* home leads to both others, or sometimes to news only; far redirects, to *)
(* one place or to another; news may fail; edge is beyond a depth of 2.    *)
ChangingWeb == [p \in Pages |->
    CASE p = "home" -> {AnswerPage({"news", "far"}), AnswerBare({"news"})}
      [] p = "news" -> {AnswerPage({"home", "deep"}), AnswerFailed}
      [] p = "far"  -> {AnswerRedirect("home"), AnswerRedirect("deep"), AnswerBadLocation}
      [] p = "deep" -> {AnswerBare({"edge"}), AnswerStatus}
      [] p = "edge" -> {AnswerStatus}]

(* Nothing that a run cannot get past: every answer closes or fails a page *)
KindWeb == [p \in Pages |->
    CASE p = "home" -> {AnswerPage({"news", "far"})}
      [] p = "news" -> {AnswerPage({"home", "deep"}), AnswerFailed}
      [] p = "far"  -> {AnswerRedirect("deep"), AnswerStatus}
      [] p = "deep" -> {AnswerBare({"far", "edge"})}
      [] p = "edge" -> {AnswerStatus}]

(* Two pages, nothing out of the ordinary.                                 *)
PlainWeb == [p \in Pages |->
    CASE p = "home" -> {AnswerPage({"news"})}
      [] p = "news" -> {AnswerPage({"home"})}]

=============================================================================
