---------------------------- MODULE SourceAccess ----------------------------
(***************************************************************************)
(* What the scrapers make of the HTTP client: MangaWorld's _get_html, with *)
(* its Cloudflare solver, MangaDex's get_json, and what their methods      *)
(* return or raise, which the search service, the follow checks and the    *)
(* downloads then see.                                                     *)
(*                                                                         *)
(* "list" stands for search, get_chapters and get_pages, whose errors are  *)
(* handled alike; "series" is get_series.                                  *)
(***************************************************************************)
EXTENDS HttpClient

VARIABLES
    source,  \* the scraper whose domain this is
    access   \* per call: the method called, where it is and what it gave

accessVars == <<call, bucket, free, started, unspent, source, access>>

Sources == {"mangaworld", "mangadex"}
Methods == {"list", "series"}
Given == {"none", "data", "empty", "notfound", "unavailable",
          "ratelimited", "httpstatus", "error", "cancelled"}
AccessType ==
    [method : Methods \cup {"none"}, pc : {"none", "http", "solving", "answered"}, gave : Given]
NoAccess == [method |-> "none", pc |-> "none", gave |-> "none"]

AccessInit ==
    /\ HttpInit
    /\ source \in Sources
    /\ access = [c \in Calls |-> NoAccess]

-----------------------------------------------------------------------------
\* What a method of MangaWorld may make of a page: a list, empty where the page has no such
\* element; a series, or SeriesNotFound without its title.
FromHtml(method) == {"data", IF method = "list" THEN "empty" ELSE "notfound"}

\* What one of MangaDex may make of an answer: the same of its data, an error of what is
\* no JSON.
FromJson(method) == {"data", "error", IF method = "list" THEN "empty" ELSE "notfound"}

\* What it does with BlockedByCloudflare.
FromBlock(method) == IF method = "list" THEN "empty" ELSE "unavailable"

\* Mutant: a method that returns a list catches every error.
FromErrorSwallowed(method, error) == IF method = "list" THEN "empty" ELSE error

\* What it does with another error: MangaDex returns an empty list on SourceUnavailable.
FromError(method, error) ==
    IF method = "list" /\ source = "mangadex" /\ error = "unavailable" THEN "empty" ELSE error

Blocked(c) ==
    /\ source = "mangaworld"
    /\ call[c].result = "unavailable"
    /\ call[c].heard \in {"403", "503"}

Give(c, what) == access' = [access EXCEPT ![c].pc = "answered", ![c].gave = what]

-----------------------------------------------------------------------------
CallMethod(c) ==
    /\ HttpRequest(c)
    /\ \E m \in Methods : access' = [access EXCEPT ![c] = [NoAccess EXCEPT !.method = m, !.pc = "http"]]
    /\ UNCHANGED source

Parse(c) ==
    /\ access[c].pc = "http"
    /\ call[c].result = "ok"
    /\ \E what \in IF source = "mangaworld" THEN FromHtml(access[c].method) ELSE FromJson(access[c].method) :
          Give(c, what)
    /\ UNCHANGED <<httpVars, source>>

Fail(c) ==
    /\ access[c].pc = "http"
    /\ call[c].result \notin {"none", "ok", "cancelled"}
    /\ ~Blocked(c)
    /\ Give(c, FromError(access[c].method, call[c].result))
    /\ UNCHANGED <<httpVars, source>>

\* CancelledError is not an Exception: nothing catches it, during a request or a solving.
Cancelled(c) ==
    /\ \/ access[c].pc = "http" /\ call[c].result = "cancelled"
       \/ access[c].pc = "solving"
    /\ Give(c, "cancelled")
    /\ UNCHANGED <<httpVars, source>>

AskSolver(c) ==
    /\ access[c].pc = "http"
    /\ Blocked(c)
    /\ access' = [access EXCEPT ![c].pc = "solving"]
    /\ UNCHANGED <<httpVars, source>>

\* The solver's page is parsed as if the source had sent it.  Its cookies go to the scraper's
\* file and into the headers of later requests, which may be blocked all the same.
Solved(c) ==
    /\ access[c].pc = "solving"
    /\ \E what \in FromHtml(access[c].method) : Give(c, what)
    /\ UNCHANGED <<httpVars, source>>

\* None configured, unreachable, or it got an error page too.
SolverFails(c) ==
    /\ access[c].pc = "solving"
    /\ Give(c, FromBlock(access[c].method))
    /\ UNCHANGED <<httpVars, source>>

Transport ==
    /\ \/ \E c \in Calls : HttpStep(c) \/ Cancel(c)
       \/ Leak
       \/ StopHttp
    /\ UNCHANGED <<source, access>>

AccessStep(c) ==
    Parse(c) \/ Fail(c) \/ Cancelled(c) \/ AskSolver(c) \/ Solved(c) \/ SolverFails(c)

AccessNext ==
    \/ \E c \in Calls : CallMethod(c) \/ AccessStep(c)
    \/ Transport

AccessSpec == AccessInit /\ [][AccessNext]_accessVars

-----------------------------------------------------------------------------
(* Properties.                                                             *)

\* Every variable keeps its shape; a method is called as long as its request is.
AccessTypeOK ==
    /\ HttpTypeOK
    /\ source \in Sources
    /\ access \in [Calls -> AccessType]
    /\ \A c \in Calls : call[c].pc = "idle" <=> access[c].pc = "none"
    /\ \A c \in Calls : access[c].pc \in {"solving", "answered"} => call[c].pc = "done"

\* An empty list is what the source said, or a failure the scraper is written to hide:
\* of MangaWorld a block (403 or 503), of MangaDex an unavailable API.  A rate limit, a
\* missing page, a closed client or a failure that is no block is never taken for "no
\* chapters", "no pages" or "no results": a check or a download that meets one reports it.
EmptyIsExcused ==
    \A c \in Calls :
        access[c].gave = "empty" =>
            \/ call[c].heard = "ok"
            \/ source = "mangaworld" /\ call[c].heard \in {"403", "503"}
            \/ source = "mangadex" /\ call[c].heard \in {"down", "503", "403", "400"}
=============================================================================
