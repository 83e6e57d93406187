----------------------------- MODULE HttpClient -----------------------------
(***************************************************************************)
(* HttpClient._request over RateLimiter.acquire, for one scraper and one   *)
(* domain: every attempt takes a token of the leaky bucket and then a slot *)
(* of the semaphore.  The token is spent; the slot is given back whichever *)
(* way the attempt ends, and is held through the sleep before a retry.     *)
(***************************************************************************)
EXTENDS Integers, FiniteSets

CONSTANTS
    Calls,       \* calls of get_text, get_json, get_bytes
    Concurrency, \* scraper_concurrency
    Rpm,         \* the capacity of the bucket
    MaxRetries   \* HttpClient.max_retries

ASSUME HttpAssumption ==
    /\ IsFiniteSet(Calls)
    /\ {Concurrency, Rpm} \subseteq Nat \ {0}
    /\ MaxRetries \in Nat

VARIABLES
    call,     \* the frame of each _request
    bucket,   \* tokens of the AsyncLimiter not leaked away yet
    free,     \* the value of the asyncio.Semaphore
    started,  \* the httpx client is open
    unspent   \* history: tokens taken that no request was sent for yet

httpVars == <<call, bucket, free, started, unspent>>

(* What a request can meet: "down" is ConnectError, ReadTimeout,           *)
(* RemoteProtocolError or a 5xx other than 503, which the scrapers tell    *)
(* apart, as they do 403 among the 4xx; "raises" is anything else that is  *)
(* raised: other httpx errors, a retry-after that is not a number.         *)
Retryable == {"down", "429", "503"}
Answers == Retryable \cup {"ok", "403", "404", "400", "raises"}
Results == {"none", "ok", "unavailable", "ratelimited", "httpstatus", "error", "cancelled"}
HttpPCs == {"idle", "token", "slot", "sending", "backoff", "done"}

CallType == [pc : HttpPCs, attempt : 0..MaxRetries,
             heard : Answers \cup {"none"}, result : Results]
NoCall == [pc |-> "idle", attempt |-> 0, heard |-> "none", result |-> "none"]
Ended(result, answer) == [pc |-> "done", attempt |-> 0, heard |-> answer, result |-> result]

HttpInit ==
    /\ call = [c \in Calls |-> NoCall]
    /\ bucket = 0
    /\ free = Concurrency
    /\ started = TRUE
    /\ unspent = 0

\* The calls inside the semaphore.
Holders == {c \in Calls : call[c].pc \in {"sending", "backoff"}}

-----------------------------------------------------------------------------
HttpRequest(c) ==
    /\ call[c].pc = "idle"
    /\ call' = [call EXCEPT ![c].pc = "token"]
    /\ UNCHANGED <<bucket, free, started, unspent>>

TakeToken(c) ==
    /\ call[c].pc = "token"
    /\ bucket < Rpm
    /\ bucket' = bucket + 1
    /\ unspent' = unspent + 1
    /\ call' = [call EXCEPT ![c].pc = "slot"]
    /\ UNCHANGED <<free, started>>

\* The client is looked up once the slot is taken.
TakeSlot(c) ==
    /\ call[c].pc = "slot"
    /\ free > 0
    /\ started
    /\ free' = free - 1
    /\ call' = [call EXCEPT ![c].pc = "sending"]
    /\ unspent' = unspent - 1
    /\ UNCHANGED <<bucket, started>>

\* The property client raises RuntimeError: the slot is given back at once.
ClientClosed(c) ==
    /\ call[c].pc = "slot"
    /\ free > 0
    /\ ~started
    /\ call' = [call EXCEPT ![c] = Ended("error", "none")]
    /\ UNCHANGED <<bucket, free, started, unspent>>

\* What _request makes of an answer it does not retry.
Outcome(answer) ==
    CASE answer = "ok" -> "ok"
      [] answer = "429" -> "ratelimited"
      [] answer = "404" -> "httpstatus"
      [] answer = "raises" -> "error"
      [] OTHER -> "unavailable"

GivesUp(c, answer) == answer \notin Retryable \/ call[c].attempt = MaxRetries

Final(c, answer) ==
    /\ call[c].pc = "sending"
    /\ GivesUp(c, answer)
    /\ call' = [call EXCEPT ![c] = Ended(Outcome(answer), answer)]
    /\ free' = free + 1
    /\ UNCHANGED <<bucket, started, unspent>>

\* _sleep_backoff, or the sleep of a 429, inside the async with.
Backoff(c, answer) ==
    /\ call[c].pc = "sending"
    /\ ~GivesUp(c, answer)
    /\ call' = [call EXCEPT ![c].pc = "backoff"]
    /\ UNCHANGED <<bucket, free, started, unspent>>

\* Mutant: the loop is inside the async with, so a retry pays no token.
RetryUnpaid(c) ==
    /\ call[c].pc = "backoff"
    /\ call' = [call EXCEPT ![c].pc = "slot", ![c].attempt = @ + 1]
    /\ free' = free + 1
    /\ UNCHANGED <<bucket, started, unspent>>

\* continue: out of the async with, and into the next one.
Retry(c) ==
    /\ call[c].pc = "backoff"
    /\ call' = [call EXCEPT ![c].pc = "token", ![c].attempt = @ + 1]
    /\ free' = free + 1
    /\ UNCHANGED <<bucket, started, unspent>>

\* Mutant: only an attempt that was answered gives its slot back.
CancelKeepsSlot(c) ==
    /\ call[c].pc \notin {"idle", "done"}
    /\ call' = [call EXCEPT ![c] = Ended("cancelled", "none")]
    /\ UNCHANGED <<bucket, free, started, unspent>>

\* Mutant: a slot is given back whether it was taken or not.
CancelFreesAlways(c) ==
    /\ call[c].pc \notin {"idle", "done"}
    /\ call' = [call EXCEPT ![c] = Ended("cancelled", "none")]
    /\ free' = free + 1
    /\ UNCHANGED <<bucket, started, unspent>>

\* The task that awaits is cancelled: a client that hung up, a shutdown.
Cancel(c) ==
    /\ call[c].pc \notin {"idle", "done"}
    /\ call' = [call EXCEPT ![c] = Ended("cancelled", "none")]
    /\ free' = IF c \in Holders THEN free + 1 ELSE free
    /\ UNCHANGED <<bucket, started, unspent>>

\* Time passes and the bucket leaks.
Leak ==
    /\ bucket > 0
    /\ bucket' = bucket - 1
    /\ UNCHANGED <<call, free, started, unspent>>

StopHttp ==
    /\ started
    /\ started' = FALSE
    /\ UNCHANGED <<call, bucket, free, unspent>>

HttpStep(c) ==
    \/ TakeToken(c) \/ TakeSlot(c) \/ ClientClosed(c) \/ Retry(c)
    \/ \E answer \in Answers : Final(c, answer) \/ Backoff(c, answer)

HttpNext ==
    \/ \E c \in Calls : HttpRequest(c) \/ HttpStep(c) \/ Cancel(c)
    \/ Leak \/ StopHttp

HttpSpec == HttpInit /\ [][HttpNext]_httpVars

\* A request has a timeout and a sleep an end; time passes.
HttpFairness == WF_httpVars(Leak) /\ \A c \in Calls : WF_httpVars(HttpStep(c))

-----------------------------------------------------------------------------
(* Properties.                                                             *)

\* Every variable keeps its shape; a call that has ended has a result.
HttpTypeOK ==
    /\ call \in [Calls -> CallType]
    /\ \A c \in Calls : call[c].pc = "done" <=> call[c].result # "none"
    /\ bucket \in 0..Rpm
    /\ free \in 0..Concurrency
    /\ started \in BOOLEAN
    /\ unspent \in Int

\* No slot is lost and none is made: after any mix of answers, retries, closed clients
\* and cancellations at any await, the slots not free are those of the calls inside.
SlotsBalance == free + Cardinality(Holders) = Concurrency

\* Every request, the retries included, was paid for with a token of its own: the
\* bucket bounds what the source receives and not only what the program asks for.
RetriesPay == unspent >= 0

\* Every call ends though the source never answers well, and though others sleep
\* with the slots it needs.
CallsEnd == \A c \in Calls : call[c].pc = "token" ~> call[c].pc = "done"
=============================================================================
