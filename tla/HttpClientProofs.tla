-------------------------- MODULE HttpClientProofs --------------------------
(* Theorems of the HTTP client, for any number of calls, slots, tokens and   *)
(* retries, and cancellations at any await.                                  *)
EXTENDS HttpClient, FiniteSetTheorems, TLAPS

-----------------------------------------------------------------------------
(* The inductive invariant.  RetriesPay is not inductive: what keeps the     *)
(* count from falling is that each call waiting for a slot has taken its     *)
(* token.  The type of a retry needs that only attempts short of the last    *)
(* one back off.                                                             *)

\* The calls that have a token and no slot yet.
Waiting == {c \in Calls : call[c].pc = "slot"}

\* A call that backs off has an attempt left.
BackoffMayRetry == \A c \in Calls : call[c].pc = "backoff" => call[c].attempt < MaxRetries

\* The tokens of the calls that wait are among those not spent.
TokensCover == unspent >= Cardinality(Waiting)

\* How many slots a call holds, and how many tokens it has not spent, where it is.
Inside(pc) == IF pc \in {"sending", "backoff"} THEN 1 ELSE 0
Paid(pc) == IF pc = "slot" THEN 1 ELSE 0

HttpInv == HttpTypeOK /\ SlotsBalance /\ BackoffMayRetry /\ TokensCover

-----------------------------------------------------------------------------
LEMMA CallsCounted ==
    IsFiniteSet(Holders) /\ IsFiniteSet(Waiting)
      /\ Cardinality(Holders) \in Nat /\ Cardinality(Waiting) \in Nat
<1>1. IsFiniteSet(Holders)
  BY HttpAssumption, FS_Subset DEF Holders
<1>2. IsFiniteSet(Waiting)
  BY HttpAssumption, FS_Subset DEF Waiting
<1> QED
  BY <1>1, <1>2, FS_CardinalityType

\* A step of one call counts it in or out, of the calls inside and of those that wait.
LEMMA OneCallMoves ==
    ASSUME call \in [Calls -> CallType], NEW c \in Calls, NEW new \in CallType,
           call' = [call EXCEPT ![c] = new]
    PROVE  /\ call' \in [Calls -> CallType]
           /\ \A d \in Calls : call'[d] = IF d = c THEN new ELSE call[d]
           /\ Holders' = IF new.pc \in {"sending", "backoff"} THEN Holders \cup {c} ELSE Holders \ {c}
           /\ Waiting' = IF new.pc = "slot" THEN Waiting \cup {c} ELSE Waiting \ {c}
           /\ Cardinality(Holders') =
                Cardinality(Holders) + Inside(new.pc) - Inside(call[c].pc)
           /\ Cardinality(Waiting') =
                Cardinality(Waiting) + Paid(new.pc) - Paid(call[c].pc)
<1>1. call' \in [Calls -> CallType]
  OBVIOUS
<1>2. \A d \in Calls : call'[d] = IF d = c THEN new ELSE call[d]
  OBVIOUS
<1>3. Holders' = IF new.pc \in {"sending", "backoff"} THEN Holders \cup {c} ELSE Holders \ {c}
  BY <1>2 DEF Holders
<1>4. Waiting' = IF new.pc = "slot" THEN Waiting \cup {c} ELSE Waiting \ {c}
  BY <1>2 DEF Waiting
<1>5. c \in Holders <=> call[c].pc \in {"sending", "backoff"}
  BY DEF Holders
<1>6. c \in Waiting <=> call[c].pc = "slot"
  BY DEF Waiting
<1>7. /\ Cardinality(Holders \cup {c}) = IF c \in Holders THEN Cardinality(Holders) ELSE Cardinality(Holders) + 1
      /\ Cardinality(Holders \ {c}) = IF c \in Holders THEN Cardinality(Holders) - 1 ELSE Cardinality(Holders)
  BY CallsCounted, FS_AddElement, FS_RemoveElement
<1>8. /\ Cardinality(Waiting \cup {c}) = IF c \in Waiting THEN Cardinality(Waiting) ELSE Cardinality(Waiting) + 1
      /\ Cardinality(Waiting \ {c}) = IF c \in Waiting THEN Cardinality(Waiting) - 1 ELSE Cardinality(Waiting)
  BY CallsCounted, FS_AddElement, FS_RemoveElement
<1>9. Cardinality(Holders') =
         Cardinality(Holders) + Inside(new.pc) - Inside(call[c].pc)
  BY <1>3, <1>5, <1>7, CallsCounted DEF Inside
<1>10. Cardinality(Waiting') =
         Cardinality(Waiting) + Paid(new.pc) - Paid(call[c].pc)
  BY <1>4, <1>6, <1>8, CallsCounted DEF Paid
<1> QED
  BY <1>1, <1>2, <1>3, <1>4, <1>9, <1>10

LEMMA EndedType ==
    ASSUME NEW result \in Results \ {"none"}, NEW answer \in Answers \cup {"none"}
    PROVE  /\ Ended(result, answer) \in CallType
           /\ Ended(result, answer).pc = "done" /\ Ended(result, answer).result # "none"
<1>1. 0 \in 0..MaxRetries
  BY HttpAssumption
<1> QED
  BY <1>1 DEF Ended, CallType, HttpPCs

LEMMA OutcomeType ==
    ASSUME NEW answer \in Answers
    PROVE  Outcome(answer) \in Results \ {"none"}
  BY DEF Outcome, Results

-----------------------------------------------------------------------------
LEMMA HttpInvInit == HttpInit => HttpInv
<1> SUFFICES ASSUME HttpInit
             PROVE  HttpInv
  OBVIOUS
<1>1. NoCall \in CallType /\ NoCall.pc = "idle" /\ NoCall.result = "none"
  BY HttpAssumption DEF NoCall, CallType, HttpPCs, Results
<1>2. \A c \in Calls : call[c] = NoCall
  BY DEF HttpInit
<1>3. Holders = {} /\ Waiting = {}
  BY <1>1, <1>2 DEF Holders, Waiting
<1>4. HttpTypeOK
  BY <1>1, <1>2, HttpAssumption DEF HttpInit, HttpTypeOK
<1>5. SlotsBalance
  BY <1>3, FS_EmptySet, HttpAssumption DEF HttpInit, SlotsBalance
<1>6. BackoffMayRetry
  BY <1>1, <1>2 DEF BackoffMayRetry
<1>7. TokensCover
  BY <1>3, FS_EmptySet DEF HttpInit, TokensCover
<1> QED
  BY <1>4, <1>5, <1>6, <1>7 DEF HttpInv

\* What a step of one call has to show: the shape of the call, the slot it takes or gives
\* back, and the token it takes or spends.
LEMMA HttpInvMove ==
    ASSUME HttpInv, NEW c \in Calls, NEW new \in CallType,
           call' = [call EXCEPT ![c] = new],
           new.pc = "done" <=> new.result # "none",
           new.pc = "backoff" => new.attempt < MaxRetries,
           bucket' \in 0..Rpm, started' \in BOOLEAN,
           free' = free + Inside(call[c].pc) - Inside(new.pc),
           free' >= 0,
           unspent' \in Int,
           unspent' >= unspent + Paid(new.pc) - Paid(call[c].pc)
    PROVE  HttpInv'
<1> USE DEF HttpInv
<1>1. call \in [Calls -> CallType] /\ free \in Int /\ unspent \in Int
  BY DEF HttpTypeOK
<1>2. /\ call' \in [Calls -> CallType]
      /\ \A d \in Calls : call'[d] = IF d = c THEN new ELSE call[d]
      /\ Cardinality(Holders') =
           Cardinality(Holders) + Inside(new.pc) - Inside(call[c].pc)
      /\ Cardinality(Waiting') =
           Cardinality(Waiting) + Paid(new.pc) - Paid(call[c].pc)
  BY <1>1, OneCallMoves
<1>3. SlotsBalance'
  <2>1. Inside(new.pc) \in Int /\ Inside(call[c].pc) \in Int
    BY DEF Inside
  <2> QED
    BY <1>1, <1>2, <2>1, CallsCounted DEF SlotsBalance
<1>4. free' \in 0..Concurrency
  <2>1. Holders' \subseteq Calls
    BY DEF Holders
  <2>2. Cardinality(Holders') \in Nat
    BY <2>1, HttpAssumption, FS_Subset, FS_CardinalityType
  <2> QED
    BY <1>1, <1>3, <2>2, HttpAssumption DEF SlotsBalance
<1>5. HttpTypeOK'
  BY <1>2, <1>4 DEF HttpTypeOK
<1>6. BackoffMayRetry'
  BY <1>2 DEF BackoffMayRetry
<1>7. TokensCover'
  <2>1. unspent >= Cardinality(Waiting) /\ Cardinality(Waiting) \in Int
    BY CallsCounted DEF TokensCover
  <2>2. Paid(new.pc) \in Int /\ Paid(call[c].pc) \in Int
    BY DEF Paid
  <2>3. unspent' >= Cardinality(Waiting')
    BY <1>1, <1>2, <2>1, <2>2
  <2> QED
    BY <2>3 DEF TokensCover
<1> QED
  BY <1>3, <1>5, <1>6, <1>7

-----------------------------------------------------------------------------
LEMMA HttpInvNext == HttpInv /\ [HttpNext]_httpVars => HttpInv'
<1> SUFFICES ASSUME HttpInv, [HttpNext]_httpVars
             PROVE  HttpInv'
  OBVIOUS
<1>1. /\ call \in [Calls -> CallType] /\ \A c \in Calls : call[c].pc = "done" <=> call[c].result # "none"
      /\ bucket \in 0..Rpm /\ free \in 0..Concurrency /\ started \in BOOLEAN /\ unspent \in Int
  BY DEF HttpInv, HttpTypeOK
<1>2. \A c \in Calls : /\ call[c] \in CallType
                       /\ call[c] = [pc |-> call[c].pc, attempt |-> call[c].attempt,
                                    heard |-> call[c].heard, result |-> call[c].result]
  BY <1>1 DEF CallType
<1>attempts. \A c \in Calls : call[c].attempt \in 0..MaxRetries
  BY <1>1 DEF CallType
<1>3. Concurrency \in Nat /\ Rpm \in Nat /\ MaxRetries \in Nat
  BY HttpAssumption
<1>4. ASSUME NEW c \in Calls, HttpRequest(c)
      PROVE  HttpInv'
  <2> DEFINE new == [call[c] EXCEPT !.pc = "token"]
  <2>1. new \in CallType /\ call' = [call EXCEPT ![c] = new]
    BY <1>1, <1>2, <1>4 DEF HttpRequest, CallType, HttpPCs
  <2>2. new.pc = "token" /\ new.result = call[c].result /\ call[c].pc = "idle"
    BY <1>2, <1>4 DEF HttpRequest, CallType
  <2>3. free' = free /\ unspent' = unspent /\ bucket' = bucket /\ started' = started
    BY <1>4 DEF HttpRequest
  <2>4. /\ free' \in Int /\ free' >= 0 /\ free' = free + Inside(call[c].pc) - Inside(new.pc)
        /\ unspent' \in Int /\ unspent' >= unspent + Paid(new.pc) - Paid(call[c].pc)
        /\ bucket' \in 0..Rpm /\ started' \in BOOLEAN
    BY <1>1, <1>3, <2>1, <2>2, <2>3 DEF Inside, Paid
  <2>5. (new.pc = "done" <=> new.result # "none") /\ (new.pc = "backoff" => new.attempt < MaxRetries)
    BY <1>1, <2>1, <2>2
  <2> HIDE DEF new
  <2> QED
    BY <2>1, <2>2, <2>4, <2>5, HttpInvMove
<1>5. ASSUME NEW c \in Calls, TakeToken(c)
      PROVE  HttpInv'
  <2> DEFINE new == [call[c] EXCEPT !.pc = "slot"]
  <2>1. new \in CallType /\ call' = [call EXCEPT ![c] = new]
    BY <1>1, <1>2, <1>5 DEF TakeToken, CallType, HttpPCs
  <2>2. new.pc = "slot" /\ new.result = call[c].result /\ call[c].pc = "token"
    BY <1>2, <1>5 DEF TakeToken, CallType
  <2>3. free' = free /\ unspent' = unspent + 1 /\ bucket' \in 0..Rpm /\ started' = started
    BY <1>1, <1>3, <1>5 DEF TakeToken
  <2>4. /\ free' \in Int /\ free' >= 0 /\ free' = free + Inside(call[c].pc) - Inside(new.pc)
        /\ unspent' \in Int /\ unspent' >= unspent + Paid(new.pc) - Paid(call[c].pc)
        /\ bucket' \in 0..Rpm /\ started' \in BOOLEAN
    BY <1>1, <1>3, <2>1, <2>2, <2>3 DEF Inside, Paid
  <2>5. (new.pc = "done" <=> new.result # "none") /\ (new.pc = "backoff" => new.attempt < MaxRetries)
    BY <1>1, <2>1, <2>2
  <2> HIDE DEF new
  <2> QED
    BY <2>1, <2>2, <2>4, <2>5, HttpInvMove
<1>6. ASSUME NEW c \in Calls, TakeSlot(c)
      PROVE  HttpInv'
  <2> DEFINE new == [call[c] EXCEPT !.pc = "sending"]
  <2>1. new \in CallType /\ call' = [call EXCEPT ![c] = new]
    BY <1>1, <1>2, <1>6 DEF TakeSlot, CallType, HttpPCs
  <2>2. new.pc = "sending" /\ new.result = call[c].result /\ call[c].pc = "slot"
    BY <1>2, <1>6 DEF TakeSlot, CallType
  <2>3. free > 0 /\ free' = free - 1 /\ unspent' = unspent - 1 /\ bucket' = bucket /\ started' = started
    BY <1>6 DEF TakeSlot
  <2>4. /\ free' \in Int /\ free' >= 0 /\ free' = free + Inside(call[c].pc) - Inside(new.pc)
        /\ unspent' \in Int /\ unspent' >= unspent + Paid(new.pc) - Paid(call[c].pc)
        /\ bucket' \in 0..Rpm /\ started' \in BOOLEAN
    BY <1>1, <1>3, <2>1, <2>2, <2>3 DEF Inside, Paid
  <2>5. (new.pc = "done" <=> new.result # "none") /\ (new.pc = "backoff" => new.attempt < MaxRetries)
    BY <1>1, <2>1, <2>2
  <2> HIDE DEF new
  <2> QED
    BY <2>1, <2>2, <2>4, <2>5, HttpInvMove
<1>7. ASSUME NEW c \in Calls, ClientClosed(c)
      PROVE  HttpInv'
  <2> DEFINE new == Ended("error", "none")
  <2>1. new \in CallType /\ new.pc = "done" /\ new.result # "none"
    BY EndedType DEF Results
  <2>2. call' = [call EXCEPT ![c] = new] /\ call[c].pc = "slot"
    BY <1>7 DEF ClientClosed
  <2>3. free' = free /\ unspent' = unspent /\ bucket' = bucket /\ started' = started
    BY <1>7 DEF ClientClosed
  <2>4. /\ free' \in Int /\ free' >= 0 /\ free' = free + Inside(call[c].pc) - Inside(new.pc)
        /\ unspent' \in Int /\ unspent' >= unspent + Paid(new.pc) - Paid(call[c].pc)
        /\ bucket' \in 0..Rpm /\ started' \in BOOLEAN
    BY <1>1, <1>3, <2>1, <2>2, <2>3 DEF Inside, Paid
  <2>5. (new.pc = "done" <=> new.result # "none") /\ (new.pc = "backoff" => new.attempt < MaxRetries)
    BY <1>1, <2>1, <2>2
  <2> HIDE DEF new
  <2> QED
    BY <2>1, <2>2, <2>4, <2>5, HttpInvMove
<1>8. ASSUME NEW c \in Calls, Retry(c)
      PROVE  HttpInv'
  <2> DEFINE new == [call[c] EXCEPT !.pc = "token", !.attempt = call[c].attempt + 1]
  <2>1. call[c].pc = "backoff" /\ call[c].attempt + 1 \in 0..MaxRetries
    <3>1. call[c].pc = "backoff"
      BY <1>8 DEF Retry
    <3>2. call[c].attempt < MaxRetries
      BY <3>1 DEF HttpInv, BackoffMayRetry
    <3> QED
      BY <1>attempts, <1>3, <3>1, <3>2
  <2>2. new \in CallType /\ call' = [call EXCEPT ![c] = new]
    BY <1>1, <1>2, <1>8, <2>1 DEF Retry, CallType, HttpPCs
  <2>3. new.pc = "token" /\ new.result = call[c].result
    BY <1>2 DEF CallType
  <2>4. free' = free + 1 /\ unspent' = unspent /\ bucket' = bucket /\ started' = started
    BY <1>8 DEF Retry
  <2>5. /\ free' \in Int /\ free' >= 0 /\ free' = free + Inside(call[c].pc) - Inside(new.pc)
        /\ unspent' \in Int /\ unspent' >= unspent + Paid(new.pc) - Paid(call[c].pc)
        /\ bucket' \in 0..Rpm /\ started' \in BOOLEAN
    BY <1>1, <1>3, <2>1, <2>3, <2>4 DEF Inside, Paid
  <2>6. (new.pc = "done" <=> new.result # "none") /\ (new.pc = "backoff" => new.attempt < MaxRetries)
    BY <1>1, <2>1, <2>3
  <2> HIDE DEF new
  <2> QED
    BY <2>2, <2>5, <2>6, HttpInvMove
<1>9. ASSUME NEW c \in Calls, NEW answer \in Answers, Final(c, answer)
      PROVE  HttpInv'
  <2> DEFINE new == Ended(Outcome(answer), answer)
  <2>1. new \in CallType /\ new.pc = "done" /\ new.result # "none"
    BY EndedType, OutcomeType
  <2>2. call' = [call EXCEPT ![c] = new] /\ call[c].pc = "sending"
    BY <1>9 DEF Final
  <2>3. free' = free + 1 /\ unspent' = unspent /\ bucket' = bucket /\ started' = started
    BY <1>9 DEF Final
  <2>4. /\ free' \in Int /\ free' >= 0 /\ free' = free + Inside(call[c].pc) - Inside(new.pc)
        /\ unspent' \in Int /\ unspent' >= unspent + Paid(new.pc) - Paid(call[c].pc)
        /\ bucket' \in 0..Rpm /\ started' \in BOOLEAN
    BY <1>1, <1>3, <2>1, <2>2, <2>3 DEF Inside, Paid
  <2>5. (new.pc = "done" <=> new.result # "none") /\ (new.pc = "backoff" => new.attempt < MaxRetries)
    BY <1>1, <2>1, <2>2
  <2> HIDE DEF new
  <2> QED
    BY <2>1, <2>2, <2>4, <2>5, HttpInvMove
<1>10. ASSUME NEW c \in Calls, NEW answer \in Answers, Backoff(c, answer)
       PROVE  HttpInv'
  <2> DEFINE new == [call[c] EXCEPT !.pc = "backoff"]
  <2>1. new \in CallType /\ call' = [call EXCEPT ![c] = new]
    BY <1>1, <1>2, <1>10 DEF Backoff, CallType, HttpPCs
  <2>2. /\ new.pc = "backoff" /\ new.result = call[c].result /\ call[c].pc = "sending"
        /\ new.attempt < MaxRetries
    <3>1. call[c].pc = "sending" /\ call[c].attempt # MaxRetries
      BY <1>10 DEF Backoff, GivesUp
    <3>2. call[c].attempt < MaxRetries
      BY <1>attempts, <1>3, <3>1
    <3>3. new.pc = "backoff" /\ new.result = call[c].result /\ new.attempt = call[c].attempt
      BY <1>2 DEF CallType
    <3> QED
      BY <3>1, <3>2, <3>3
  <2>3. free' = free /\ unspent' = unspent /\ bucket' = bucket /\ started' = started
    BY <1>10 DEF Backoff
  <2>4. /\ free' \in Int /\ free' >= 0 /\ free' = free + Inside(call[c].pc) - Inside(new.pc)
        /\ unspent' \in Int /\ unspent' >= unspent + Paid(new.pc) - Paid(call[c].pc)
        /\ bucket' \in 0..Rpm /\ started' \in BOOLEAN
    BY <1>1, <1>3, <2>1, <2>2, <2>3 DEF Inside, Paid
  <2>5. (new.pc = "done" <=> new.result # "none") /\ (new.pc = "backoff" => new.attempt < MaxRetries)
    BY <1>1, <2>1, <2>2
  <2> HIDE DEF new
  <2> QED
    BY <2>1, <2>2, <2>4, <2>5, HttpInvMove
<1>11. ASSUME NEW c \in Calls, Cancel(c)
       PROVE  HttpInv'
  <2> DEFINE new == Ended("cancelled", "none")
  <2>1. new \in CallType /\ new.pc = "done" /\ new.result # "none"
    BY EndedType DEF Results
  <2>2. call' = [call EXCEPT ![c] = new]
    BY <1>11 DEF Cancel
  <2>3. /\ free' = free + Inside(call[c].pc)
        /\ unspent' = unspent /\ bucket' = bucket /\ started' = started
    BY <1>1, <1>11 DEF Cancel, Holders, Inside
  <2>4. /\ free' \in Int /\ free' >= 0 /\ free' = free + Inside(call[c].pc) - Inside(new.pc)
        /\ unspent' \in Int /\ unspent' >= unspent + Paid(new.pc) - Paid(call[c].pc)
        /\ bucket' \in 0..Rpm /\ started' \in BOOLEAN
    BY <1>1, <1>3, <2>1, <2>2, <2>3 DEF Inside, Paid
  <2>5. (new.pc = "done" <=> new.result # "none") /\ (new.pc = "backoff" => new.attempt < MaxRetries)
    BY <1>1, <2>1, <2>2
  <2> HIDE DEF new
  <2> QED
    BY <2>1, <2>2, <2>4, <2>5, HttpInvMove
<1>12. ASSUME call' = call, bucket' \in 0..Rpm, free' = free, started' \in BOOLEAN, unspent' = unspent
       PROVE  HttpInv'
  BY <1>12 DEF HttpInv, HttpTypeOK, SlotsBalance, Holders, BackoffMayRetry, TokensCover, Waiting
<1>13. CASE Leak
  BY <1>1, <1>3, <1>12, <1>13 DEF Leak
<1>14. CASE StopHttp
  BY <1>1, <1>12, <1>14 DEF StopHttp
<1>15. CASE UNCHANGED httpVars
  BY <1>1, <1>12, <1>15 DEF httpVars
<1> QED
  BY <1>4, <1>5, <1>6, <1>7, <1>8, <1>9, <1>10, <1>11, <1>13, <1>14, <1>15 DEF HttpNext, HttpStep

-----------------------------------------------------------------------------
LEMMA HttpInvariant == HttpSpec => []HttpInv
  BY HttpInvInit, HttpInvNext, PTL DEF HttpSpec

\* Every variable keeps its shape, the semaphore and the bucket their bounds, and a call has
\* a result exactly when it has ended.
THEOREM HttpTypeCorrect == HttpSpec => []HttpTypeOK
<1>1. HttpInv => HttpTypeOK
  BY DEF HttpInv
<1> QED
  BY <1>1, HttpInvariant, PTL

\* No slot of RateLimiter.acquire is lost and none is made, whatever is answered, retried,
\* closed or cancelled.
THEOREM SlotsAreGivenBack == HttpSpec => []SlotsBalance
<1>1. HttpInv => SlotsBalance
  BY DEF HttpInv
<1> QED
  BY <1>1, HttpInvariant, PTL

\* Every request sent by _request, the retries included, has taken a token of its own.
THEOREM EveryRequestPays == HttpSpec => []RetriesPay
<1>1. HttpInv => RetriesPay
  <2> SUFFICES ASSUME HttpInv
               PROVE  RetriesPay
    OBVIOUS
  <2>1. unspent \in Int /\ unspent >= Cardinality(Waiting)
    BY DEF HttpInv, HttpTypeOK, TokensCover
  <2> QED
    BY <2>1, CallsCounted DEF RetriesPay
<1> QED
  BY <1>1, HttpInvariant, PTL
=============================================================================
