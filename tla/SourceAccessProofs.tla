------------------------- MODULE SourceAccessProofs -------------------------
(* Theorems of the scrapers over the HTTP client: what an empty list may     *)
(* mean, for any number of calls and any order of answers, retries, blocks,  *)
(* solvings and cancellations; and of the pages they read out of a chapter's *)
(* document.                                                                 *)
EXTENDS SourceAccess, Listing, HttpClientProofs, OrderingProofs

-----------------------------------------------------------------------------
(* The inductive invariant: EmptyIsExcused speaks of the answer a call heard *)
(* last, and the scraper decides by the result _request made of it and, for  *)
(* a block, at one step and returns at a later one.                          *)

\* What _request returned or raised tells what it had heard.
ResultsTell ==
    \A c \in Calls : call[c].pc = "done" =>
        /\ call[c].result = "ok" => call[c].heard = "ok"
        /\ call[c].result = "unavailable" => call[c].heard \in {"down", "503", "403", "400"}

\* The solver is asked about blocks alone, and what was heard stays until it answers.
SolvingIsBlocked == \A c \in Calls : access[c].pc = "solving" => Blocked(c)

\* Nothing is given before the method returns.
GivenWhenAnswered == \A c \in Calls : access[c].pc # "answered" => access[c].gave = "none"

\* The part of AccessTypeOK that is about the scrapers.
AccessShape ==
    /\ source \in Sources
    /\ access \in [Calls -> AccessType]
    /\ \A c \in Calls : call[c].pc = "idle" <=> access[c].pc = "none"
    /\ \A c \in Calls : access[c].pc \in {"solving", "answered"} => call[c].pc = "done"

AccessInv ==
    HttpInv /\ AccessShape /\ ResultsTell /\ SolvingIsBlocked /\ GivenWhenAnswered /\ EmptyIsExcused

-----------------------------------------------------------------------------
\* A scraper takes only steps of the client, and those of its own leave it alone.
LEMMA AccessStepsAreHttpSteps == [AccessNext]_accessVars => [HttpNext]_httpVars
  BY DEF AccessNext, accessVars, httpVars, AccessStep, Parse, Fail, Cancelled, AskSolver, Solved,
         SolverFails, CallMethod, Transport, HttpNext

LEMMA AccessInvInit == AccessInit => AccessInv
<1> SUFFICES ASSUME AccessInit
             PROVE  AccessInv
  OBVIOUS
<1>1. HttpInv
  BY HttpInvInit DEF AccessInit
<1>2. \A c \in Calls : access[c] = NoAccess /\ call[c] = NoCall
  BY DEF AccessInit, HttpInit
<1>3. NoAccess \in AccessType /\ NoAccess.pc = "none" /\ NoAccess.gave = "none" /\ NoCall.pc = "idle"
  BY DEF NoAccess, AccessType, Methods, Given, NoCall
<1>4. AccessShape
  BY <1>2, <1>3 DEF AccessInit, AccessShape
<1> QED
  BY <1>1, <1>2, <1>3, <1>4 DEF AccessInv, ResultsTell, SolvingIsBlocked, GivenWhenAnswered, EmptyIsExcused

-----------------------------------------------------------------------------
(* Steps of the client.                                                      *)

\* A step leaves ended calls as they are, and makes none idle that was made.
EndedCallsStay ==
    /\ \A c \in Calls : call[c].pc = "done" => call'[c] = call[c]
    /\ \A c \in Calls : call[c].pc # "idle" => call'[c].pc # "idle"

\* What has been heard of an ended call stays, and a call that a step ends tells it.
LEMMA ClientStepTells ==
    ASSUME HttpInv, ResultsTell, [HttpNext]_httpVars
    PROVE  ResultsTell' /\ EndedCallsStay
<1>1. call \in [Calls -> CallType] /\ \A c \in Calls : call[c] \in CallType
  BY DEF HttpInv, HttpTypeOK
<1>2. ASSUME NEW c \in Calls, NEW new, call[c].pc # "done", call' = [call EXCEPT ![c] = new],
             new.pc # "idle",
             new.pc = "done" => /\ new.result = "ok" => new.heard = "ok"
                                /\ new.result = "unavailable" => new.heard \in {"down", "503", "403", "400"}
      PROVE  ResultsTell' /\ EndedCallsStay
  <2>1. \A d \in Calls : call'[d] = IF d = c THEN new ELSE call[d]
    BY <1>1, <1>2
  <2> QED
    BY <1>2, <2>1 DEF ResultsTell, EndedCallsStay
<1>3. ASSUME NEW c \in Calls,
             HttpRequest(c) \/ TakeToken(c) \/ TakeSlot(c) \/ \E answer \in Answers : Backoff(c, answer)
      PROVE  ResultsTell' /\ EndedCallsStay
  <2>1. PICK pc \in {"token", "slot", "sending", "backoff"} :
           call' = [call EXCEPT ![c] = [call[c] EXCEPT !.pc = pc]]
    BY <1>1, <1>3 DEF HttpRequest, TakeToken, TakeSlot, Backoff
  <2>2. call[c].pc # "done"
    BY <1>3 DEF HttpRequest, TakeToken, TakeSlot, Backoff
  <2>3. [call[c] EXCEPT !.pc = pc].pc = pc
    BY <1>1 DEF CallType
  <2> QED
    BY <1>2, <2>1, <2>2, <2>3
<1>4. ASSUME NEW c \in Calls, Retry(c)
      PROVE  ResultsTell' /\ EndedCallsStay
  <2> DEFINE new == [call[c] EXCEPT !.pc = "token", !.attempt = @ + 1]
  <2>1. call' = [call EXCEPT ![c] = new] /\ call[c].pc = "backoff"
    BY <1>1, <1>4 DEF Retry
  <2>2. new.pc = "token"
    BY <1>1 DEF CallType
  <2> HIDE DEF new
  <2> QED
    BY <1>2, <2>1, <2>2
<1>5. ASSUME NEW c \in Calls, ClientClosed(c) \/ Cancel(c) \/ \E answer \in Answers : Final(c, answer)
      PROVE  ResultsTell' /\ EndedCallsStay
  <2>1. CASE ClientClosed(c) \/ Cancel(c)
    <3>1. PICK result \in {"error", "cancelled"} :
             call[c].pc # "done" /\ call' = [call EXCEPT ![c] = Ended(result, "none")]
      BY <2>1 DEF ClientClosed, Cancel
    <3> DEFINE new == Ended(result, "none")
    <3>2. new.pc = "done" /\ new.result = result
      BY DEF Ended
    <3>3. call' = [call EXCEPT ![c] = new]
      BY <3>1
    <3> HIDE DEF new
    <3> QED
      BY <1>2, <3>1, <3>2, <3>3
  <2>2. CASE \E answer \in Answers : Final(c, answer)
    <3>1. PICK answer \in Answers :
             call[c].pc # "done" /\ call' = [call EXCEPT ![c] = Ended(Outcome(answer), answer)]
      BY <2>2 DEF Final
    <3>2. /\ Outcome(answer) = "ok" => answer = "ok"
          /\ Outcome(answer) = "unavailable" => answer \in {"down", "503", "403", "400"}
      BY DEF Outcome, Answers, Retryable
    <3> DEFINE new == Ended(Outcome(answer), answer)
    <3>3. new.pc = "done" /\ new.result = Outcome(answer) /\ new.heard = answer
      BY DEF Ended
    <3>4. call' = [call EXCEPT ![c] = new]
      BY <3>1
    <3> HIDE DEF new
    <3> QED
      BY <1>2, <3>1, <3>2, <3>3, <3>4
  <2> QED
    BY <1>5, <2>1, <2>2
<1>6. ASSUME call' = call
      PROVE  ResultsTell' /\ EndedCallsStay
  BY <1>6 DEF ResultsTell, EndedCallsStay
<1>7. CASE Leak \/ StopHttp \/ UNCHANGED httpVars
  BY <1>6, <1>7 DEF Leak, StopHttp, httpVars
<1> QED
  BY <1>3, <1>4, <1>5, <1>7 DEF HttpNext, HttpStep

-----------------------------------------------------------------------------
LEMMA ClientStepInv ==
    ASSUME AccessInv, [HttpNext]_httpVars, UNCHANGED <<source, access>>,
           \A c \in Calls : call[c].pc = "idle" => call'[c].pc = "idle"
    PROVE  AccessInv'
<1>1. HttpInv /\ AccessShape /\ ResultsTell /\ SolvingIsBlocked /\ GivenWhenAnswered /\ EmptyIsExcused
  BY DEF AccessInv
<1>2. ResultsTell' /\ EndedCallsStay
  BY <1>1, ClientStepTells
<1>3. HttpInv'
  BY <1>1, HttpInvNext
<1>4. AccessShape'
  BY <1>1, <1>2 DEF AccessShape, EndedCallsStay
<1>5. SolvingIsBlocked'
  BY <1>1, <1>2 DEF SolvingIsBlocked, Blocked, AccessShape, EndedCallsStay
<1>6. GivenWhenAnswered'
  BY <1>1 DEF GivenWhenAnswered
<1>7. EmptyIsExcused'
  BY <1>1, <1>2 DEF EmptyIsExcused, GivenWhenAnswered, AccessShape, EndedCallsStay
<1> QED
  BY <1>2, <1>3, <1>4, <1>5, <1>6, <1>7 DEF AccessInv

\* A call that has been made is never idle again, and those not made stay so under the
\* steps that go on with one.
LEMMA TransportInv == AccessInv /\ Transport => AccessInv'
<1> SUFFICES ASSUME AccessInv, Transport
             PROVE  AccessInv'
  OBVIOUS
<1>1. [HttpNext]_httpVars /\ UNCHANGED <<source, access>>
  BY DEF Transport, HttpNext
<1>2. call \in [Calls -> CallType]
  BY DEF AccessInv, HttpInv, HttpTypeOK
<1>3. ASSUME NEW c \in Calls, call[c].pc = "idle"
      PROVE  call'[c].pc = "idle"
  <2>1. ASSUME NEW d \in Calls, NEW new, d # c, call' = [call EXCEPT ![d] = new]
        PROVE  call'[c].pc = "idle"
    BY <1>2, <1>3, <2>1
  <2>2. ASSUME NEW d \in Calls, HttpStep(d) \/ Cancel(d)
        PROVE  call'[c].pc = "idle"
    <3>1. d # c
      BY <1>3, <2>2 DEF HttpStep, TakeToken, TakeSlot, ClientClosed, Retry, Final, Backoff, Cancel
    <3>2. \E new : call' = [call EXCEPT ![d] = new]
      BY <2>2 DEF HttpStep, TakeToken, TakeSlot, ClientClosed, Retry, Final, Backoff, Cancel
    <3> QED
      BY <2>1, <3>1, <3>2
  <2>3. CASE Leak \/ StopHttp
    BY <1>3, <2>3 DEF Leak, StopHttp
  <2> QED
    BY <2>2, <2>3 DEF Transport
<1> QED
  BY <1>1, <1>3, ClientStepInv

-----------------------------------------------------------------------------
(* Steps of the scrapers.                                                    *)

\* What a step of a method that leaves the client alone has to show.
LEMMA MethodStepInv ==
    ASSUME AccessInv, UNCHANGED <<httpVars, source>>,
           NEW c \in Calls, NEW new \in AccessType, access' = [access EXCEPT ![c] = new],
           new.pc \in {"solving", "answered"}, call[c].pc = "done",
           new.pc = "solving" => new.gave = "none" /\ Blocked(c),
           new.gave = "empty" =>
               \/ call[c].heard = "ok"
               \/ source = "mangaworld" /\ call[c].heard \in {"403", "503"}
               \/ source = "mangadex" /\ call[c].heard \in {"down", "503", "403", "400"}
    PROVE  AccessInv'
<1>1. HttpInv /\ AccessShape /\ ResultsTell /\ SolvingIsBlocked /\ GivenWhenAnswered /\ EmptyIsExcused
  BY DEF AccessInv
<1>2. call' = call /\ source' = source
  BY DEF httpVars
<1>3. \A d \in Calls : access'[d] = IF d = c THEN new ELSE access[d]
  BY <1>1 DEF AccessShape
<1>4. HttpInv'
  BY <1>1, HttpInvNext
<1>5. AccessShape'
  BY <1>1, <1>2, <1>3 DEF AccessShape
<1>6. ResultsTell'
  BY <1>1, <1>2 DEF ResultsTell
<1>7. SolvingIsBlocked'
  BY <1>1, <1>2, <1>3 DEF SolvingIsBlocked, Blocked
<1>8. GivenWhenAnswered'
  BY <1>1, <1>3 DEF GivenWhenAnswered
<1>9. EmptyIsExcused'
  BY <1>1, <1>2, <1>3 DEF EmptyIsExcused
<1> QED
  BY <1>4, <1>5, <1>6, <1>7, <1>8, <1>9 DEF AccessInv

\* A method gives something, and an empty list with an excuse.
LEMMA GiveInv ==
    ASSUME AccessInv, UNCHANGED <<httpVars, source>>, NEW c \in Calls, NEW what \in Given,
           Give(c, what), call[c].pc = "done",
           what = "empty" =>
               \/ call[c].heard = "ok"
               \/ source = "mangaworld" /\ call[c].heard \in {"403", "503"}
               \/ source = "mangadex" /\ call[c].heard \in {"down", "503", "403", "400"}
    PROVE  AccessInv'
<1> DEFINE new == [access[c] EXCEPT !.pc = "answered", !.gave = what]
<1>1. access[c] \in AccessType /\ access \in [Calls -> AccessType]
  BY DEF AccessInv, AccessShape
<1>2. access' = [access EXCEPT ![c] = new]
  BY <1>1 DEF Give
<1>3. new \in AccessType /\ new.pc = "answered" /\ new.gave = what
  BY <1>1 DEF AccessType
<1> HIDE DEF new
<1> QED
  BY <1>2, <1>3, MethodStepInv

LEMMA CallMethodInv ==
    ASSUME AccessInv, NEW c \in Calls, CallMethod(c)
    PROVE  AccessInv'
<1>1. HttpInv /\ AccessShape /\ ResultsTell /\ SolvingIsBlocked /\ GivenWhenAnswered /\ EmptyIsExcused
  BY DEF AccessInv
<1>2. PICK m \in Methods : access' = [access EXCEPT ![c] = [NoAccess EXCEPT !.method = m, !.pc = "http"]]
  BY DEF CallMethod
<1> DEFINE new == [NoAccess EXCEPT !.method = m, !.pc = "http"]
<1>3. new \in AccessType /\ new.pc = "http" /\ new.gave = "none"
  BY DEF NoAccess, AccessType, Given
<1>4. \A d \in Calls : access'[d] = IF d = c THEN new ELSE access[d]
  BY <1>1, <1>2 DEF AccessShape
<1>5. access' \in [Calls -> AccessType]
  BY <1>1, <1>2, <1>3 DEF AccessShape
<1>6. call' = [call EXCEPT ![c].pc = "token"] /\ call[c].pc = "idle" /\ source' = source
  BY DEF CallMethod, HttpRequest
<1>7. call \in [Calls -> CallType]
  BY <1>1 DEF HttpInv, HttpTypeOK
<1>8. call'[c].pc = "token" /\ \A d \in Calls \ {c} : call'[d] = call[d]
  BY <1>6, <1>7 DEF CallType
<1> HIDE DEF new
<1>9. HttpInv' /\ ResultsTell'
  <2>1. [HttpNext]_httpVars
    BY DEF CallMethod, HttpNext
  <2> QED
    BY <1>1, <2>1, HttpInvNext, ClientStepTells
<1>10. AccessShape'
  BY <1>1, <1>3, <1>4, <1>5, <1>6, <1>8 DEF AccessShape
<1>11. SolvingIsBlocked' /\ GivenWhenAnswered' /\ EmptyIsExcused'
  BY <1>1, <1>3, <1>4, <1>6, <1>8 DEF SolvingIsBlocked, Blocked, GivenWhenAnswered, EmptyIsExcused
<1> QED
  BY <1>9, <1>10, <1>11 DEF AccessInv

LEMMA AccessStepInv ==
    ASSUME AccessInv, NEW c \in Calls, AccessStep(c)
    PROVE  AccessInv'
<1>1. AccessShape /\ ResultsTell /\ SolvingIsBlocked /\ HttpTypeOK
  BY DEF AccessInv, HttpInv
<1>2. access[c] \in AccessType /\ call[c] \in CallType
  BY <1>1 DEF AccessShape, HttpTypeOK
<1>3. call[c].result # "none" => call[c].pc = "done"
  BY <1>1 DEF HttpTypeOK
<1>4. ASSUME Parse(c)
      PROVE  AccessInv'
  <2>1. PICK what \in {"data", "error", "empty", "notfound"} : Give(c, what)
    BY <1>4 DEF Parse, FromHtml, FromJson
  <2>2. call[c].pc = "done" /\ call[c].heard = "ok"
    BY <1>1, <1>3, <1>4 DEF Parse, ResultsTell
  <2>3. what \in Given /\ UNCHANGED <<httpVars, source>>
    BY <1>4 DEF Given, Parse
  <2> QED
    BY <2>1, <2>2, <2>3, GiveInv
<1>5. ASSUME Fail(c)
      PROVE  AccessInv'
  <2> DEFINE what == FromError(access[c].method, call[c].result)
  <2>1. call[c].pc = "done" /\ call[c].result \in Results \ {"none", "ok", "cancelled"}
    BY <1>2, <1>3, <1>5 DEF Fail, CallType
  <2>2. what \in Given
    BY <2>1 DEF FromError, Results, Given
  <2>3. what = "empty" => source = "mangadex" /\ call[c].result = "unavailable"
    BY <2>1 DEF FromError, Results
  <2>4. what = "empty" => source = "mangadex" /\ call[c].heard \in {"down", "503", "403", "400"}
    BY <1>1, <2>1, <2>3 DEF ResultsTell
  <2>5. Give(c, what) /\ UNCHANGED <<httpVars, source>>
    BY <1>5 DEF Fail
  <2> HIDE DEF what
  <2> QED
    BY <2>1, <2>2, <2>4, <2>5, GiveInv
<1>6. ASSUME Cancelled(c)
      PROVE  AccessInv'
  <2>1. call[c].pc = "done"
    BY <1>1, <1>3, <1>6 DEF Cancelled, AccessShape
  <2>2. Give(c, "cancelled") /\ UNCHANGED <<httpVars, source>> /\ "cancelled" \in Given
    BY <1>6 DEF Cancelled, Given
  <2> QED
    BY <2>1, <2>2, GiveInv
<1>7. ASSUME AskSolver(c)
      PROVE  AccessInv'
  <2> DEFINE new == [access[c] EXCEPT !.pc = "solving"]
  <2>1. access' = [access EXCEPT ![c] = new] /\ UNCHANGED <<httpVars, source>> /\ Blocked(c)
    BY <1>1, <1>7 DEF AskSolver, AccessShape
  <2>2. new \in AccessType /\ new.pc = "solving" /\ new.gave = access[c].gave
    BY <1>2 DEF AccessType
  <2>3. new.gave = "none"
    BY <1>7, <2>2 DEF AskSolver, AccessInv, GivenWhenAnswered
  <2>4. call[c].pc = "done"
    BY <1>3, <2>1 DEF Blocked
  <2> HIDE DEF new
  <2> QED
    BY <2>1, <2>2, <2>3, <2>4, MethodStepInv
<1>8. ASSUME access[c].pc = "solving"
      PROVE  call[c].pc = "done" /\ source = "mangaworld" /\ call[c].heard \in {"403", "503"}
  BY <1>1, <1>8 DEF AccessShape, SolvingIsBlocked, Blocked
<1>9. ASSUME Solved(c)
      PROVE  AccessInv'
  <2>1. PICK what \in {"data", "empty", "notfound"} : Give(c, what)
    BY <1>9 DEF Solved, FromHtml
  <2>2. access[c].pc = "solving" /\ what \in Given /\ UNCHANGED <<httpVars, source>>
    BY <1>9 DEF Given, Solved
  <2> QED
    BY <1>8, <2>1, <2>2, GiveInv
<1>10. ASSUME SolverFails(c)
       PROVE  AccessInv'
  <2>1. access[c].pc = "solving" /\ Give(c, FromBlock(access[c].method)) /\ UNCHANGED <<httpVars, source>>
    BY <1>10 DEF SolverFails
  <2>2. FromBlock(access[c].method) \in Given
    BY DEF FromBlock, Given
  <2> QED
    BY <1>8, <2>1, <2>2, GiveInv
<1> QED
  BY <1>4, <1>5, <1>6, <1>7, <1>9, <1>10 DEF AccessStep

-----------------------------------------------------------------------------
LEMMA AccessInvNext == AccessInv /\ [AccessNext]_accessVars => AccessInv'
<1> SUFFICES ASSUME AccessInv, [AccessNext]_accessVars
             PROVE  AccessInv'
  OBVIOUS
<1>1. CASE UNCHANGED accessVars
  <2>1. UNCHANGED httpVars /\ UNCHANGED <<source, access>>
    BY <1>1 DEF accessVars, httpVars
  <2>2. \A c \in Calls : call[c].pc = "idle" => call'[c].pc = "idle"
    BY <2>1 DEF httpVars
  <2> QED
    BY <2>1, <2>2, ClientStepInv
<1>2. CASE Transport
  BY <1>2, TransportInv
<1> QED
  BY <1>1, <1>2, CallMethodInv, AccessStepInv DEF AccessNext

LEMMA AccessInvariant == AccessSpec => []AccessInv
  BY AccessInvInit, AccessInvNext, PTL DEF AccessSpec

\* Every variable of the scrapers keeps its shape, and a method is under way as long as its
\* request of the client is.
THEOREM AccessTypeCorrect == AccessSpec => []AccessTypeOK
<1>1. AccessInv => AccessTypeOK
  BY DEF AccessInv, AccessShape, AccessTypeOK, HttpInv
<1> QED
  BY <1>1, AccessInvariant, PTL

\* The scrapers' methods return an empty list only for what the source said, or for the
\* failures each is written to hide.
THEOREM EmptyListsAreExcused == AccessSpec => []EmptyIsExcused
<1>1. AccessInv => EmptyIsExcused
  BY DEF AccessInv
<1> QED
  BY <1>1, AccessInvariant, PTL

\* The scrapers use the client as it is meant to be: what they do is a behaviour of
\* HttpClient, so that its theorems hold under them.
THEOREM ScrapersKeepTheClient == AccessSpec => HttpSpec
<1>1. AccessInit => HttpInit
  BY DEF AccessInit
<1> QED
  BY <1>1, AccessStepsAreHttpSteps, PTL DEF AccessSpec, HttpSpec
-----------------------------------------------------------------------------
(* The pages of a chapter.                                                 *)

ListingInv == images \in Seq([id : ImageIds \cup {Unnumbered}, src : BOOLEAN])

LEMMA PicturedFinite ==
    ASSUME ListingInv
    PROVE  /\ IsFiniteSet(Pictured) /\ Pictured \in SUBSET Nat
           /\ \A i \in Pictured : images[i].id \in ImageIds \cup {Unnumbered}
           /\ \A i \in Pictured : IndexOf(i) \in Nat
<1>1. Pictured \in SUBSET DOMAIN images /\ DOMAIN images = 1..Len(images) /\ Len(images) \in Nat
  BY DEF Pictured, ListingInv
<1>2. IsFiniteSet(Pictured)
  <2>1. IsFiniteSet(DOMAIN images)
    BY <1>1, FS_Interval
  <2> QED
    BY <1>1, <2>1, FS_Subset
<1>3. ASSUME NEW i \in Pictured
      PROVE  images[i].id \in ImageIds \cup {Unnumbered}
  <2>1. images[i] \in [id : ImageIds \cup {Unnumbered}, src : BOOLEAN]
    BY <1>1, ElementOfSeq DEF ListingInv
  <2> QED
    BY <2>1
<1>4. ASSUME NEW i \in Pictured
      PROVE  IndexOf(i) \in Nat
  <2> DEFINE earlier == {j \in Pictured : j < i}
  <2>1. earlier \in SUBSET Pictured
    OBVIOUS
  <2> HIDE DEF earlier
  <2>2. Cardinality(earlier) \in Nat
    BY <1>2, <2>1, FS_Subset, FS_CardinalityType
  <2>3. IndexOf(i) = IF images[i].id = Unnumbered THEN Cardinality(earlier) ELSE images[i].id
    BY DEF IndexOf, earlier
  <2> QED
    BY <1>3, <2>2, <2>3, ListingAssumption
<1> QED
  BY <1>1, <1>2, <1>3, <1>4

LEMMA ByIndexIsOrder ==
    ASSUME ListingInv
    PROVE  DOMAIN ByIndex = Pictured /\ IsOrder(ByIndex)
<1> DEFINE before == ByIndex
           precedes(j, i) == IndexOf(j) < IndexOf(i) \/ (IndexOf(j) = IndexOf(i) /\ j < i)
<1>1. \A i \in Pictured : i \in Nat /\ IndexOf(i) \in Nat
  BY PicturedFinite
<1>2. DOMAIN before = Pictured /\ \A i \in Pictured : before[i] = {j \in Pictured : precedes(j, i)}
  BY DEF ByIndex
<1> HIDE DEF before
<1>3. \A i \in Pictured : before[i] \subseteq Pictured \ {i}
  BY <1>1, <1>2
<1>4. \A i, j \in Pictured : i # j => i \in before[j] \/ j \in before[i]
  BY <1>1, <1>2
<1>5. ASSUME NEW i \in Pictured, NEW j \in Pictured, i \in before[j], NEW k \in before[i]
      PROVE  k \in before[j]
  <2>1. k \in Pictured /\ precedes(k, i) /\ precedes(i, j)
    BY <1>2, <1>5
  <2>2. precedes(k, j)
    BY <1>1, <2>1
  <2> QED
    BY <1>2, <2>1, <2>2
<1>6. IsOrder(before)
  BY <1>2, <1>3, <1>4, <1>5 DEF IsOrder
<1> QED
  BY <1>2, <1>6 DEF before

\* Numbered apart or not at all, no two images have an index in common.
LEMMA IndexesDiffer ==
    ASSUME ListingInv, SanelyNumbered, NEW i \in Pictured, NEW j \in Pictured, i # j
    PROVE  IndexOf(i) # IndexOf(j)
<1>1. CASE \A k \in Pictured : images[k].id = Unnumbered
  <2> DEFINE earlier(k) == {n \in Pictured : n < k}
  <2>1. ASSUME NEW a \in Pictured, NEW b \in Pictured, a < b
        PROVE  Cardinality(earlier(a)) # Cardinality(earlier(b))
    <3>1. a \in Nat /\ b \in Nat /\ \A n \in Pictured : n \in Nat
      BY PicturedFinite
    <3>2. earlier(a) \in SUBSET earlier(b)
      <4>1. \A n \in Pictured : n < a => n < b
        BY <2>1, <3>1
      <4> QED
        BY <4>1
    <3>4. a \in earlier(b) /\ a \notin earlier(a)
      BY <2>1, <3>1
    <3>3. IsFiniteSet(earlier(b))
      <4>1. earlier(b) \in SUBSET Pictured
        OBVIOUS
      <4> HIDE DEF earlier
      <4> QED
        BY <4>1, PicturedFinite, FS_Subset
    <3> HIDE DEF earlier
    <3> QED
      BY <3>2, <3>3, <3>4, FS_Subset
  <2>2. \A k \in Pictured : IndexOf(k) = Cardinality(earlier(k))
    BY <1>1 DEF IndexOf
  <2>3. i < j \/ j < i
    BY PicturedFinite
  <2> HIDE DEF earlier
  <2> QED
    BY <2>1, <2>2, <2>3
<1>2. CASE \A a, b \in Pictured : images[a].id # Unnumbered /\ (a # b => images[a].id # images[b].id)
  BY <1>2 DEF IndexOf
<1> QED
  BY <1>1, <1>2 DEF SanelyNumbered

LEMMA PagesAreApart == ListingInv => PagesKeepApart
<1> SUFFICES ASSUME ListingInv, SanelyNumbered
             PROVE  /\ \A n, m \in DOMAIN PageRows :
                          n < m => PageRows[n].index < PageRows[m].index
                    /\ {PageRows[n].image : n \in DOMAIN PageRows} = Pictured
  BY DEF PagesKeepApart
<1> DEFINE before == ByIndex
           at == InOrder(before)
           N == Cardinality(Pictured)
           repack == Pictured # {} /\ IndexOf(at[1]) # 0
           index(n) == IF repack THEN n - 1 ELSE IndexOf(at[n])
<1>1. /\ N \in Nat /\ DOMAIN at = 1..N /\ at \in [1..N -> Pictured]
      /\ \A x \in Pictured : \E i \in 1..N : at[i] = x
      /\ \A i, j \in 1..N : i < j => at[i] \in before[at[j]]
  <2>1. IsFiniteSet(Pictured) /\ DOMAIN before = Pictured /\ IsOrder(before)
    BY PicturedFinite, ByIndexIsOrder
  <2> HIDE DEF before
  <2> QED
    BY <2>1, SortedInOrder
<1>2. \A i \in Pictured : before[i] = {j \in Pictured : \/ IndexOf(j) < IndexOf(i)
                                                        \/ IndexOf(j) = IndexOf(i) /\ j < i}
  BY DEF ByIndex
<1>3. /\ DOMAIN PagesOf = 1..N
      /\ \A n \in 1..N : PagesOf[n] = [index |-> index(n), image |-> at[n]]
  BY <1>1 DEF PagesOf
<1> HIDE DEF at, before, N, repack
<1>4. ASSUME NEW n \in 1..N, NEW m \in 1..N, n < m
      PROVE  index(n) < index(m)
  <2>1. at[n] \in Pictured /\ at[m] \in Pictured /\ at[n] \in before[at[m]]
    BY <1>1, <1>4
  <2>2. IndexOf(at[n]) < IndexOf(at[m]) \/ (IndexOf(at[n]) = IndexOf(at[m]) /\ at[n] < at[m])
    BY <1>2, <2>1
  <2>3. at[n] \in Nat /\ at[m] \in Nat
    BY <2>1, PicturedFinite
  <2>4. at[n] # at[m] => IndexOf(at[n]) # IndexOf(at[m])
    BY <2>1, IndexesDiffer
  <2> QED
    BY <1>1, <1>4, <2>2, <2>3, <2>4
<1>5. \A n \in 1..N : index(n) \in Nat
  <2>1. \A n \in 1..N : at[n] \in Pictured
    BY <1>1
  <2> QED
    BY <1>1, <2>1, PicturedFinite
<1> HIDE DEF index
<1>6. \A n, m \in 1..N : index(n) = index(m) => n = m
  <2> SUFFICES ASSUME NEW n \in 1..N, NEW m \in 1..N, index(n) = index(m), n # m PROVE FALSE
    OBVIOUS
  <2>1. n < m \/ m < n
    BY <1>1
  <2> QED
    BY <1>4, <1>5, <2>1
<1>7. ASSUME NEW n \in 1..N
      PROVE  KeptAt(PagesOf[n].index) = at[n]
  <2> DEFINE same == {m \in DOMAIN PagesOf : PagesOf[m].index = PagesOf[n].index}
  <2>1. same = {n}
    BY <1>3, <1>6
  <2> DEFINE last == CHOOSE k \in same : \A m \in same : m <= k
  <2>2. KeptAt(PagesOf[n].index) = PagesOf[last].image
    BY DEF KeptAt
  <2> HIDE DEF same
  <2>3. n <= n
    BY <1>1
  <2>4. last \in same
    BY <2>1, <2>3
  <2> HIDE DEF last
  <2>5. last = n
    BY <2>1, <2>4
  <2> QED
    BY <1>3, <2>2, <2>5
<1>8. /\ DOMAIN PageRows = 1..N
      /\ \A n \in 1..N : PageRows[n].index = index(n) /\ PageRows[n].image = at[n]
  BY <1>3, <1>7 DEF PageRows
<1>9. {PageRows[n].image : n \in DOMAIN PageRows} = Pictured
  BY <1>1, <1>8
<1> QED
  BY <1>4, <1>8, <1>9

LEMMA ListingHolds == ListingSpec => []ListingInv
<1>1. ListingInit => ListingInv
  BY DEF ListingInit, ListingInv
<1>2. ListingInv /\ [ListingNext]_listingVars => ListingInv'
  <2> SUFFICES ASSUME ListingInv, [ListingNext]_listingVars PROVE ListingInv'
    OBVIOUS
  <2>1. CASE AddImage
    BY <2>1 DEF AddImage, ListingInv
  <2>2. CASE Upload \/ UNCHANGED listingVars
    BY <2>2 DEF Upload, listingVars, ListingInv
  <2> QED
    BY <2>1, <2>2 DEF ListingNext
<1> QED
  BY <1>1, <1>2, PTL DEF ListingSpec

\* Of a page whose images are numbered apart, or not at all, every image becomes a page
\* with an index and a row of its own, for pages of any length.
THEOREM EveryImageGetsItsPage == ListingSpec => []PagesKeepApart
BY ListingHolds, PagesAreApart, PTL

-----------------------------------------------------------------------------
(* The chapters of a series.                                               *)

Uploads == [chapter : Nat, linked : BOOLEAN]

\* The rows of a page are numbered from the last, which is the oldest.
Numbered(rows) ==
    /\ rows \in Seq(Uploads)
    /\ \A i \in DOMAIN rows : rows[i].chapter = Len(rows) - i + 1

\* What LinkedOldestFirst is of other rows.
OldestFirst(rows) == Reverse(Picked(rows, {i \in DOMAIN rows : rows[i].linked}))

Older == {pair \in Uploads \X Uploads : pair[1].chapter < pair[2].chapter}

\* The list has the rows with a link, the older ones first.
LEMMA OldestComeFirst ==
    ASSUME NEW rows, Numbered(rows)
    PROVE  LET list == OldestFirst(rows)
           IN  /\ list \in Seq(Uploads)
               /\ Follows(list, Older)
               /\ {list[i] : i \in DOMAIN list} = {rows[i] : i \in {n \in DOMAIN rows : rows[n].linked}}
<1> DEFINE P == {i \in DOMAIN rows : rows[i].linked}
           picked == Picked(rows, P)
           at == InOrder(Ascending(P))
           list == Reverse(picked)
           N == Len(picked)
<1>1. /\ picked \in Seq(Uploads) /\ DOMAIN picked = DOMAIN at
      /\ \A i \in DOMAIN picked : at[i] \in P /\ picked[i] = rows[at[i]]
      /\ \A i, j \in DOMAIN picked : i < j => at[i] < at[j]
      /\ \A p \in P : \E i \in DOMAIN picked : at[i] = p
  <2>1. P \in SUBSET DOMAIN rows /\ rows \in Seq(Uploads)
    BY DEF Numbered
  <2> HIDE DEF P
  <2> QED
    BY <2>1, PickedKeepsOrder
<1>2. P \in SUBSET DOMAIN rows /\ DOMAIN rows = 1..Len(rows) /\ Len(rows) \in Nat
  BY DEF Numbered
<1> HIDE DEF P, picked, at
<1>3. /\ N \in Nat /\ DOMAIN picked = 1..N /\ DOMAIN list = 1..N
      /\ \A i \in 1..N : picked[i] \in Uploads
      /\ \A i \in 1..N : N - i + 1 \in 1..N /\ list[i] = picked[N - i + 1]
  BY <1>1, ElementOfSeq DEF Reverse
<1> HIDE DEF N, list
<1>4. list \in Seq(Uploads)
  <2>1. list = [i \in 1..N |-> picked[N - i + 1]]
    BY DEF list, N, Reverse
  <2>2. list \in [1..N -> Uploads]
    BY <1>3, <2>1
  <2> QED
    BY <1>3, <2>2
<1>5. ASSUME NEW i \in 1..N, NEW j \in 1..N, i < j
      PROVE  <<list[i], list[j]>> \in Older
  <2> DEFINE k == N - i + 1
             l == N - j + 1
  <2>1. k \in 1..N /\ l \in 1..N /\ l < k /\ list[i] = picked[k] /\ list[j] = picked[l]
    BY <1>3, <1>5
  <2> HIDE DEF k, l
  <2>2. at[l] \in DOMAIN rows /\ at[k] \in DOMAIN rows /\ at[l] < at[k]
    BY <1>1, <1>2, <1>3, <2>1
  <2>3. rows[at[k]].chapter < rows[at[l]].chapter
    BY <1>2, <2>2 DEF Numbered
  <2>4. picked[k] = rows[at[k]] /\ picked[l] = rows[at[l]]
    BY <1>1, <1>3, <2>1
  <2> QED
    BY <1>3, <2>1, <2>3, <2>4 DEF Older
<1>6. {list[i] : i \in 1..N} = {rows[i] : i \in P}
  <2>1. ASSUME NEW i \in 1..N PROVE \E p \in P : list[i] = rows[p]
    BY <1>1, <1>3
  <2>2. ASSUME NEW p \in P PROVE \E i \in 1..N : list[i] = rows[p]
    <3>1. PICK k \in 1..N : at[k] = p
      BY <1>1, <1>3
    <3>2. N - k + 1 \in 1..N /\ N - (N - k + 1) + 1 = k
      BY <1>3
    <3>3. list[N - k + 1] = picked[k]
      BY <1>3, <3>2
    <3> QED
      BY <1>1, <1>3, <3>1, <3>2, <3>3
  <2> QED
    BY <2>1, <2>2
<1> QED
  BY <1>3, <1>4, <1>5, <1>6 DEF Follows, OldestFirst, list, picked, P

\* A chapter more at the top of the page is one more at the end of the list, or none.
LEMMA UploadComesLast ==
    ASSUME NEW rows, Numbered(rows), NEW linked \in BOOLEAN
    PROVE  LET row == [chapter |-> Len(rows) + 1, linked |-> linked]
               next == <<row>> \o rows
           IN  /\ Numbered(next)
               /\ OldestFirst(next) = IF linked THEN Append(OldestFirst(rows), row)
                                                ELSE OldestFirst(rows)
<1> DEFINE row == [chapter |-> Len(rows) + 1, linked |-> linked]
           next == <<row>> \o rows
           of(rs) == {rs[i] : i \in {n \in DOMAIN rs : rs[n].linked}}
           now == OldestFirst(rows)
           then == OldestFirst(next)
<1>1. rows \in Seq(Uploads) /\ Len(rows) \in Nat /\ DOMAIN rows = 1..Len(rows)
  BY DEF Numbered
<1>2. row \in Uploads /\ row.chapter = Len(rows) + 1 /\ row.linked = linked
  BY <1>1 DEF Uploads
<1> HIDE DEF row
<1>3. /\ next \in Seq(Uploads) /\ Len(next) = Len(rows) + 1
      /\ DOMAIN next = 1..(Len(rows) + 1) /\ next[1] = row
      /\ \A i \in 1..Len(rows) : next[i + 1] = rows[i]
  BY <1>1, <1>2
<1> HIDE DEF next
<1>4. Numbered(next)
  <2>1. ASSUME NEW i \in DOMAIN next PROVE next[i].chapter = Len(next) - i + 1
    <3>1. CASE i = 1
      BY <1>1, <1>2, <1>3, <3>1
    <3>2. CASE i # 1
      <4>1. i - 1 \in 1..Len(rows) /\ next[i] = rows[i - 1]
        BY <1>1, <1>3, <3>2
      <4>2. rows[i - 1].chapter = Len(rows) - (i - 1) + 1
        BY <1>1, <4>1 DEF Numbered
      <4> QED
        BY <1>1, <1>3, <4>1, <4>2
    <3> QED
      BY <3>1, <3>2
  <2> QED
    BY <1>3, <2>1 DEF Numbered
<1>5. of(next) = IF linked THEN of(rows) \cup {row} ELSE of(rows)
  <2>1. ASSUME NEW x \in of(next) PROVE x \in of(rows) \/ (linked /\ x = row)
    <3>1. PICK i \in DOMAIN next : next[i].linked /\ x = next[i]
      OBVIOUS
    <3>2. CASE i # 1
      <4>1. i - 1 \in DOMAIN rows /\ next[i] = rows[i - 1]
        BY <1>1, <1>3, <3>2
      <4> QED
        BY <3>1, <4>1
    <3> QED
      BY <1>2, <1>3, <3>1, <3>2
  <2>2. ASSUME NEW x \in of(rows) PROVE x \in of(next)
    <3>1. PICK i \in DOMAIN rows : rows[i].linked /\ x = rows[i]
      OBVIOUS
    <3>2. i + 1 \in DOMAIN next /\ next[i + 1] = rows[i]
      BY <1>1, <1>3
    <3> QED
      BY <3>1, <3>2
  <2>3. linked => row \in of(next)
    <3>1. 1 \in DOMAIN next
      BY <1>1, <1>3
    <3> QED
      BY <1>2, <1>3, <3>1
  <2> HIDE DEF of
  <2> QED
    BY <2>1, <2>2, <2>3
<1>6. /\ now \in Seq(Uploads) /\ Follows(now, Older)
      /\ {now[i] : i \in DOMAIN now} = of(rows)
      /\ then \in Seq(Uploads) /\ Follows(then, Older)
      /\ {then[i] : i \in DOMAIN then} = of(next)
  BY <1>4, OldestComeFirst
<1>7. \A u \in of(rows) : u \in Uploads /\ u.chapter < row.chapter
  <2> SUFFICES ASSUME NEW i \in DOMAIN rows
               PROVE  rows[i] \in Uploads /\ rows[i].chapter < row.chapter
    OBVIOUS
  <2> QED
    BY <1>1, <1>2, ElementOfSeq DEF Numbered
<1> HIDE DEF now, then, of
<1>8. \A x, y \in Uploads : <<x, y>> \in Older => <<y, x>> \notin Older
  BY DEF Older, Uploads
<1>9. CASE ~linked
  <2>1. then = now
    BY <1>5, <1>6, <1>8, <1>9, StrictListsAgree
  <2> QED
    BY <1>4, <1>9, <2>1 DEF row, next, now, then
<1>10. CASE linked
  <2> DEFINE longer == Append(now, row)
  <2>1. /\ longer \in Seq(Uploads) /\ DOMAIN longer = 1..(Len(now) + 1)
        /\ DOMAIN now = 1..Len(now) /\ Len(now) \in Nat
        /\ longer[Len(now) + 1] = row
        /\ \A i \in DOMAIN now : longer[i] = now[i]
    BY <1>2, <1>6
  <2> HIDE DEF longer
  <2>2. \A i \in DOMAIN now : now[i] \in of(rows)
    BY <1>6
  <2>3. \A i \in DOMAIN now : <<now[i], row>> \in Older
    BY <1>2, <1>7, <2>2 DEF Older
  <2>4. Follows(longer, Older)
    <3>1. ASSUME NEW i \in DOMAIN longer, NEW j \in DOMAIN longer, i < j
          PROVE  <<longer[i], longer[j]>> \in Older
      <4>1. i \in DOMAIN now
        BY <2>1, <3>1
      <4>2. CASE j \in DOMAIN now
        BY <1>6, <2>1, <3>1, <4>1, <4>2 DEF Follows
      <4>3. CASE j \notin DOMAIN now
        <5>1. j = Len(now) + 1
          BY <2>1, <4>3
        <5> QED
          BY <2>1, <2>3, <4>1, <5>1
      <4> QED
        BY <4>2, <4>3
    <3> QED
      BY <3>1 DEF Follows
  <2>5. {longer[i] : i \in DOMAIN longer} = of(rows) \cup {row}
    <3>1. DOMAIN longer = DOMAIN now \cup {Len(now) + 1}
      BY <2>1
    <3> QED
      BY <1>6, <2>1, <3>1
  <2>6. then = longer
    BY <1>5, <1>6, <1>8, <1>10, <2>1, <2>4, <2>5, StrictListsAgree
  <2> QED
    BY <1>4, <1>10, <2>6 DEF row, next, now, then, longer
<1> QED
  BY <1>9, <1>10

\* The page of a list has its elements up to the limit.
LEMMA PageFromStart ==
    ASSUME NEW S, NEW seq \in Seq(S),
           NEW k, k = IF Len(seq) < ChapterLimit THEN Len(seq) ELSE ChapterLimit
    PROVE  /\ k \in Nat /\ k <= Len(seq)
           /\ Page(seq, 0) \in Seq(S) /\ Len(Page(seq, 0)) = k
           /\ \A i \in 1..k : Page(seq, 0)[i] = seq[i]
<1>1. k \in Nat /\ k <= Len(seq) /\ 0 + ChapterLimit = ChapterLimit
  BY ListingAssumption
<1>2. Upto(seq, 0 + ChapterLimit) = SubSeq(seq, 1, k)
  BY <1>1 DEF Upto
<1>3. /\ SubSeq(seq, 1, k) \in Seq(S) /\ Len(SubSeq(seq, 1, k)) = k
      /\ \A i \in 1..k : SubSeq(seq, 1, k)[i] = seq[i]
  BY <1>1, ElementOfSeq, SubSeqProperties
<1>4. Page(seq, 0) = SubSeq(seq, 1, k)
  BY <1>2, <1>3 DEF Page
<1> QED
  BY <1>1, <1>3, <1>4

\* Cut at the same length, a list is a prefix of what it grows to.
LEMMA PagePrefix ==
    ASSUME NEW S, NEW a \in Seq(S), NEW b \in Seq(S), Len(a) <= Len(b),
           \A i \in 1..Len(a) : a[i] = b[i]
    PROVE  IsPrefix(Page(a, 0), Page(b, 0))
<1> DEFINE p == Page(a, 0)
           q == Page(b, 0)
           k == IF Len(a) < ChapterLimit THEN Len(a) ELSE ChapterLimit
           l == IF Len(b) < ChapterLimit THEN Len(b) ELSE ChapterLimit
<1>1. k <= l
  BY ListingAssumption
<1> HIDE DEF p, q
<1>2. /\ k \in Nat /\ k <= Len(a)
      /\ p \in Seq(S) /\ Len(p) = k /\ \A i \in 1..k : p[i] = a[i]
  BY PageFromStart DEF p
<1>3. /\ l \in Nat /\ l <= Len(b)
      /\ q \in Seq(S) /\ Len(q) = l /\ \A i \in 1..l : q[i] = b[i]
  BY PageFromStart DEF q
<1> HIDE DEF k, l
<1>4. \A i \in 1..k : p[i] = q[i]
  BY <1>1, <1>2, <1>3, SMTT(40)
<1>5. /\ SubSeq(p, 1, k) \in Seq(S) /\ Len(SubSeq(p, 1, k)) = k
      /\ \A i \in 1..k : SubSeq(p, 1, k)[i] = p[i]
  BY <1>2, ElementOfSeq, SubSeqProperties
<1>6. /\ SubSeq(q, 1, k) \in Seq(S) /\ Len(SubSeq(q, 1, k)) = k
      /\ \A i \in 1..k : SubSeq(q, 1, k)[i] = q[i]
  BY <1>1, <1>2, <1>3, ElementOfSeq, SubSeqProperties
<1>7. SubSeq(p, 1, k) = SubSeq(q, 1, k)
  BY <1>2, <1>4, <1>5, <1>6
<1>8. IsPrefix(p, q)
  BY <1>1, <1>2, <1>3, <1>7 DEF IsPrefix
<1> QED
  BY <1>8 DEF p, q

LEMMA UploadsNumbered == ListingSpec => []Numbered(uploads)
<1>1. ListingInit => Numbered(uploads)
  BY DEF ListingInit, Numbered
<1>2. Numbered(uploads) /\ [ListingNext]_listingVars => Numbered(uploads')
  <2> SUFFICES ASSUME Numbered(uploads), [ListingNext]_listingVars PROVE Numbered(uploads')
    OBVIOUS
  <2>1. CASE Upload
    BY <2>1, UploadComesLast DEF Upload
  <2>2. CASE AddImage \/ UNCHANGED listingVars
    BY <2>2 DEF AddImage, listingVars, Numbered
  <2> QED
    BY <2>1, <2>2 DEF ListingNext
<1>3. Numbered(uploads') <=> Numbered(uploads)'
  BY DEF Numbered
<1> QED
  BY <1>1, <1>2, <1>3, PTL DEF ListingSpec

\* A chapter once listed stays at its place in the list, whatever the source adds and
\* wherever the list is cut, for series of any length and any limit.
THEOREM ListedChaptersStay == ListingSpec => ListingIsStable
<1>1. Numbered(uploads) /\ [ListingNext]_listingVars => IsPrefix(ChaptersOf(0), ChaptersOf(0)')
  <2> SUFFICES ASSUME Numbered(uploads), [ListingNext]_listingVars
               PROVE  IsPrefix(Page(OldestFirst(uploads), 0), Page(OldestFirst(uploads'), 0))
    BY DEF ChaptersOf, LinkedOldestFirst, Linked, OldestFirst, Page, Upto, Reverse
  <2> DEFINE a == OldestFirst(uploads)
             b == OldestFirst(uploads')
  <2>1. a \in Seq(Uploads)
    BY OldestComeFirst
  <2>2. b = a \/ \E row \in Uploads : b = Append(a, row)
    <3>1. ASSUME NEW linked \in BOOLEAN,
                 uploads' = <<[chapter |-> Len(uploads) + 1, linked |-> linked]>> \o uploads
          PROVE  b = a \/ \E row \in Uploads : b = Append(a, row)
      <4>1. [chapter |-> Len(uploads) + 1, linked |-> linked] \in Uploads
        BY DEF Numbered, Uploads
      <4> QED
        BY <3>1, <4>1, UploadComesLast
    <3>2. CASE uploads' = uploads
      BY <3>2
    <3> QED
      BY <3>1, <3>2 DEF ListingNext, AddImage, Upload, listingVars
  <2> HIDE DEF a, b
  <2>3. b \in Seq(Uploads) /\ Len(a) <= Len(b) /\ \A i \in 1..Len(a) : a[i] = b[i]
    BY <2>1, <2>2
  <2>4. IsPrefix(Page(a, 0), Page(b, 0))
    BY <2>1, <2>3, PagePrefix
  <2> QED
    BY <2>4 DEF a, b
<1> QED
  BY <1>1, UploadsNumbered, PTL DEF ListingIsStable, ListingSpec
=============================================================================
