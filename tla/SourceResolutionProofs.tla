------------------------- MODULE SourceResolutionProofs -------------------------
(***************************************************************************)
(* What a source search reports, and how often it asks, for any number of   *)
(* attempts the retry policy allows.                                        *)
(*                                                                          *)
(* Two things carry the proof.  Every query and every pause takes one       *)
(* attempt from one of the client's two budgets (Budget).  And a client's   *)
(* end is for good while the search goes from one stage to the next, so     *)
(* what was known of the earlier clients still holds (Order, Ends).  The    *)
(* budgets also say how far a search is from its end (Distance).            *)
(***************************************************************************)
EXTENDS SourceResolution, TLAPS

\* A query under way has been counted, and what is left is left of both budgets.
Budget ==
  \A c \in Clients :
    /\ client[c] = "unasked" => queries[c] = 0 /\ rateLeft[c] = RateAttempts
                                /\ parseLeft[c] = ParseAttempts
    /\ InFlight(c) => rateLeft[c] >= 1 /\ parseLeft[c] >= 1
    /\ client[c] = "querying" => queries[c] + rateLeft[c] + parseLeft[c] = QueryBound + 1
    /\ client[c] = "backoff" => queries[c] + rateLeft[c] + parseLeft[c] = QueryBound
    /\ queries[c] < QueryBound

\* Which clients have been asked at each stage.
Order ==
  /\ \A c \in CoPrimary : client[c] # "unasked"
  /\ stage = "co_primary" => client["openalex"] = "unasked"
  /\ stage \in {"co_primary", "openalex"} => client["crossref"] = "unasked"
  /\ stage \in {"openalex", "crossref"} => client["openalex"] # "unasked"
  /\ stage = "crossref" => client["crossref"] # "unasked"
  /\ client["crossref"] # "unasked" => client["openalex"] # "unasked"

\* What the end of a client says about the search.
Ends ==
  \A c \in Clients :
    /\ client[c] = "failed" => subReason # "none"
    /\ client[c] = "raised" => stage = "raised"
    /\ client[c] = "cancelled" => stage = "cancelled"
    /\ stage \in {"returned", "cancelled"} => ~ InFlight(c)

IInv ==
  /\ TypeOK
  /\ Budget
  /\ Order
  /\ Ends
  /\ FallbackMeansMiss
  /\ NotFoundIsUnanimous
  /\ BestHitWins

USE RetryAssumption DEF Clients, CoPrimary, Hits, Searching, InFlight, QueryBound, Places, AtOnce, SubReasons

LEMMA IInvInit == Init => IInv
<1> SUFFICES ASSUME Init PROVE IInv
  OBVIOUS
<1>1. TypeOK
  BY DEF Init, TypeOK
<1>2. Budget
  BY DEF Init, Budget
<1>3. Order /\ Ends
  BY DEF Init, Order, Ends
<1>4. FallbackMeansMiss /\ NotFoundIsUnanimous /\ BestHitWins
  BY DEF Init, FallbackMeansMiss, NotFoundIsUnanimous, BestHitWins, Asked
<1> QED
  BY <1>1, <1>2, <1>3, <1>4 DEF IInv

\* A step of one client that is being asked, which leaves the others alone and
\* does not end the search unless the client raises.
LEMMA ClientStep ==
  ASSUME IInv, NEW c \in Clients, InFlight(c), TypeOK', Budget',
         NEW there \in Places \ {"unasked", "cancelled"},
         client' = [client EXCEPT ![c] = there],
         UNCHANGED <<hasDoi, candidate>>,
         subReason # "none" => subReason' # "none",
         there = "failed" => subReason' # "none",
         stage' = IF there = "raised" /\ stage \in Searching THEN "raised" ELSE stage
  PROVE  IInv'
<1> USE DEF IInv, TypeOK
<1>1. stage \in Searching \cup {"raised"}
  BY DEF Ends
<1>2. stage' \in Searching \cup {"raised"}
  BY <1>1
<1>3. \A d \in Clients \ {c} : client'[d] = client[d]
  OBVIOUS
<1>4. client'[c] = there
  OBVIOUS
<1>5. Order'
  BY <1>1, <1>3, <1>4 DEF Order
<1>6. Ends'
  BY <1>1, <1>2, <1>3, <1>4 DEF Ends
<1>7. FallbackMeansMiss'
  BY <1>3, <1>4 DEF FallbackMeansMiss, Asked
<1>8. NotFoundIsUnanimous' /\ BestHitWins'
  BY <1>2 DEF NotFoundIsUnanimous, BestHitWins
<1> QED
  BY <1>5, <1>6, <1>7, <1>8

\* Giving up: the failure is reported, and it is the blamed client's.
LEMMA GiveUpStep ==
  ASSUME IInv, NEW c \in Clients, client[c] = "querying", NEW reason \in SubReasons,
         GiveUp(c, reason),
         rateLeft' \in [Clients -> 0 .. RateAttempts],
         parseLeft' \in [Clients -> 0 .. ParseAttempts],
         \A d \in Clients \ {c} : rateLeft'[d] = rateLeft[d] /\ parseLeft'[d] = parseLeft[d],
         UNCHANGED <<hasDoi, stage, candidate>>
  PROVE  IInv'
<1>1. /\ client' = [client EXCEPT ![c] = "failed"]
      /\ subReason' = reason /\ blamed' = c
      /\ failure' = [failure EXCEPT ![c] = reason]
      /\ queries' = queries
  BY DEF GiveUp, Goto
<1>2. TypeOK'
  BY <1>1 DEF IInv, TypeOK
<1>3. Budget'
  BY <1>1 DEF IInv, TypeOK, Budget
<1> QED
  BY <1>1, <1>2, <1>3, ClientStep

\* A step that sends a client's next query, and takes it from a budget.
LEMMA QueryStep ==
  ASSUME IInv, NEW c \in Clients, InFlight(c), Query(c),
         rateLeft' = rateLeft,
         \/ client[c] = "querying" /\ parseLeft[c] > 1
              /\ parseLeft' = [parseLeft EXCEPT ![c] = @ - 1]
         \/ client[c] = "backoff" /\ parseLeft' = parseLeft,
         UNCHANGED <<hasDoi, stage, reported, candidate, failure>>
  PROVE  IInv'
<1>1. /\ client' = [client EXCEPT ![c] = "querying"]
      /\ queries' = [queries EXCEPT ![c] = queries[c] + 1]
  BY DEF Query, Goto, IInv, TypeOK, Budget
<1>2. queries[c] + 1 < QueryBound
  BY DEF IInv, TypeOK, Budget
<1>3. TypeOK'
  BY <1>1, <1>2 DEF IInv, TypeOK, reported
<1>4. Budget'
  BY <1>1, <1>2 DEF IInv, TypeOK, Budget
<1> QED
  BY <1>1, <1>3, <1>4, ClientStep DEF reported

LEMMA RespondsStep ==
  ASSUME IInv, NEW c \in Clients, Responds(c)
  PROVE  IInv'
<1>1. CASE Answers(c)
  <2>1. PICK answer \in Hits \cup {"missed"} :
          /\ client' = [client EXCEPT ![c] = answer] /\ client[c] = "querying"
          /\ UNCHANGED <<hasDoi, stage, rateLeft, parseLeft, reported, candidate, failure, queries>>
    BY <1>1 DEF Answers, Goto
  <2>2. TypeOK'
    BY <2>1 DEF IInv, TypeOK, reported
  <2>3. Budget'
    BY <2>1 DEF IInv, TypeOK, Budget
  <2> QED
    BY <2>1, <2>2, <2>3, ClientStep DEF reported
<1>2. CASE IsRateLimited(c)
  <2>1. /\ client[c] = "querying" /\ rateLeft' = [rateLeft EXCEPT ![c] = rateLeft[c] - 1]
        /\ rateLeft[c] >= 1
        /\ UNCHANGED <<hasDoi, stage, parseLeft, candidate>>
    BY <1>2 DEF IsRateLimited, IInv, Budget
  <2>2. CASE rateLeft[c] > 1
    <3>1. /\ client' = [client EXCEPT ![c] = "backoff"]
          /\ UNCHANGED <<reported, failure, queries>>
      BY <1>2, <2>2 DEF IsRateLimited, Goto
    <3>2. TypeOK'
      BY <2>1, <3>1 DEF IInv, TypeOK, reported
    <3>3. Budget'
      BY <2>1, <2>2, <3>1 DEF IInv, TypeOK, Budget
    <3> QED
      BY <2>1, <3>1, <3>2, <3>3, ClientStep DEF reported
  <2>3. CASE ~ rateLeft[c] > 1
    <3>1. GiveUp(c, "rate_limited")
      BY <1>2, <2>3 DEF IsRateLimited
    <3>2. /\ rateLeft' \in [Clients -> 0 .. RateAttempts]
          /\ parseLeft' \in [Clients -> 0 .. ParseAttempts]
          /\ \A d \in Clients \ {c} : rateLeft'[d] = rateLeft[d] /\ parseLeft'[d] = parseLeft[d]
      BY <2>1 DEF IInv, TypeOK
    <3> QED
      BY <2>1, <3>1, <3>2, GiveUpStep
  <2> QED
    BY <2>2, <2>3
<1>3. CASE FailsToParse(c)
  <2>1. /\ client[c] = "querying" /\ parseLeft' = [parseLeft EXCEPT ![c] = parseLeft[c] - 1]
        /\ parseLeft[c] >= 1
        /\ UNCHANGED <<hasDoi, stage, rateLeft, candidate>>
    BY <1>3 DEF FailsToParse, IInv, Budget
  <2>2. CASE parseLeft[c] > 1
    <3>1. Query(c) /\ UNCHANGED <<reported, failure>>
      BY <1>3, <2>2 DEF FailsToParse
    <3> QED
      BY <2>1, <2>2, <3>1, QueryStep
  <2>3. CASE ~ parseLeft[c] > 1
    <3>1. GiveUp(c, "parse_error")
      BY <1>3, <2>3 DEF FailsToParse
    <3>2. /\ rateLeft' \in [Clients -> 0 .. RateAttempts]
          /\ parseLeft' \in [Clients -> 0 .. ParseAttempts]
          /\ \A d \in Clients \ {c} : rateLeft'[d] = rateLeft[d] /\ parseLeft'[d] = parseLeft[d]
      BY <2>1 DEF IInv, TypeOK
    <3> QED
      BY <2>1, <3>1, <3>2, GiveUpStep
  <2> QED
    BY <2>2, <2>3
<1>4. CASE Fails(c)
  <2>1. PICK reason \in AtOnce : GiveUp(c, reason)
    BY <1>4 DEF Fails
  <2> QED
    BY <1>4, <2>1, GiveUpStep DEF Fails, IInv, TypeOK
<1>5. CASE Raises(c)
  <2>1. /\ client' = [client EXCEPT ![c] = "raised"] /\ client[c] = "querying"
        /\ stage' = IF stage \in Searching THEN "raised" ELSE stage
        /\ UNCHANGED <<hasDoi, rateLeft, parseLeft, reported, candidate, failure, queries>>
    BY <1>5 DEF Raises, Goto
  <2>2. TypeOK'
    BY <2>1 DEF IInv, TypeOK, reported
  <2>3. Budget'
    BY <2>1 DEF IInv, TypeOK, Budget
  <2> QED
    BY <2>1, <2>2, <2>3, ClientStep DEF reported
<1> QED
  BY <1>1, <1>2, <1>3, <1>4, <1>5 DEF Responds

LEMMA BackoffEndsStep ==
  ASSUME IInv, NEW c \in Clients, BackoffEnds(c)
  PROVE  IInv'
BY QueryStep DEF BackoffEnds, reported

\* The next client is asked for the first time.
LEMMA FallBackStep ==
  ASSUME IInv, NEW next \in {"openalex", "crossref"}, subReason = "none",
         client[next] = "unasked", stage' = next, Query(next),
         UNCHANGED <<hasDoi, rateLeft, parseLeft, reported, candidate, failure>>,
         next = "openalex" => stage = "co_primary" /\ \A c \in CoPrimary : client[c] = "missed",
         next = "crossref" => stage = "openalex" /\ hasDoi
                              /\ \A c \in Clients \ {"crossref"} : client[c] = "missed"
  PROVE  IInv'
<1> USE DEF IInv
<1>1. /\ client' = [client EXCEPT ![next] = "querying"]
      /\ queries[next] = 0
      /\ queries' = [queries EXCEPT ![next] = 1]
  <2>1. queries[next] = 0 /\ 0 < QueryBound
    BY DEF Budget
  <2> QED
    BY <2>1 DEF Query, Goto
<1>2. TypeOK'
  BY <1>1 DEF TypeOK, reported
<1>3. Budget'
  <2>1. /\ client'[next] = "querying" /\ queries'[next] = 1
        /\ rateLeft'[next] = RateAttempts /\ parseLeft'[next] = ParseAttempts
    BY <1>1 DEF TypeOK, Budget
  <2>2. 1 < QueryBound /\ 1 + RateAttempts + ParseAttempts = QueryBound + 1
    OBVIOUS
  <2>3. \A c \in Clients \ {next} : client'[c] = client[c] /\ queries'[c] = queries[c]
    BY <1>1 DEF TypeOK
  <2> SUFFICES ASSUME NEW c \in Clients
               PROVE  /\ client'[c] = "unasked" => queries'[c] = 0 /\ rateLeft'[c] = RateAttempts
                                                    /\ parseLeft'[c] = ParseAttempts
                      /\ InFlight(c)' => rateLeft'[c] >= 1 /\ parseLeft'[c] >= 1
                      /\ client'[c] = "querying" =>
                           queries'[c] + rateLeft'[c] + parseLeft'[c] = QueryBound + 1
                      /\ client'[c] = "backoff" =>
                           queries'[c] + rateLeft'[c] + parseLeft'[c] = QueryBound
                      /\ queries'[c] < QueryBound
    BY DEF Budget
  <2>4. CASE c = next
    BY <2>1, <2>2, <2>4
  <2>5. CASE c # next
    BY <2>3, <2>5 DEF Budget
  <2> QED
    BY <2>4, <2>5
<1>4. Order'
  BY <1>1 DEF TypeOK, Order
<1>5. Ends'
  BY <1>1 DEF TypeOK, Ends, reported
<1>6. FallbackMeansMiss'
  BY <1>1 DEF TypeOK, FallbackMeansMiss, Asked, Order
<1>7. NotFoundIsUnanimous' /\ BestHitWins'
  BY DEF NotFoundIsUnanimous, BestHitWins
<1> QED
  BY <1>2, <1>3, <1>4, <1>5, <1>6, <1>7

\* The search returns.
LEMMA ReturnStep ==
  ASSUME IInv, NEW winner \in Clients \cup {"none"}, Return(winner),
         UNCHANGED <<hasDoi, rateLeft, parseLeft, reported, failure>>,
         \A c \in Clients : ~ InFlight(c), stage \in Searching,
         \A c \in Clients : client[c] \in Hits =>
           /\ winner # "none" /\ client[winner] \in Hits
           /\ client[c] = "full_text" => client[winner] = "full_text",
         winner = "none" /\ subReason = "none" =>
           Asked = IF hasDoi THEN Clients ELSE Clients \ {"crossref"}
  PROVE  IInv'
<1> USE DEF IInv
<1>1. stage' = "returned" /\ candidate' = winner /\ UNCHANGED <<client, queries>>
  BY DEF Return
<1>2. TypeOK'
  BY <1>1 DEF TypeOK, reported
<1>3. Budget' /\ Order' /\ FallbackMeansMiss'
  BY <1>1 DEF Budget, Order, FallbackMeansMiss, Asked
<1>4. Ends'
  BY <1>1 DEF Ends, reported
<1>5. BestHitWins'
  BY <1>1 DEF BestHitWins
<1>6. NotFoundIsUnanimous'
  <2> SUFFICES ASSUME winner = "none", subReason = "none" PROVE NotFoundIsUnanimous'
    BY <1>1 DEF NotFoundIsUnanimous, reported
  <2>1. \A c \in Asked : client[c] = "missed"
    BY DEF Asked, TypeOK, Ends
  <2> QED
    BY <1>1, <2>1 DEF NotFoundIsUnanimous, Asked
<1> QED
  BY <1>2, <1>3, <1>4, <1>5, <1>6

LEMMA CoPrimariesAnsweredStep ==
  ASSUME IInv, CoPrimariesAnswered
  PROVE  IInv'
<1> USE DEF IInv
<1>1. /\ stage = "co_primary" /\ ~ InFlight("s2") /\ ~ InFlight("arxiv")
      /\ client["openalex"] = "unasked" /\ client["crossref"] = "unasked"
      /\ UNCHANGED <<hasDoi, rateLeft, parseLeft, reported, failure>>
  BY DEF CoPrimariesAnswered, Order
<1>2. \A c \in Clients : ~ InFlight(c)
  BY <1>1
<1>3. CASE \E c \in CoPrimary : client[c] \in Hits
  <2>1. Return(Tiebreak)
    BY <1>3 DEF CoPrimariesAnswered
  <2>2. Tiebreak \in CoPrimary /\ client[Tiebreak] \in Hits
    BY <1>3 DEF Tiebreak
  <2>3. \A c \in Clients : client[c] = "full_text" => client[Tiebreak] = "full_text"
    BY <1>1, <1>3 DEF Tiebreak
  <2> QED
    BY <1>1, <1>2, <2>1, <2>2, <2>3, ReturnStep
<1>4. CASE ~ \E c \in CoPrimary : client[c] \in Hits
  <2>1. FallBack("openalex")
    BY <1>4 DEF CoPrimariesAnswered
  <2>2. CASE subReason # "none"
    <3>1. Return("none")
      BY <2>1, <2>2 DEF FallBack
    <3> QED
      BY <1>1, <1>2, <1>4, <2>2, <3>1, ReturnStep
  <2>3. CASE subReason = "none"
    <3>1. stage' = "openalex" /\ Query("openalex") /\ UNCHANGED candidate
      BY <2>1, <2>3 DEF FallBack
    <3>2. \A c \in CoPrimary : client[c] = "missed"
      BY <1>1, <1>4, <2>3 DEF TypeOK, Ends, Order
    <3> QED
      BY <1>1, <2>3, <3>1, <3>2, FallBackStep
  <2> QED
    BY <2>2, <2>3
<1> QED
  BY <1>3, <1>4

LEMMA OpenAlexAnsweredStep ==
  ASSUME IInv, OpenAlexAnswered
  PROVE  IInv'
<1> USE DEF IInv
<1>1. /\ stage = "openalex" /\ ~ InFlight("openalex")
      /\ client["openalex"] # "unasked" /\ client["crossref"] = "unasked"
      /\ \A c \in CoPrimary : client[c] = "missed"
      /\ UNCHANGED <<hasDoi, rateLeft, parseLeft, reported, failure>>
  BY DEF OpenAlexAnswered, Order, FallbackMeansMiss, Asked
<1>2. \A c \in Clients : ~ InFlight(c)
  BY <1>1
<1>3. CASE client["openalex"] \in Hits
  <2>1. Return("openalex")
    BY <1>3 DEF OpenAlexAnswered
  <2> QED
    BY <1>1, <1>2, <1>3, <2>1, ReturnStep
<1>4. CASE client["openalex"] \notin Hits /\ (subReason # "none" \/ ~ hasDoi)
  <2>1. Return("none")
    BY <1>4 DEF OpenAlexAnswered, FallBack
  <2>2. ~ hasDoi => Asked = Clients \ {"crossref"}
    BY <1>1 DEF Asked
  <2>3. subReason = "none" => Asked = IF hasDoi THEN Clients ELSE Clients \ {"crossref"}
    BY <1>4, <2>2
  <2> QED
    BY <1>1, <1>2, <1>4, <2>1, <2>3, ReturnStep
<1>5. CASE client["openalex"] \notin Hits /\ subReason = "none" /\ hasDoi
  <2>1. stage' = "crossref" /\ Query("crossref") /\ UNCHANGED candidate
    BY <1>5 DEF OpenAlexAnswered, FallBack
  <2>2. \A c \in Clients \ {"crossref"} : client[c] = "missed"
    BY <1>1, <1>5 DEF TypeOK, Ends
  <2> QED
    BY <1>1, <1>5, <2>1, <2>2, FallBackStep
<1> QED
  BY <1>3, <1>4, <1>5

LEMMA CrossrefAnsweredStep ==
  ASSUME IInv, CrossrefAnswered
  PROVE  IInv'
<1> USE DEF IInv
<1>1. /\ stage = "crossref" /\ ~ InFlight("crossref") /\ hasDoi
      /\ client["crossref"] # "unasked"
      /\ \A c \in Clients \ {"crossref"} : client[c] = "missed"
      /\ Return(IF client["crossref"] \in Hits THEN "crossref" ELSE "none")
      /\ UNCHANGED <<hasDoi, rateLeft, parseLeft, reported, failure>>
  BY DEF CrossrefAnswered, Order, FallbackMeansMiss, Asked
<1>2. \A c \in Clients : ~ InFlight(c)
  BY <1>1
<1>3. Asked = Clients
  BY <1>1 DEF Asked
<1> QED
  BY <1>1, <1>2, <1>3, ReturnStep

LEMMA CancelStep ==
  ASSUME IInv, Cancel
  PROVE  IInv'
<1> USE DEF IInv
<1>1. /\ stage \in Searching /\ stage' = "cancelled"
      /\ client' = [c \in Clients |-> IF InFlight(c) THEN "cancelled" ELSE client[c]]
      /\ UNCHANGED <<hasDoi, rateLeft, parseLeft, reported, candidate, failure, queries>>
  BY DEF Cancel
<1>2. TypeOK'
  BY <1>1 DEF TypeOK, reported
<1>3. Budget'
  BY <1>1 DEF TypeOK, Budget
<1>4. Order' /\ Ends'
  BY <1>1 DEF TypeOK, Order, Ends, reported
<1>5. FallbackMeansMiss'
  BY <1>1 DEF TypeOK, FallbackMeansMiss, Asked
<1>6. NotFoundIsUnanimous' /\ BestHitWins'
  BY <1>1 DEF NotFoundIsUnanimous, BestHitWins
<1> QED
  BY <1>2, <1>3, <1>4, <1>5, <1>6

LEMMA IInvNext == IInv /\ [Next]_vars => IInv'
<1> SUFFICES ASSUME IInv, [Next]_vars PROVE IInv'
  OBVIOUS
<1>1. ASSUME UNCHANGED vars PROVE IInv'
  BY <1>1 DEF vars, reported, IInv, TypeOK, Budget, Order, Ends, FallbackMeansMiss,
              NotFoundIsUnanimous, BestHitWins, Asked
<1> QED
  BY <1>1, RespondsStep, BackoffEndsStep, CoPrimariesAnsweredStep, OpenAlexAnsweredStep,
     CrossrefAnsweredStep, CancelStep DEF Next, Finished

LEMMA IInvHolds == Spec => []IInv
BY IInvInit, IInvNext, PTL DEF Spec

(* Every variable keeps its type, and the evidence names the client whose     *)
(* failure is reported.                                                      *)
THEOREM TypeCorrect == Spec => []TypeOK
<1>1. IInv => TypeOK
  BY DEF IInv
<1> QED
  BY <1>1, IInvHolds, PTL

(* A source is not found only if every client asked has missed.               *)
THEOREM NotFoundIsSaidByAll == Spec => []NotFoundIsUnanimous
<1>1. IInv => NotFoundIsUnanimous
  BY DEF IInv
<1> QED
  BY <1>1, IInvHolds, PTL

(* A hit is never lost to a failure, nor a full text to an abstract.          *)
THEOREM HitsWin == Spec => []BestHitWins
<1>1. IInv => BestHitWins
  BY DEF IInv
<1> QED
  BY <1>1, IInvHolds, PTL

(* Only clean misses lead to the next client.                                 *)
THEOREM FallbacksFollowMisses == Spec => []FallbackMeansMiss
<1>1. IInv => FallbackMeansMiss
  BY DEF IInv
<1> QED
  BY <1>1, IInvHolds, PTL

(* The two budgets bound the queries of each client.                          *)
THEOREM BudgetsHold == Spec => []QueriesAreBounded
<1>1. IInv => QueriesAreBounded
  BY DEF IInv, Budget, QueriesAreBounded
<1> QED
  BY <1>1, IInvHolds, PTL

-----------------------------------------------------------------------------
\* The steps a client can still make the search take: two for each attempt left of
\* its budgets, a query and its answer, and one more for a query not sent yet.
Effort(c) ==
  IF client[c] = "querying" THEN 2 * (rateLeft[c] + parseLeft[c])
  ELSE IF client[c] \in {"unasked", "backoff"} THEN 2 * (rateLeft[c] + parseLeft[c]) + 1
  ELSE 0

Distance ==
  Effort("s2") + Effort("arxiv") + Effort("openalex") + Effort("crossref")
    + (IF stage \in Searching THEN 1 ELSE 0)

(* Every step brings the search nearer to its end, whatever the services       *)
(* answer and however the clients' answers, pauses and limits interleave       *)
(* (api.py:366-385): no mix of limits and malformed responses goes on for ever.*)
SearchAdvances == [][Distance' \in Nat /\ Distance' < Distance]_vars

LEMMA EffortType ==
  ASSUME TypeOK, NEW c \in Clients
  PROVE  Effort(c) \in Nat /\ rateLeft[c] \in Nat /\ parseLeft[c] \in Nat
<1>1. rateLeft[c] \in Nat /\ parseLeft[c] \in Nat
  BY DEF TypeOK
<1> QED
  BY <1>1 DEF Effort

LEMMA EffortTypeNext ==
  ASSUME TypeOK', NEW c \in Clients
  PROVE  Effort(c)' \in Nat /\ rateLeft'[c] \in Nat /\ parseLeft'[c] \in Nat
<1>1. rateLeft'[c] \in Nat /\ parseLeft'[c] \in Nat
  BY DEF TypeOK
<1> QED
  BY <1>1 DEF Effort

\* One client's effort falls, and nothing else grows.
LEMMA OneClient ==
  ASSUME IInv, IInv', NEW c \in Clients, Effort(c)' < Effort(c),
         \A d \in Clients \ {c} : UNCHANGED <<client[d], rateLeft[d], parseLeft[d]>>,
         stage' \in Searching => stage \in Searching
  PROVE  Distance' \in Nat /\ Distance' < Distance
<1>1. \A d \in Clients : Effort(d) \in Nat /\ Effort(d)' \in Nat
  BY EffortType, EffortTypeNext DEF IInv
<1>2. \A d \in Clients \ {c} : Effort(d)' = Effort(d)
  BY DEF Effort
<1> HIDE DEF Searching
<1> QED
  BY <1>1, <1>2 DEF Distance

LEMMA RespondsAdvances ==
  ASSUME IInv, IInv', NEW c \in Clients, Responds(c) \/ BackoffEnds(c)
  PROVE  Distance' \in Nat /\ Distance' < Distance
<1>1. /\ client \in [Clients -> Places]
      /\ rateLeft \in [Clients -> 0 .. RateAttempts]
      /\ parseLeft \in [Clients -> 0 .. ParseAttempts]
  BY DEF IInv, TypeOK
<1>2. /\ InFlight(c) /\ rateLeft[c] \in Nat /\ parseLeft[c] \in Nat
      /\ rateLeft[c] >= 1 /\ parseLeft[c] >= 1
  BY <1>1 DEF Responds, Answers, IsRateLimited, FailsToParse, Fails, Raises, BackoffEnds,
     IInv, Budget
<1>3. \A d \in Clients \ {c} : UNCHANGED <<client[d], rateLeft[d], parseLeft[d]>>
  BY <1>1 DEF Responds, Answers, IsRateLimited, FailsToParse, Fails, Raises, BackoffEnds, Goto,
     GiveUp, Query
<1>4. stage' \in Searching => stage \in Searching
  BY DEF Responds, Answers, IsRateLimited, FailsToParse, Fails, Raises, BackoffEnds
<1>5. Effort(c)' < Effort(c)
  <2>1. ASSUME client'[c] \notin {"unasked", "querying", "backoff"} PROVE Effort(c)' < Effort(c)
    BY <1>2, <2>1 DEF Effort
  <2>2. CASE Answers(c) \/ Fails(c) \/ Raises(c)
    BY <1>1, <2>1, <2>2 DEF Answers, Fails, Raises, Goto, GiveUp
  <2>3. CASE IsRateLimited(c)
    <3>1. CASE rateLeft[c] > 1
      <4>1. /\ client[c] = "querying" /\ client'[c] = "backoff"
            /\ rateLeft'[c] = rateLeft[c] - 1 /\ parseLeft'[c] = parseLeft[c]
        BY <1>1, <2>3, <3>1 DEF IsRateLimited, Goto
      <4> QED
        BY <1>2, <4>1 DEF Effort
    <3>2. CASE ~ (rateLeft[c] > 1)
      BY <1>1, <2>1, <2>3, <3>2 DEF IsRateLimited, GiveUp, Goto
    <3> QED
      BY <3>1, <3>2
  <2>4. CASE FailsToParse(c)
    <3>1. CASE parseLeft[c] > 1
      <4>1. /\ client[c] = "querying" /\ client'[c] = "querying"
            /\ rateLeft'[c] = rateLeft[c] /\ parseLeft'[c] = parseLeft[c] - 1
        BY <1>1, <2>4, <3>1 DEF FailsToParse, Query, Goto
      <4> QED
        BY <1>2, <4>1 DEF Effort
    <3>2. CASE ~ (parseLeft[c] > 1)
      BY <1>1, <2>1, <2>4, <3>2 DEF FailsToParse, GiveUp, Goto
    <3> QED
      BY <3>1, <3>2
  <2>5. CASE BackoffEnds(c)
    <3>1. /\ client[c] = "backoff" /\ client'[c] = "querying"
          /\ rateLeft'[c] = rateLeft[c] /\ parseLeft'[c] = parseLeft[c]
      BY <1>1, <2>5 DEF BackoffEnds, Query, Goto
    <3> QED
      BY <1>2, <3>1 DEF Effort
  <2> QED
    BY <2>2, <2>3, <2>4, <2>5 DEF Responds
<1> QED
  BY <1>3, <1>4, <1>5, OneClient

LEMMA ReturnAdvances ==
  ASSUME IInv, IInv', stage \in Searching, stage' \notin Searching,
         UNCHANGED <<rateLeft, parseLeft>>,
         \A c \in Clients : client'[c] = client[c] \/ client'[c] = "cancelled"
  PROVE  Distance' \in Nat /\ Distance' < Distance
<1>1. \A c \in Clients : Effort(c) \in Nat /\ Effort(c)' \in Nat
  BY EffortType, EffortTypeNext DEF IInv
<1>2. \A c \in Clients : Effort(c)' <= Effort(c)
  BY <1>1 DEF Effort
<1> HIDE DEF Searching
<1> QED
  BY <1>1, <1>2 DEF Distance

LEMMA FallBackAdvances ==
  ASSUME IInv, IInv', NEW next \in {"openalex", "crossref"}, client[next] = "unasked",
         FallBack(next), UNCHANGED <<rateLeft, parseLeft>>, stage \in Searching
  PROVE  Distance' \in Nat /\ Distance' < Distance
<1>1. CASE subReason # "none"
  BY <1>1, ReturnAdvances DEF FallBack, Return
<1>2. CASE subReason = "none"
  <2>1. stage' = next /\ client' = [client EXCEPT ![next] = "querying"]
    BY <1>2 DEF FallBack, Query, Goto
  <2>2. Effort(next)' < Effort(next)
    BY <2>1 DEF Effort, IInv, TypeOK
  <2>3. \A d \in Clients \ {next} : UNCHANGED <<client[d], rateLeft[d], parseLeft[d]>>
    BY <2>1 DEF IInv, TypeOK
  <2> QED
    BY <2>1, <2>2, <2>3, OneClient
<1> QED
  BY <1>1, <1>2

(* A search takes a bounded number of steps, for any budgets: what is left to   *)
(* do (Distance) falls with each.                                               *)
THEOREM SearchIsBounded == Spec => SearchAdvances
<1>1. ASSUME IInv, IInv', Next
      PROVE  (Distance' \in Nat /\ Distance' < Distance) \/ UNCHANGED vars
  <2>1. ASSUME NEW c \in Clients, Responds(c) \/ BackoffEnds(c)
        PROVE  Distance' \in Nat /\ Distance' < Distance
    BY <1>1, <2>1, RespondsAdvances
  <2>2. ASSUME NEW winner, Return(winner), UNCHANGED <<rateLeft, parseLeft>>, stage \in Searching
        PROVE  Distance' \in Nat /\ Distance' < Distance
    BY <1>1, <2>2, ReturnAdvances DEF Return
  <2>3. CASE CoPrimariesAnswered
    <3>1. stage = "co_primary" /\ client["openalex"] = "unasked"
      BY <1>1, <2>3 DEF CoPrimariesAnswered, IInv, Order
    <3>2. Return(Tiebreak) \/ FallBack("openalex")
      BY <2>3 DEF CoPrimariesAnswered
    <3> QED
      BY <1>1, <2>2, <2>3, <3>1, <3>2, FallBackAdvances DEF CoPrimariesAnswered
  <2>4. CASE OpenAlexAnswered
    <3>1. stage = "openalex" /\ client["crossref"] = "unasked"
      BY <1>1, <2>4 DEF OpenAlexAnswered, IInv, Order
    <3>2. Return("openalex") \/ Return("none") \/ FallBack("crossref")
      BY <2>4 DEF OpenAlexAnswered
    <3> QED
      BY <1>1, <2>2, <2>4, <3>1, <3>2, FallBackAdvances DEF OpenAlexAnswered
  <2>5. CASE CrossrefAnswered
    BY <2>2, <2>5 DEF CrossrefAnswered
  <2>6. CASE Cancel
    BY <1>1, <2>6, ReturnAdvances DEF Cancel, IInv, TypeOK
  <2>7. CASE Finished
    BY <2>7 DEF Finished
  <2> QED
    BY <1>1, <2>1, <2>3, <2>4, <2>5, <2>6, <2>7 DEF Next
<1> QED
  BY <1>1, IInvHolds, PTL DEF Spec, SearchAdvances
=============================================================================
