---------------------------- MODULE SourceResolution ----------------------------
(***************************************************************************)
(* Stage 1 of one verification: the search for the source a claim cites.    *)
(* Semantic Scholar and arXiv are queried side by side, each with its own   *)
(* retries, and report into one outcome object; OpenAlex and, for a DOI,    *)
(* Crossref are asked when both miss.                                       *)
(*                                                                          *)
(* Source: verifier/api.py (_resolve_source, _call_with_retries) and        *)
(* verifier/sources.py (tiebreak).                                          *)
(***************************************************************************)
EXTENDS Integers

CONSTANTS
  RateAttempts,    \* RetryConfig.rate_limited_attempts
  ParseAttempts    \* RetryConfig.parse_error_attempts

ASSUME RetryAssumption ==
  /\ RateAttempts \in Nat \ {0}
  /\ ParseAttempts \in Nat \ {0}

CoPrimary == {"s2", "arxiv"}
Clients == CoPrimary \cup {"openalex", "crossref"}

\* An unknown SourceClientError is reported as parse_error.
AtOnce == {"api_down", "paywalled", "parse_error"}
SubReasons == AtOnce \cup {"rate_limited"}

VARIABLES
  hasDoi,      \* hint.doi is given
  stage,       \* where _resolve_source is
  client,      \* client[c]: where _call_with_retries is for client c
  rateLeft,    \* rate_attempts of each client
  parseLeft,   \* parse_attempts of each client
  subReason,   \* outcome.sub_reason
  blamed,      \* the client outcome.evidence names
  candidate,   \* the client whose hit is outcome.candidate
  failure,     \* history: what a client gave up on
  queries      \* history: queries sent to each client

reported == <<subReason, blamed>>
vars == <<hasDoi, stage, client, rateLeft, parseLeft, reported, candidate, failure, queries>>

Hits == {"full_text", "abstract"}
Searching == {"co_primary", "openalex", "crossref"}

Init ==
  /\ hasDoi \in BOOLEAN
  /\ stage = "co_primary"
  /\ client = [c \in Clients |-> IF c \in CoPrimary THEN "querying" ELSE "unasked"]
  /\ rateLeft = [c \in Clients |-> RateAttempts]
  /\ parseLeft = [c \in Clients |-> ParseAttempts]
  /\ subReason = "none"
  /\ blamed = "none"
  /\ candidate = "none"
  /\ failure = [c \in Clients |-> "none"]
  /\ queries = [c \in Clients |-> IF c \in CoPrimary THEN 1 ELSE 0]

-----------------------------------------------------------------------------
InFlight(c) == client[c] \in {"querying", "backoff"}

Goto(c, there) == client' = [client EXCEPT ![c] = there]

\* Bound: queries are counted up to one more than the budgets allow.
QueryBound == RateAttempts + ParseAttempts

Query(c) ==
  /\ Goto(c, "querying")
  /\ queries' = [queries EXCEPT ![c] = IF @ < QueryBound THEN @ + 1 ELSE @]

\* Mutant: the evidence of the first failure stands.
GiveUpKeepingEvidence(c, reason) ==
  /\ Goto(c, "failed")
  /\ subReason' = reason
  /\ blamed' = IF blamed = "none" THEN c ELSE blamed
  /\ failure' = [failure EXCEPT ![c] = reason]
  /\ UNCHANGED queries

\* Mutant: one miss and one failure are a miss.
GiveUpQuietly(c, reason) ==
  /\ Goto(c, "failed")
  /\ IF \E d \in Clients : client[d] = "missed" THEN UNCHANGED reported
     ELSE subReason' = reason /\ blamed' = c
  /\ failure' = [failure EXCEPT ![c] = reason]
  /\ UNCHANGED queries

\* The failure is written over whatever the outcome held.
GiveUp(c, reason) ==
  /\ Goto(c, "failed")
  /\ subReason' = reason
  /\ blamed' = c
  /\ failure' = [failure EXCEPT ![c] = reason]
  /\ UNCHANGED queries

\* The query returns a candidate, or None.
Answers(c) ==
  /\ client[c] = "querying"
  /\ \E answer \in Hits \cup {"missed"} : Goto(c, answer)
  /\ UNCHANGED <<hasDoi, stage, rateLeft, parseLeft, reported, candidate, failure, queries>>

\* Mutant: rate limits are not counted.
BacksOff(c) ==
  /\ client[c] = "querying"
  /\ Goto(c, "backoff")
  /\ UNCHANGED <<hasDoi, stage, rateLeft, parseLeft, reported, candidate, failure, queries>>

\* Rate limited: a pause and another query, or the end.
IsRateLimited(c) ==
  /\ client[c] = "querying"
  /\ rateLeft' = [rateLeft EXCEPT ![c] = @ - 1]
  /\ IF rateLeft[c] > 1
     THEN Goto(c, "backoff") /\ UNCHANGED <<reported, failure, queries>>
     ELSE GiveUp(c, "rate_limited")
  /\ UNCHANGED <<hasDoi, stage, parseLeft, candidate>>

\* Mutant: a malformed response is always asked for again.
RetriesParsing(c) ==
  /\ client[c] = "querying"
  /\ Query(c)
  /\ UNCHANGED <<hasDoi, stage, rateLeft, parseLeft, reported, candidate, failure>>

\* A malformed response: one more query at once, or the end.
FailsToParse(c) ==
  /\ client[c] = "querying"
  /\ parseLeft' = [parseLeft EXCEPT ![c] = @ - 1]
  /\ IF parseLeft[c] > 1
     THEN Query(c) /\ UNCHANGED <<reported, failure>>
     ELSE GiveUp(c, "parse_error")
  /\ UNCHANGED <<hasDoi, stage, rateLeft, candidate>>

\* A failure that is not tried again.
Fails(c) ==
  /\ client[c] = "querying"
  /\ \E reason \in AtOnce : GiveUp(c, reason)
  /\ UNCHANGED <<hasDoi, stage, rateLeft, parseLeft, candidate>>

BackoffEnds(c) ==
  /\ client[c] = "backoff"
  /\ Query(c)
  /\ UNCHANGED <<hasDoi, stage, rateLeft, parseLeft, reported, candidate, failure>>

\* An exception that is no SourceClientError: verify raises it.  The gather
\* leaves the other co-primary running.
Raises(c) ==
  /\ client[c] = "querying"
  /\ Goto(c, "raised")
  /\ stage' = IF stage \in Searching THEN "raised" ELSE stage
  /\ UNCHANGED <<hasDoi, rateLeft, parseLeft, reported, candidate, failure, queries>>

\* Mutant: a co-primary with full text is not preferred.
FirstHit == IF client["s2"] \in Hits THEN "s2" ELSE "arxiv"

\* tiebreak, given a hit.
Tiebreak ==
  IF client["s2"] \notin Hits THEN "arxiv"
  ELSE IF client["arxiv"] \notin Hits THEN "s2"
  ELSE IF client["s2"] = "full_text" THEN "s2" ELSE "arxiv"

Return(winner) ==
  /\ stage' = "returned"
  /\ candidate' = winner
  /\ UNCHANGED <<client, queries>>

\* Mutant: the secondary is asked in spite of a failed co-primary.
FallBackAnyway(next) ==
  /\ stage' = next
  /\ Query(next)
  /\ UNCHANGED candidate

\* The next client is asked unless a failure has been reported.
FallBack(next) ==
  IF subReason # "none" THEN Return("none")
  ELSE /\ stage' = next
       /\ Query(next)
       /\ UNCHANGED candidate

\* The gather returns both co-primaries' answers.
CoPrimariesAnswered ==
  /\ stage = "co_primary"
  /\ \A c \in CoPrimary : ~ InFlight(c)
  /\ IF \E c \in CoPrimary : client[c] \in Hits THEN Return(Tiebreak) ELSE FallBack("openalex")
  /\ UNCHANGED <<hasDoi, rateLeft, parseLeft, reported, failure>>

OpenAlexAnswered ==
  /\ stage = "openalex"
  /\ ~ InFlight("openalex")
  /\ IF client["openalex"] \in Hits THEN Return("openalex")
     ELSE IF hasDoi THEN FallBack("crossref") ELSE Return("none")
  /\ UNCHANGED <<hasDoi, rateLeft, parseLeft, reported, failure>>

CrossrefAnswered ==
  /\ stage = "crossref"
  /\ ~ InFlight("crossref")
  /\ Return(IF client["crossref"] \in Hits THEN "crossref" ELSE "none")
  /\ UNCHANGED <<hasDoi, rateLeft, parseLeft, reported, failure>>

\* The verify task is cancelled (BriefVerificationStream.submit), and with it
\* what it awaits.
Cancel ==
  /\ stage \in Searching
  /\ stage' = "cancelled"
  /\ client' = [c \in Clients |-> IF InFlight(c) THEN "cancelled" ELSE client[c]]
  /\ UNCHANGED <<hasDoi, rateLeft, parseLeft, reported, candidate, failure, queries>>

Finished ==
  /\ stage \notin Searching
  /\ \A c \in Clients : ~ InFlight(c)
  /\ UNCHANGED vars

Responds(c) == Answers(c) \/ IsRateLimited(c) \/ FailsToParse(c) \/ Fails(c) \/ Raises(c)

Next ==
  \/ \E c \in Clients : Responds(c) \/ BackoffEnds(c)
  \/ CoPrimariesAnswered
  \/ OpenAlexAnswered
  \/ CrossrefAnswered
  \/ Cancel
  \/ Finished

Spec == Init /\ [][Next]_vars

(* Fairness: a query returns or raises, a backoff ends (it is a sleep of      *)
(* backoff_seconds), and the event loop resumes what is ready.               *)
FairSpec ==
  /\ Spec
  /\ \A c \in Clients : WF_vars(Responds(c)) /\ WF_vars(BackoffEnds(c))
  /\ WF_vars(CoPrimariesAnswered)
  /\ WF_vars(OpenAlexAnswered)
  /\ WF_vars(CrossrefAnswered)

-----------------------------------------------------------------------------
Places == Hits \cup {"unasked", "querying", "backoff", "missed", "failed", "raised", "cancelled"}

(* Every variable has its type: the evidence names the client whose failure   *)
(* is the sub-reason, although two clients write to one outcome             *)
(* (api.py:366-398).                                                         *)
TypeOK ==
  /\ hasDoi \in BOOLEAN
  /\ stage \in Searching \cup {"returned", "raised", "cancelled"}
  /\ client \in [Clients -> Places]
  /\ rateLeft \in [Clients -> 0 .. RateAttempts]
  /\ parseLeft \in [Clients -> 0 .. ParseAttempts]
  /\ queries \in [Clients -> 0 .. QueryBound]
  /\ failure \in [Clients -> SubReasons \cup {"none"}]
  /\ candidate \in Clients \cup {"none"}
  /\ \/ subReason = "none" /\ blamed = "none"
     \/ blamed \in Clients /\ subReason = failure[blamed] /\ subReason # "none"

Asked == {c \in Clients : client[c] # "unasked"}

(* "source_not_found" is a statement about the literature: when the search    *)
(* returns neither a candidate nor a sub-reason, every client there is for   *)
(* the claim was asked and missed; a failure is never silent                 *)
(* (api.py:23-27, 333-355).                                                  *)
NotFoundIsUnanimous ==
  stage = "returned" /\ candidate = "none" /\ subReason = "none" =>
    /\ \A c \in Asked : client[c] = "missed"
    /\ Asked = IF hasDoi THEN Clients ELSE Clients \ {"crossref"}

(* A failure of one co-primary never hides the hit of another, whichever came *)
(* first, and an abstract is never taken where a full text was found         *)
(* (sources.py:99-117).                                                      *)
BestHitWins ==
  stage = "returned" =>
    \A c \in Clients : client[c] \in Hits =>
      /\ candidate # "none"
      /\ client[candidate] \in Hits
      /\ client[c] = "full_text" => client[candidate] = "full_text"

(* The secondary services are for what the primaries do not have: they are    *)
(* asked only after every earlier client has cleanly missed                  *)
(* (api.py:333-355).                                                         *)
FallbackMeansMiss ==
  /\ "openalex" \in Asked => \A c \in CoPrimary : client[c] = "missed"
  /\ "crossref" \in Asked =>
       hasDoi /\ \A c \in Clients \ {"crossref"} : client[c] = "missed"

(* Rate limits and malformed responses have separate budgets (api.py:366-385) *)
(* that mix in any order: no client is ever asked more often than both allow.*)
QueriesAreBounded ==
  \A c \in Clients : queries[c] < QueryBound

(* A search ends, and no query outlives it for ever, whatever mix of limits   *)
(* and malformed responses the services answer with.                         *)
SearchEnds == <>[](stage \notin Searching /\ \A c \in Clients : ~ InFlight(c))
=============================================================================
