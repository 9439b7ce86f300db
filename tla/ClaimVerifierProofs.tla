-------------------------- MODULE ClaimVerifierProofs --------------------------
(***************************************************************************)
(* What a shared cache does to the results of overlapping verifications,    *)
(* for any sources, claims and number of calls.                             *)
(*                                                                          *)
(* As long as no question has been before a judge twice at once, a call     *)
(* that waits for a judge is alone in asking and the entry is still empty   *)
(* (Waiting); so an entry is written once, and every result that rests on   *)
(* it can still be read off it (Settled).  An entry of the source cache is  *)
(* at least as new as any fetch that was not outrun (Fetches).              *)
(***************************************************************************)
EXTENDS ClaimVerifier, TLAPS

Claims == [text : Texts, type : SourcedTypes]
Candidates == [source : Sources, body : Bodies]

\* What the call's locals hold at each point.
Progress ==
  \A k \in Calls :
    /\ at[k] # "done" => outcome[k] = "none"
    /\ at[k] = "searching" => claim[k] \in Claims
    /\ at[k] \in {"fetched", "locating", "entailing"} \/ outcome[k] \in Judged =>
         claim[k] \in Claims /\ found[k] \in Candidates

Question(k) == <<found[k].source, claim[k].text>>
Entry(k) == entailments[<<found[k].source, claim[k].text, claim[k].type>>]

Alone(k) == Question(k) \notin together

Waiting ==
  \A k \in Calls : Alone(k) =>
    /\ at[k] = "locating" =>
         /\ localities[Question(k)] = "none"
         /\ \A j \in Calls : at[j] = "locating" /\ Question(j) = Question(k) => j = k
    /\ at[k] = "entailing" =>
         /\ localities[Question(k)] = "relevant"
         /\ Entry(k) = NoEntailment
         /\ \A j \in Calls :
              at[j] = "entailing" /\ Question(j) = Question(k) /\ claim[j].type = claim[k].type => j = k

Settled ==
  \A k \in Calls : Alone(k) =>
    /\ outcome[k] = "off_topic" => localities[Question(k)] = "irrelevant"
    /\ outcome[k] \in Verdicts \cup {"hallucinated"} =>
         /\ localities[Question(k)] = "relevant"
         /\ Entry(k) # NoEntailment
         /\ outcome[k] = Checked(Entry(k), found[k].body)

Fetches ==
  /\ \A s \in Sources : sources[s].body <= current[s]
  /\ \A k \in Calls : at[k] = "fetched" =>
       /\ found[k].body <= current[found[k].source]
       /\ found[k].body < sources[found[k].source].body => k \in outrun

IInv ==
  /\ TypeOK
  /\ Progress
  /\ Waiting
  /\ Settled
  /\ Fetches

USE BoundAssumption DEF Calls, Bodies

LEMMA Names ==
  /\ "hallucinated" \notin Verdicts /\ "off_topic" \notin Verdicts /\ "none" \notin Verdicts
  /\ NoEntailment \notin Entailments
  /\ NotFound \notin Candidates
  /\ {"not_found", "unreachable", "judge_failed", "by_design", "mistagged", "none"} \cap Judged = {}
BY NameAssumption DEF NoEntailment, Entailments, NotFound, Candidates, Judged

LEMMA IInvInit == Init => IInv
<1> SUFFICES ASSUME Init PROVE IInv
  OBVIOUS
<1>1. TypeOK
  BY Names DEF Init, TypeOK, Outcomes, NoSource, NoClaim, NotFound
<1>2. Progress
  BY Names DEF Init, Progress
<1>3. Waiting /\ Settled
  BY Names DEF Init, Waiting, Settled
<1>4. Fetches
  BY DEF Init, Fetches, NoSource
<1> QED
  BY <1>1, <1>2, <1>3, <1>4 DEF IInv

\* What GoOn does to the call, told by what the caches say.
LEMMA GoOnCases ==
  ASSUME TypeOK, NEW k \in Calls, NEW c \in Claims, NEW f \in Candidates,
         NEW l \in {"none", "relevant", "irrelevant"},
         NEW e \in Entailments \cup {NoEntailment},
         GoOn(k, c, f, l, e)
  PROVE  /\ at' = [at EXCEPT ![k] = at'[k]]
         /\ outcome' = [outcome EXCEPT ![k] = outcome'[k]]
         /\ together' = IF Joined(k, at'[k], c, f.source)
                        THEN together \cup {<<f.source, c.text>>} ELSE together
         /\ at'[k] \in {"locating", "entailing", "done"}
         /\ outcome'[k] \in Judged \cup {"none"}
         /\ at'[k] # "done" <=> outcome'[k] = "none"
         /\ at'[k] = "locating" => l = "none"
         /\ at'[k] = "entailing" => l = "relevant" /\ e = NoEntailment
         /\ outcome'[k] = "off_topic" => l = "irrelevant"
         /\ outcome'[k] \in Verdicts \cup {"hallucinated"} =>
              l = "relevant" /\ e # NoEntailment /\ outcome'[k] = Checked(e, f.body)
<1> DEFINE next == Continuation(l, e, f.body)
<1>1. /\ at' = [at EXCEPT ![k] = next.at]
      /\ outcome' = [outcome EXCEPT ![k] = next.outcome]
      /\ together' = IF Joined(k, next.at, c, f.source)
                     THEN together \cup {<<f.source, c.text>>} ELSE together
  BY DEF GoOn
<1> HIDE DEF next
<1>2. at'[k] = next.at /\ outcome'[k] = next.outcome
  BY <1>1 DEF TypeOK
<1>3. /\ at' = [at EXCEPT ![k] = at'[k]] /\ outcome' = [outcome EXCEPT ![k] = outcome'[k]]
      /\ together' = IF Joined(k, at'[k], c, f.source)
                     THEN together \cup {<<f.source, c.text>>} ELSE together
  BY <1>1, <1>2
<1>4. CASE l = "none"
  <2>1. next = Await("locating")
    BY <1>4 DEF next, Continuation
  <2>2. at'[k] = "locating" /\ outcome'[k] = "none"
    BY <1>2, <2>1 DEF Await
  <2> QED
    BY <1>3, <1>4, <2>2, Names
<1>5. CASE l = "irrelevant"
  <2>1. next = Return("off_topic")
    BY <1>5 DEF next, Continuation
  <2>2. at'[k] = "done" /\ outcome'[k] = "off_topic" /\ "off_topic" \in Judged
    BY <1>2, <2>1 DEF Return, Judged
  <2> QED
    BY <1>3, <1>5, <2>2, Names
<1>6. CASE l = "relevant" /\ e = NoEntailment
  <2>1. next = Await("entailing")
    BY <1>6 DEF next, Continuation
  <2>2. at'[k] = "entailing" /\ outcome'[k] = "none"
    BY <1>2, <2>1 DEF Await
  <2> QED
    BY <1>3, <1>6, <2>2, Names
<1>7. CASE l = "relevant" /\ e # NoEntailment
  <2>1. next = Return(Checked(e, f.body))
    BY <1>7 DEF next, Continuation
  <2>2. Checked(e, f.body) \in Verdicts \cup {"hallucinated"}
    BY <1>7 DEF Checked, Entailments
  <2>3. at'[k] = "done" /\ outcome'[k] = Checked(e, f.body)
    BY <1>2, <2>1 DEF Return
  <2>4. Checked(e, f.body) \in Judged /\ Checked(e, f.body) \notin {"none", "off_topic"}
    BY <2>2, Names DEF Judged
  <2> QED
    BY <1>3, <1>7, <2>2, <2>3, <2>4
<1> QED
  BY <1>4, <1>5, <1>6, <1>7

\* The call goes on after a fetch or a judgement on locality: what the other
\* calls rest on is still there, and the call itself has read the caches.
LEMMA GoOnStep ==
  ASSUME IInv, TypeOK', Fetches', NEW k \in Calls, NEW c \in Claims, NEW f \in Candidates,
         at[k] \in {"idle", "fetched", "locating"},
         claim' = [claim EXCEPT ![k] = c],
         found' = [found EXCEPT ![k] = f],
         entailments' = entailments,
         LET q == <<f.source, c.text>>
         IN  \/ localities' = localities
             \/ /\ at[k] = "locating" /\ Question(k) = q
                /\ localities' = [localities EXCEPT ![q] = localities'[q]]
                /\ localities'[q] # "none",
         GoOn(k, c, f, localities'[<<f.source, c.text>>], entailments[<<f.source, c.text, c.type>>])
  PROVE  IInv'
<1> DEFINE q == <<f.source, c.text>>
           l == localities'[q]
           e == entailments[<<f.source, c.text, c.type>>]
<1> USE DEF IInv
<1>1. q \in Sources \X Texts /\ <<f.source, c.text, c.type>> \in Sources \X Texts \X SourcedTypes
  BY DEF Candidates, Claims
<1>2. l \in {"none", "relevant", "irrelevant"} /\ e \in Entailments \cup {NoEntailment}
  BY <1>1 DEF TypeOK
<1>3. /\ at' = [at EXCEPT ![k] = at'[k]]
      /\ outcome' = [outcome EXCEPT ![k] = outcome'[k]]
      /\ together' = IF Joined(k, at'[k], c, f.source) THEN together \cup {q} ELSE together
      /\ at'[k] \in {"locating", "entailing", "done"}
      /\ outcome'[k] \in Judged \cup {"none"}
      /\ at'[k] # "done" <=> outcome'[k] = "none"
      /\ at'[k] = "locating" => l = "none"
      /\ at'[k] = "entailing" => l = "relevant" /\ e = NoEntailment
      /\ outcome'[k] = "off_topic" => l = "irrelevant"
      /\ outcome'[k] \in Verdicts \cup {"hallucinated"} =>
           l = "relevant" /\ e # NoEntailment /\ outcome'[k] = Checked(e, f.body)
  BY <1>2, GoOnCases
<1> HIDE DEF l, e
<1>4. \A j \in Calls \ {k} :
        /\ at'[j] = at[j] /\ outcome'[j] = outcome[j]
        /\ claim'[j] = claim[j] /\ found'[j] = found[j]
        /\ Question(j)' = Question(j) /\ Entry(j)' = Entry(j)
  BY <1>3 DEF TypeOK, Question, Entry
<1>5. /\ claim'[k] = c /\ found'[k] = f
      /\ Question(k)' = q /\ Entry(k)' = e
  BY DEF TypeOK, Question, Entry, e
<1>6. Progress'
  BY <1>3, <1>4, <1>5 DEF Progress
<1>7. \A j \in Calls : Alone(j)' => Question(j)' \notin together
  BY <1>3 DEF Alone
\* An entry of a question no other call has asked at the same time is new.
<1>8. ASSUME NEW j \in Calls \ {k}, Alone(j)', at[j] \in {"locating", "entailing"}
             \/ outcome[j] \in {"off_topic", "hallucinated"} \cup Verdicts
      PROVE  localities'[Question(j)] = localities[Question(j)]
  <2>1. Alone(j)
    BY <1>4, <1>7, <1>8 DEF Alone
  <2>2. CASE localities' = localities
    BY <2>2
  <2>3. CASE /\ at[k] = "locating" /\ Question(k) = q
             /\ localities' = [localities EXCEPT ![q] = l]
    <3>1. CASE Question(j) = q
      <4>1. Alone(k) /\ localities[q] = "none"
        BY <2>1, <2>3, <3>1 DEF Alone, Waiting
      <4>2. at[j] # "locating"
        BY <2>3, <3>1, <4>1 DEF Waiting
      <4> QED
        BY <1>8, <2>1, <3>1, <4>1, <4>2 DEF Waiting, Settled
    <3>2. CASE Question(j) # q
      BY <2>3, <3>2 DEF TypeOK
    <3> QED
      BY <3>1, <3>2
  <2> QED
    BY <2>2, <2>3 DEF l
<1>9. Waiting'
  <2> SUFFICES ASSUME NEW j \in Calls, Alone(j)'
               PROVE  /\ at'[j] = "locating" =>
                           /\ localities'[Question(j)'] = "none"
                           /\ \A i \in Calls : at'[i] = "locating" /\ Question(i)' = Question(j)' => i = j
                      /\ at'[j] = "entailing" =>
                           /\ localities'[Question(j)'] = "relevant"
                           /\ Entry(j)' = NoEntailment
                           /\ \A i \in Calls :
                                at'[i] = "entailing" /\ Question(i)' = Question(j)'
                                /\ claim'[i].type = claim'[j].type => i = j
    BY DEF Waiting
  <2>1. ASSUME NEW i \in Calls \ {k}, Question(i)' = q, at'[k] = at[i], q \notin together'
        PROVE  at[i] # "locating" /\ (at[i] = "entailing" => claim[i].type # c.type)
    BY <1>3, <1>4, <2>1 DEF Joined, Question
  <2>2. CASE j = k
    BY <1>3, <1>4, <1>5, <2>1, <2>2 DEF l, Alone
  <2>3. CASE j # k
    <3>1. Alone(j)
      BY <1>4, <1>7, <2>3 DEF Alone
    <3>2. at[j] \in {"locating", "entailing"} => localities'[Question(j)] = localities[Question(j)]
      BY <1>8, <2>3
    <3> QED
      BY <1>3, <1>4, <1>5, <2>1, <2>3, <3>1, <3>2 DEF Waiting, Alone
  <2> QED
    BY <2>2, <2>3
<1>10. Settled'
  <2> SUFFICES ASSUME NEW j \in Calls, Alone(j)'
               PROVE  /\ outcome'[j] = "off_topic" => localities'[Question(j)'] = "irrelevant"
                      /\ outcome'[j] \in Verdicts \cup {"hallucinated"} =>
                           /\ localities'[Question(j)'] = "relevant"
                           /\ Entry(j)' # NoEntailment
                           /\ outcome'[j] = Checked(Entry(j)', found'[j].body)
    BY DEF Settled, Checked
  <2>1. CASE j = k
    BY <1>3, <1>5, <2>1 DEF l
  <2>2. CASE j # k
    <3>1. Alone(j)
      BY <1>4, <1>7, <2>2 DEF Alone
    <3> QED
      BY <1>4, <1>8, <2>2, <3>1 DEF Settled, Checked
  <2> QED
    BY <2>1, <2>2
<1> QED
  BY <1>6, <1>9, <1>10

\* A call ends without a judgement, or has not asked for one.
LEMMA LeaveStep ==
  ASSUME IInv, NEW k \in Calls,
         at[k] \in Awaits \cup {"idle"},
         at' = [at EXCEPT ![k] = at'[k]],
         outcome' = [outcome EXCEPT ![k] = outcome'[k]],
         claim' = [claim EXCEPT ![k] = claim'[k]],
         at'[k] \in {"tagging", "searching", "done", "aborted"},
         outcome'[k] \in {"not_found", "unreachable", "judge_failed", "by_design", "mistagged", "none"},
         at'[k] # "done" => outcome'[k] = "none",
         claim'[k] \in [text : Texts, type : Types] \cup {NoClaim},
         at'[k] = "searching" => claim'[k] \in Claims,
         UNCHANGED <<found, current, cache, together, outrun>>
  PROVE  IInv'
<1> USE DEF IInv, cache
<1>1. \A j \in Calls \ {k} :
        /\ at'[j] = at[j] /\ outcome'[j] = outcome[j]
        /\ claim'[j] = claim[j] /\ found'[j] = found[j]
        /\ Question(j)' = Question(j) /\ Entry(j)' = Entry(j) /\ Alone(j)' = Alone(j)
  BY DEF TypeOK, Question, Entry, Alone
<1>2. outcome'[k] \notin Judged
  BY Names
<1>3. TypeOK'
  <2>1. at' \in [Calls -> Awaits \cup {"idle", "done", "aborted"}]
    BY DEF TypeOK, Awaits
  <2>2. outcome' \in [Calls -> Outcomes]
    BY DEF TypeOK, Outcomes
  <2>3. \A j \in Calls : outcome'[j] \in Judged => found'[j] # NotFound
    BY <1>1, <1>2 DEF TypeOK
  <2> QED
    BY <2>1, <2>2, <2>3 DEF TypeOK
<1>4. Progress'
  BY <1>1, <1>2 DEF Progress
<1>5. Waiting'
  BY <1>1 DEF Waiting
<1>6. Settled'
  BY <1>1, <1>2 DEF Settled, Checked, Judged
<1>7. Fetches'
  BY <1>1 DEF Fetches
<1> QED
  BY <1>3, <1>4, <1>5, <1>6, <1>7

\* What GoOn leaves of the types.
LEMMA GoOnTypes ==
  ASSUME TypeOK, NEW k \in Calls, NEW c \in Claims, NEW f \in Candidates,
         NEW l \in {"none", "relevant", "irrelevant"},
         NEW e \in Entailments \cup {NoEntailment},
         claim' = [claim EXCEPT ![k] = c],
         found' = [found EXCEPT ![k] = f],
         GoOn(k, c, f, l, e)
  PROVE  /\ at' \in [Calls -> Awaits \cup {"idle", "done", "aborted"}]
         /\ claim' \in [Calls -> [text : Texts, type : Types] \cup {NoClaim}]
         /\ found' \in [Calls -> Candidates \cup {NotFound}]
         /\ outcome' \in [Calls -> Outcomes]
         /\ together' \in SUBSET (Sources \X Texts)
         /\ \A j \in Calls : outcome'[j] \in Judged => found'[j] # NotFound
<1>1. /\ at' = [at EXCEPT ![k] = at'[k]]
      /\ outcome' = [outcome EXCEPT ![k] = outcome'[k]]
      /\ together' = IF Joined(k, at'[k], c, f.source)
                     THEN together \cup {<<f.source, c.text>>} ELSE together
      /\ at'[k] \in {"locating", "entailing", "done"}
      /\ outcome'[k] \in Judged \cup {"none"}
  BY GoOnCases
<1>2. at' \in [Calls -> Awaits \cup {"idle", "done", "aborted"}]
  BY <1>1 DEF TypeOK, Awaits
<1>3. outcome' \in [Calls -> Outcomes]
  BY <1>1 DEF TypeOK, Outcomes, Judged
<1>4. claim' \in [Calls -> [text : Texts, type : Types] \cup {NoClaim}]
  BY DEF TypeOK, Claims, Types
<1>5. found' \in [Calls -> Candidates \cup {NotFound}]
  BY DEF TypeOK, Candidates
<1>6. together' \in SUBSET (Sources \X Texts)
  BY <1>1 DEF TypeOK, Claims, Candidates
<1>7. \A j \in Calls : outcome'[j] \in Judged => found'[j] # NotFound
  BY <1>1, Names DEF TypeOK
<1> QED
  BY <1>2, <1>3, <1>4, <1>5, <1>6, <1>7

LEMMA BeginStep ==
  ASSUME IInv, NEW k \in Calls,
         NEW c \in [text : Texts, type : Types], NEW hint \in Sources \cup {NoId},
         Begin(k, c, hint)
  PROVE  IInv'
<1> USE DEF IInv, cache
<1>1. CASE c.type \in SourcedTypes /\ Cached(hint)
  <2> DEFINE f == Candidate(hint)
             l == localities[<<hint, c.text>>]
             e == entailments[<<hint, c.text, c.type>>]
  <2>1. c \in Claims /\ f \in Candidates /\ f.source = hint /\ hint \in Sources
    BY <1>1 DEF Claims, Candidates, Candidate, Cached, TypeOK
  <2>2. /\ claim' = [claim EXCEPT ![k] = c]
        /\ found' = [found EXCEPT ![k] = f]
        /\ GoOn(k, c, f, l, e)
        /\ at[k] = "idle"
        /\ UNCHANGED <<current, sources, localities, entailments, outrun>>
    BY <1>1 DEF Begin, Locality, Entailment
  <2>3. l \in {"none", "relevant", "irrelevant"} /\ e \in Entailments \cup {NoEntailment}
    BY <2>1 DEF TypeOK, Claims
  <2> HIDE DEF f
  <2>4. TypeOK'
    BY <2>1, <2>2, <2>3, GoOnTypes DEF TypeOK, Candidates
  <2>5. Fetches'
    <3>1. at' = [at EXCEPT ![k] = at'[k]] /\ at'[k] # "fetched"
      BY <2>1, <2>2, <2>3, GoOnCases
    <3>2. \A j \in Calls : at'[j] = "fetched" => at[j] = "fetched" /\ found'[j] = found[j]
      BY <2>2, <3>1 DEF TypeOK
    <3> QED
      BY <2>2, <3>2 DEF Fetches
  <2> QED
    BY <2>1, <2>2, <2>4, <2>5, GoOnStep
<1>2. CASE ~ (c.type \in SourcedTypes /\ Cached(hint))
  <2>1. /\ at[k] = "idle"
        /\ at' = [at EXCEPT ![k] = IF c.type \in DesignTypes THEN "tagging" ELSE "searching"]
        /\ claim' = [claim EXCEPT ![k] = c]
        /\ UNCHANGED <<found, outcome, current, cache, together, outrun>>
    BY <1>2 DEF Begin
  <2>2. /\ at'[k] \in {"tagging", "searching"} /\ at' = [at EXCEPT ![k] = at'[k]]
        /\ at'[k] = "searching" => c \in Claims
    BY <2>1 DEF TypeOK, Claims, Types
  <2>3. claim'[k] = c /\ claim' = [claim EXCEPT ![k] = claim'[k]]
    BY <2>1 DEF TypeOK
  <2>4. outcome'[k] = "none" /\ outcome' = [outcome EXCEPT ![k] = outcome'[k]]
    BY <2>1 DEF TypeOK, Progress
  <2> QED
    BY <2>1, <2>2, <2>3, <2>4, LeaveStep
<1> QED
  BY <1>1, <1>2

\* The steps that finish a call with a status no source supports.
LEMMA FinishStep ==
  ASSUME IInv, NEW k \in Calls, at[k] \in Awaits,
         NEW r \in {"not_found", "unreachable", "judge_failed", "by_design", "mistagged"},
         Finish(k, r),
         UNCHANGED <<claim, found, current, cache, together, outrun>>
  PROVE  IInv'
<1>1. /\ at' = [at EXCEPT ![k] = at'[k]] /\ at'[k] = "done"
      /\ outcome' = [outcome EXCEPT ![k] = outcome'[k]] /\ outcome'[k] = r
      /\ claim' = [claim EXCEPT ![k] = claim'[k]]
      /\ claim'[k] \in [text : Texts, type : Types] \cup {NoClaim}
  BY DEF IInv, TypeOK, Finish
<1> QED
  BY <1>1, LeaveStep

LEMMA AbortStep == ASSUME IInv, NEW k \in Calls, Abort(k) PROVE IInv'
<1>1. /\ at' = [at EXCEPT ![k] = at'[k]] /\ at'[k] = "aborted" /\ at[k] \in Awaits
      /\ outcome' = [outcome EXCEPT ![k] = outcome'[k]]
      /\ claim' = [claim EXCEPT ![k] = claim'[k]]
      /\ claim'[k] \in [text : Texts, type : Types] \cup {NoClaim}
      /\ UNCHANGED <<found, current, cache, together, outrun>>
  BY DEF IInv, TypeOK, Abort
<1>2. outcome'[k] = "none"
  BY DEF IInv, Progress, Abort, Awaits
<1> QED
  BY <1>1, <1>2, LeaveStep

LEMMA SearchHitsStep == ASSUME IInv, NEW k \in Calls, SearchHits(k) PROVE IInv'
<1> USE DEF IInv, SearchHits, cache
<1>1. PICK s \in Sources : found' = [found EXCEPT ![k] = [source |-> s, body |-> current[s]]]
  OBVIOUS
<1>2. [source |-> s, body |-> current[s]] \in Candidates
  BY DEF Candidates, TypeOK
<1>3. /\ at'[k] = "fetched" /\ claim[k] \in Claims /\ outcome[k] = "none"
      /\ found'[k] \in Candidates /\ found'[k].source = s /\ found'[k].body = current[s]
  BY <1>1, <1>2 DEF TypeOK, Progress
<1>4. \A j \in Calls \ {k} :
        /\ at'[j] = at[j] /\ found'[j] = found[j]
        /\ Question(j)' = Question(j) /\ Entry(j)' = Entry(j) /\ Alone(j)' = Alone(j)
  BY <1>1 DEF TypeOK, Question, Entry, Alone
<1>5. TypeOK'
  <2>1. at' \in [Calls -> Awaits \cup {"idle", "done", "aborted"}]
    BY DEF TypeOK, Awaits
  <2>2. found' \in [Calls -> Candidates \cup {NotFound}]
    BY <1>1, <1>2 DEF TypeOK, Candidates
  <2>3. \A j \in Calls : outcome[j] \in Judged => found'[j] # NotFound
    BY <1>3, <1>4, Names DEF TypeOK
  <2> QED
    BY <2>1, <2>2, <2>3 DEF TypeOK, Candidates
<1>6. Progress'
  BY <1>3, <1>4, Names DEF Progress
<1>7. Waiting'
  BY <1>3, <1>4 DEF Waiting
<1>8. Settled'
  BY <1>3, <1>4, Names DEF Settled, Checked
<1>9. Fetches'
  <2>1. /\ current[s] <= current[s] /\ sources[s].body <= current[s]
        /\ ~ (current[s] < sources[s].body)
    BY DEF TypeOK, Fetches
  <2> QED
    BY <1>3, <1>4, <2>1 DEF Fetches
<1> QED
  BY <1>5, <1>6, <1>7, <1>8, <1>9

LEMMA SearchReturnsStep == ASSUME IInv, NEW k \in Calls, SearchReturns(k) PROVE IInv'
<1> DEFINE f == found[k]
           c == claim[k]
           l == localities[<<f.source, c.text>>]
           e == entailments[<<f.source, c.text, c.type>>]
           entry == [body |-> f.body, age |-> 0]
<1> USE DEF IInv, cache
<1>1. /\ at[k] = "fetched"
      /\ sources' = [sources EXCEPT ![f.source] = entry]
      /\ outrun' = outrun \cup
           {j \in Calls \ {k} : at[j] = "fetched" /\ found[j].source = f.source}
      /\ GoOn(k, c, f, l, e)
      /\ UNCHANGED <<claim, found, current, localities, entailments>>
  BY DEF SearchReturns, Locality, Entailment
<1>2. c \in Claims /\ f \in Candidates
  BY <1>1 DEF Progress
<1>3. l \in {"none", "relevant", "irrelevant"} /\ e \in Entailments \cup {NoEntailment}
  BY <1>2 DEF TypeOK, Claims, Candidates
<1>4. claim' = [claim EXCEPT ![k] = c] /\ found' = [found EXCEPT ![k] = f]
  BY <1>1 DEF TypeOK
<1>5. /\ f.source \in Sources /\ f.body \in Bodies /\ f.body <= current[f.source]
      /\ entry \in [body : Bodies \cup {0}, age : 0 .. Ttl + 1]
      /\ current \in [Sources -> Bodies]
  BY <1>1, <1>2 DEF Candidates, Fetches, TypeOK
<1>6. at' = [at EXCEPT ![k] = at'[k]] /\ at'[k] # "fetched"
  BY <1>1, <1>2, <1>3, GoOnCases
<1>7. entry.body = f.body
  OBVIOUS
<1> HIDE DEF entry
<1>8. TypeOK'
  <2>1. sources' \in [Sources -> [body : Bodies \cup {0}, age : 0 .. Ttl + 1]]
    BY <1>1, <1>5 DEF TypeOK
  <2>2. outrun' \in SUBSET Calls
    BY <1>1 DEF TypeOK
  <2> HIDE DEF f, c, l, e
  <2>3.  /\ at' \in [Calls -> Awaits \cup {"idle", "done", "aborted"}]
        /\ claim' \in [Calls -> [text : Texts, type : Types] \cup {NoClaim}]
        /\ found' \in [Calls -> Candidates \cup {NotFound}]
        /\ outcome' \in [Calls -> Outcomes]
        /\ together' \in SUBSET (Sources \X Texts)
        /\ \A j \in Calls : outcome'[j] \in Judged => found'[j] # NotFound
    BY <1>1, <1>2, <1>3, <1>4, GoOnTypes
  <2> QED
    BY <1>1, <2>1, <2>2, <2>3 DEF TypeOK, Candidates
<1>9. Fetches'
  <2>1. \A s \in Sources : sources'[s] = IF s = f.source THEN entry ELSE sources[s]
    BY <1>1 DEF TypeOK
  <2>2. \A s \in Sources : sources'[s].body <= current'[s]
    BY <1>1, <1>5, <1>7, <2>1 DEF Fetches
  <2>3. ASSUME NEW j \in Calls, at'[j] = "fetched"
        PROVE  /\ found'[j].body <= current'[found'[j].source]
               /\ found'[j].body < sources'[found'[j].source].body => j \in outrun'
    <3>1. j # k /\ at[j] = "fetched" /\ found'[j] = found[j]
      BY <1>1, <1>6, <2>3 DEF TypeOK
    <3>2. found[j].source \in Sources
      BY <3>1 DEF Progress, Candidates
    <3>3. CASE found[j].source = f.source
      BY <1>1, <3>1, <3>3 DEF Fetches
    <3>4. CASE found[j].source # f.source
      BY <1>1, <2>1, <3>1, <3>2, <3>4 DEF Fetches
    <3> QED
      BY <3>3, <3>4
  <2> QED
    BY <2>2, <2>3 DEF Fetches
<1> QED
  BY <1>1, <1>2, <1>4, <1>8, <1>9, GoOnStep

LEMMA JudgeLocatesStep == ASSUME IInv, NEW k \in Calls, JudgeLocates(k) PROVE IInv'
<1> DEFINE f == found[k]
           c == claim[k]
           q == <<f.source, c.text>>
           e == entailments[<<f.source, c.text, c.type>>]
<1> USE DEF IInv, cache
<1>1. PICK l \in {"relevant", "irrelevant"} :
        localities' = [localities EXCEPT ![q] = l] /\ GoOn(k, c, f, l, e)
  BY DEF JudgeLocates, Entailment
<1>2. at[k] = "locating" /\ UNCHANGED <<claim, found, current, sources, entailments, outrun>>
  BY DEF JudgeLocates
<1>3. c \in Claims /\ f \in Candidates
  BY <1>2 DEF Progress
<1>4. q \in Sources \X Texts /\ e \in Entailments \cup {NoEntailment}
  BY <1>3 DEF TypeOK, Claims, Candidates
<1>5. claim' = [claim EXCEPT ![k] = c] /\ found' = [found EXCEPT ![k] = f]
  BY <1>2 DEF TypeOK
<1>6. localities'[q] = l /\ l # "none"
  BY <1>1, <1>4 DEF TypeOK
<1>7. TypeOK'
  <2>1. localities' \in [Sources \X Texts -> {"none", "relevant", "irrelevant"}]
    BY <1>1 DEF TypeOK
  <2> HIDE DEF f, c, e
  <2>2.  /\ at' \in [Calls -> Awaits \cup {"idle", "done", "aborted"}]
        /\ claim' \in [Calls -> [text : Texts, type : Types] \cup {NoClaim}]
        /\ found' \in [Calls -> Candidates \cup {NotFound}]
        /\ outcome' \in [Calls -> Outcomes]
        /\ together' \in SUBSET (Sources \X Texts)
        /\ \A j \in Calls : outcome'[j] \in Judged => found'[j] # NotFound
    BY <1>1, <1>3, <1>4, <1>5, GoOnTypes
  <2> QED
    BY <1>2, <2>1, <2>2 DEF TypeOK, Candidates
<1>8. Fetches'
  <2>1. at' = [at EXCEPT ![k] = at'[k]] /\ at'[k] # "fetched"
    BY <1>1, <1>3, <1>4, GoOnCases
  <2>2. \A j \in Calls : at'[j] = "fetched" => at[j] = "fetched"
    BY <2>1 DEF TypeOK
  <2> QED
    BY <1>2, <2>2 DEF Fetches
<1>9. Question(k) = q
  BY DEF Question
<1>10. /\ localities' = [localities EXCEPT ![q] = localities'[q]]
       /\ localities'[q] # "none" /\ GoOn(k, c, f, localities'[q], e)
  BY <1>1, <1>6
<1> HIDE DEF f, c
<1> QED
  BY <1>2, <1>3, <1>5, <1>7, <1>8, <1>9, <1>10, GoOnStep

\* The entry was empty and nobody else waited for it, or the question has been
\* asked twice at once.
LEMMA JudgeEntailsStep == ASSUME IInv, NEW k \in Calls, JudgeEntails(k) PROVE IInv'
<1> DEFINE key == <<found[k].source, claim[k].text, claim[k].type>>
<1> USE DEF IInv, cache
<1>1. PICK e \in Entailments :
        entailments' = [entailments EXCEPT ![key] = e] /\ Finish(k, Checked(e, found[k].body))
  BY DEF JudgeEntails
<1>2. /\ at[k] = "entailing" /\ at' = [at EXCEPT ![k] = "done"]
      /\ outcome' = [outcome EXCEPT ![k] = Checked(e, found[k].body)]
      /\ UNCHANGED <<claim, found, current, sources, localities, together, outrun>>
  BY <1>1 DEF JudgeEntails, Finish
<1>3. claim[k] \in Claims /\ found[k] \in Candidates /\ found[k] # NotFound
  BY <1>2, Names DEF Progress
<1>4. key \in Sources \X Texts \X SourcedTypes
  BY <1>3 DEF Claims, Candidates
<1>5. Checked(e, found[k].body) \in Verdicts \cup {"hallucinated"}
  BY DEF Checked, Entailments
<1>6. /\ outcome'[k] = Checked(e, found[k].body) /\ at'[k] = "done"
      /\ outcome'[k] \in Verdicts \cup {"hallucinated"}
      /\ outcome'[k] \notin {"none", "off_topic"}
  BY <1>2, <1>5, Names DEF TypeOK
<1>7. Entry(k)' = e /\ e # NoEntailment /\ Question(k)' = Question(k) /\ Alone(k)' = Alone(k)
  BY <1>1, <1>2, <1>4, Names DEF TypeOK, Entry, Question, Alone
<1>8. \A j \in Calls \ {k} :
        /\ at'[j] = at[j] /\ outcome'[j] = outcome[j]
        /\ Question(j)' = Question(j) /\ Alone(j)' = Alone(j)
  BY <1>2 DEF TypeOK, Question, Alone
<1>9. ASSUME NEW j \in Calls \ {k}, Alone(j),
             at[j] = "entailing" \/ outcome[j] \in Verdicts \cup {"hallucinated"}
      PROVE  Entry(j)' = Entry(j)
  <2>1. claim[j] \in Claims /\ found[j] \in Candidates
    BY <1>9 DEF Progress, Judged
  <2>2. <<found[j].source, claim[j].text, claim[j].type>> \in Sources \X Texts \X SourcedTypes
    BY <2>1 DEF Claims, Candidates
  <2>3. CASE <<found[j].source, claim[j].text, claim[j].type>> = key
    <3>1. Question(j) = Question(k) /\ claim[j].type = claim[k].type /\ Entry(j) = Entry(k)
      BY <2>3 DEF Question, Entry
    <3>2. Alone(k)
      BY <1>9, <3>1 DEF Alone
    <3>3. Entry(k) = NoEntailment
      BY <1>2, <3>2 DEF Waiting
    <3>4. at[j] # "entailing"
      BY <1>2, <3>1, <3>2 DEF Waiting
    <3> QED
      BY <1>9, <3>1, <3>3, <3>4 DEF Settled
  <2>4. CASE <<found[j].source, claim[j].text, claim[j].type>> # key
    BY <1>1, <1>2, <2>2, <2>4 DEF TypeOK, Entry
  <2> QED
    BY <2>3, <2>4
<1>10. TypeOK'
  <2>1. at' \in [Calls -> Awaits \cup {"idle", "done", "aborted"}]
    BY <1>2 DEF TypeOK
  <2>2. outcome' \in [Calls -> Outcomes]
    BY <1>2, <1>5 DEF TypeOK, Outcomes
  <2>3. entailments' \in [Sources \X Texts \X SourcedTypes -> Entailments \cup {NoEntailment}]
    BY <1>1 DEF TypeOK
  <2>4. \A j \in Calls : outcome'[j] \in Judged => found'[j] # NotFound
    BY <1>2, <1>3, <1>8 DEF TypeOK
  <2> QED
    BY <1>2, <2>1, <2>2, <2>3, <2>4 DEF TypeOK
<1>11. Progress'
  BY <1>2, <1>3, <1>6, <1>8 DEF Progress
<1>12. Waiting'
  BY <1>2, <1>6, <1>7, <1>8, <1>9 DEF Waiting
<1>13. Settled'
  <2> SUFFICES ASSUME NEW j \in Calls, Alone(j)'
               PROVE  /\ outcome'[j] = "off_topic" => localities'[Question(j)'] = "irrelevant"
                      /\ outcome'[j] \in Verdicts \cup {"hallucinated"} =>
                           /\ localities'[Question(j)'] = "relevant"
                           /\ Entry(j)' # NoEntailment
                           /\ outcome'[j] = Checked(Entry(j)', found'[j].body)
    BY DEF Settled, Checked
  <2>1. CASE j = k
    BY <1>2, <1>6, <1>7, <2>1 DEF Waiting
  <2>2. CASE j # k
    BY <1>2, <1>8, <1>9, <2>2 DEF Settled
  <2> QED
    BY <2>1, <2>2
<1>14. Fetches'
  <2>1. \A j \in Calls : at'[j] = "fetched" => at[j] = "fetched"
    BY <1>6, <1>8
  <2> QED
    BY <1>2, <2>1 DEF Fetches
<1> QED
  BY <1>10, <1>11, <1>12, <1>13, <1>14

\* Steps in which no call moves.
LEMMA SameCalls ==
  ASSUME IInv, TypeOK', Fetches',
         UNCHANGED <<at, claim, found, outcome, localities, entailments, together>>
  PROVE  IInv'
<1> USE DEF IInv
<1>1. Progress'
  BY DEF Progress
<1>2. Waiting'
  BY DEF Waiting, Alone, Question, Entry
<1>3. Settled'
  BY DEF Settled, Alone, Question, Entry, Checked
<1> QED
  BY <1>1, <1>2, <1>3

LEMMA ReviseStep == ASSUME IInv, NEW s \in Sources, Revise(s) PROVE IInv'
<1> USE DEF IInv, Revise, cache
<1>1. current' \in [Sources -> Bodies]
  BY DEF TypeOK
<1>2. TypeOK'
  BY <1>1 DEF TypeOK
<1>3. \A r \in Sources : current[r] <= current'[r]
  BY DEF TypeOK
<1>4. Fetches'
  <2>1. \A r \in Sources : sources'[r].body <= current'[r]
    BY <1>1, <1>3 DEF Fetches, TypeOK
  <2>2. ASSUME NEW j \in Calls, at[j] = "fetched"
        PROVE  found[j].body <= current'[found[j].source]
    <3>1. found[j] \in Candidates
      BY <2>2 DEF Progress
    <3>2. found[j].body <= current[found[j].source] /\ found[j].source \in Sources
      BY <2>2, <3>1 DEF Fetches, Candidates
    <3> QED
      BY <1>1, <1>3, <3>1, <3>2 DEF TypeOK, Candidates
  <2> QED
    BY <2>1, <2>2 DEF Fetches
<1> QED
  BY <1>2, <1>4, SameCalls

LEMMA TickStep == ASSUME IInv, Tick PROVE IInv'
<1> DEFINE Aged(e) == IF e.body # 0 /\ e.age <= Ttl THEN [e EXCEPT !.age = @ + 1] ELSE e
           Entries == [body : Bodies \cup {0}, age : 0 .. Ttl + 1]
<1> USE DEF IInv
<1>1. /\ sources' = [s \in Sources |-> Aged(sources[s])]
      /\ UNCHANGED <<at, claim, found, outcome, current, localities, entailments, together, outrun>>
  BY DEF Tick
<1>2. ASSUME NEW e \in Entries
      PROVE  Aged(e) \in Entries /\ Aged(e).body = e.body
  OBVIOUS
<1> HIDE DEF Aged
<1>3. sources \in [Sources -> Entries]
  BY DEF TypeOK
<1>4. /\ sources' \in [Sources -> Entries]
      /\ \A s \in Sources : sources'[s].body = sources[s].body
  BY <1>1, <1>2, <1>3
<1>5. TypeOK'
  BY <1>1, <1>4 DEF TypeOK
<1>6. Fetches'
  <2>1. \A j \in Calls : at[j] = "fetched" => found[j].source \in Sources
    BY DEF Progress, Candidates
  <2> QED
    BY <1>1, <1>4, <2>1 DEF Fetches
<1> QED
  BY <1>1, <1>5, <1>6, SameCalls

LEMMA IInvNext == IInv /\ [Next]_vars => IInv'
<1> SUFFICES ASSUME IInv, [Next]_vars PROVE IInv'
  OBVIOUS
<1>1. ASSUME NEW k \in Calls, NEW t \in Texts, NEW y \in Types, NEW hint \in Sources \cup {NoId},
             Begin(k, [text |-> t, type |-> y], hint)
      PROVE  IInv'
  BY <1>1, BeginStep
<1>2. ASSUME NEW k \in Calls, JudgeTags(k) PROVE IInv'
  BY <1>2, FinishStep DEF JudgeTags, Awaits, cache
<1>3. ASSUME NEW k \in Calls, SearchFails(k) PROVE IInv'
  BY <1>3, FinishStep DEF SearchFails, Awaits, cache
<1>4. ASSUME NEW k \in Calls, JudgeRaises(k) PROVE IInv'
  BY <1>4, FinishStep DEF JudgeRaises, Awaits, cache
<1>5. ASSUME NEW k \in Calls,
             \/ SearchHits(k) \/ SearchReturns(k) \/ JudgeLocates(k) \/ JudgeEntails(k) \/ Abort(k)
      PROVE  IInv'
  BY <1>5, SearchHitsStep, SearchReturnsStep, JudgeLocatesStep, JudgeEntailsStep, AbortStep
<1>6. ASSUME NEW s \in Sources, Revise(s) PROVE IInv'
  BY <1>6, ReviseStep
<1>7. CASE Tick
  BY <1>7, TickStep
<1>8. CASE UNCHANGED vars
  <2>1. UNCHANGED <<at, claim, found, outcome, current, sources, localities, entailments,
                    together, outrun>>
    BY <1>8 DEF vars, cache
  <2>2. TypeOK'
    BY <2>1 DEF IInv, TypeOK
  <2>3. Fetches'
    BY <2>1 DEF IInv, Fetches
  <2> QED
    BY <2>1, <2>2, <2>3, SameCalls
<1> QED
  BY <1>1, <1>2, <1>3, <1>4, <1>5, <1>6, <1>7, <1>8 DEF Next, Finished

THEOREM IInvHolds == Spec => []IInv
BY IInvInit, IInvNext, PTL DEF Spec

(* Every variable keeps its type, and a judgement names a source.             *)
THEOREM TypeCorrect == Spec => []TypeOK
<1>1. IInv => TypeOK
  BY DEF IInv
<1> QED
  BY <1>1, IInvHolds, PTL

(* Results of one claim about one source agree unless they were asked for     *)
(* side by side, for any number of calls, claims, sources and revisions.     *)
THEOREM SameQuestionAgrees == Spec => []SameQuestionSameResult
<1>1. IInv => SameQuestionSameResult
  <2> SUFFICES ASSUME IInv, NEW j \in Calls, NEW k \in Calls,
                      Asked(j) = Asked(k), <<found[j].source, claim[j].text>> \notin together
               PROVE  /\ outcome[j] \in Verdicts /\ outcome[k] \in Verdicts => outcome[j] = outcome[k]
                      /\ outcome[j] = "off_topic" => outcome[k] \notin Judged \ {"off_topic"}
                      /\ {outcome[j], outcome[k]} \subseteq Judged /\ found[j].body = found[k].body =>
                           outcome[j] = outcome[k]
    BY DEF SameQuestionSameResult
  <2>1. Question(j) = Question(k) /\ Entry(j) = Entry(k) /\ Alone(j) /\ Alone(k)
    BY DEF Asked, Question, Entry, Alone
  <2>2. \A i \in {j, k} :
          /\ outcome[i] = "off_topic" => localities[Question(j)] = "irrelevant"
          /\ outcome[i] \in Verdicts \cup {"hallucinated"} =>
               localities[Question(j)] = "relevant" /\ outcome[i] = Checked(Entry(j), found[i].body)
    BY <2>1 DEF IInv, Settled
  <2>3. \A i \in {j, k} : outcome[i] \in Verdicts => outcome[i] = Entry(j).verdict
    BY <2>2, Names DEF Checked
  <2>4. outcome[j] = "off_topic" => outcome[k] \notin Judged \ {"off_topic"}
    BY <2>2 DEF Judged
  <2>5. outcome[k] = "off_topic" => outcome[j] \notin Judged \ {"off_topic"}
    BY <2>2 DEF Judged
  <2>6. {outcome[j], outcome[k]} \subseteq Judged /\ found[j].body = found[k].body =>
          outcome[j] = outcome[k]
    BY <2>2, <2>4, <2>5 DEF Judged, Checked
  <2> QED
    BY <2>3, <2>4, <2>6
<1> QED
  BY <1>1, IInvHolds, PTL

(* A body goes back to an older one only through a fetch that was overtaken.  *)
THEOREM OnlyTheOutrunGoBack == Spec => SourceAgesOnlyWhenOutrun
<1> DEFINE Justified ==
      \A s \in Sources :
        sources'[s].body < sources[s].body =>
          \E k \in outrun : at[k] = "fetched" /\ at'[k] # "fetched" /\ found[k].source = s
<1>1. ASSUME IInv, NEW k \in Calls, SearchReturns(k) PROVE Justified
  <2> DEFINE f == found[k]
  <2>1. /\ at[k] = "fetched" /\ f \in Candidates
        /\ sources' = [sources EXCEPT ![f.source] = [body |-> f.body, age |-> 0]]
    BY <1>1 DEF SearchReturns, IInv, Progress
  <2>2. at'[k] # "fetched"
    <3>1. claim[k] \in Claims
      BY <1>1, <2>1 DEF IInv, Progress
    <3>2. GoOn(k, claim[k], f, localities[<<f.source, claim[k].text>>],
               entailments[<<f.source, claim[k].text, claim[k].type>>])
      BY <1>1 DEF SearchReturns, Locality, Entailment
    <3>3. /\ localities[<<f.source, claim[k].text>>] \in {"none", "relevant", "irrelevant"}
          /\ entailments[<<f.source, claim[k].text, claim[k].type>>] \in Entailments \cup {NoEntailment}
      BY <1>1, <2>1, <3>1 DEF IInv, TypeOK, Claims, Candidates
    <3> HIDE DEF f
    <3> QED
      BY <1>1, <2>1, <3>1, <3>2, <3>3, GoOnCases DEF IInv
  <2>3. \A s \in Sources : s # f.source => sources'[s] = sources[s]
    BY <1>1, <2>1 DEF IInv, TypeOK
  <2>4. sources'[f.source].body = f.body
    BY <1>1, <2>1 DEF IInv, TypeOK, Candidates
  <2>5. f.body < sources[f.source].body => k \in outrun
    BY <1>1, <2>1 DEF IInv, Fetches
  <2>6. \A s \in Sources : sources[s].body \in Int
    BY <1>1 DEF IInv, TypeOK
  <2> QED
    BY <2>1, <2>2, <2>3, <2>4, <2>5, <2>6
<1>2. ASSUME IInv, \A s \in Sources : sources'[s].body = sources[s].body PROVE Justified
  <2>1. \A s \in Sources : sources[s].body \in Int
    BY <1>2 DEF IInv, TypeOK
  <2> QED
    BY <1>2, <2>1
<1>3. ASSUME IInv, UNCHANGED sources PROVE Justified
  BY <1>2, <1>3
<1>4. ASSUME IInv, Tick PROVE Justified
  <2>1. \A s \in Sources : sources'[s].body = sources[s].body
    BY <1>4 DEF Tick, IInv, TypeOK
  <2> QED
    BY <1>2, <1>4, <2>1
<1> HIDE DEF Justified
<1>5. IInv /\ [Next]_vars => Justified \/ UNCHANGED vars
  <2> SUFFICES ASSUME IInv, Next PROVE Justified
    OBVIOUS
  <2>1. ASSUME NEW k \in Calls, NEW c \in [text : Texts, type : Types],
               NEW hint \in Sources \cup {NoId}, Begin(k, c, hint)
        PROVE  Justified
    BY <1>3, <2>1 DEF Begin, cache
  <2>2. ASSUME NEW k \in Calls,
               \/ JudgeTags(k) \/ SearchHits(k) \/ SearchFails(k) \/ JudgeLocates(k)
               \/ JudgeEntails(k) \/ JudgeRaises(k) \/ Abort(k)
        PROVE  Justified
    BY <1>3, <2>2 DEF JudgeTags, SearchHits, SearchFails, JudgeLocates, JudgeEntails,
                      JudgeRaises, Abort, cache
  <2>3. ASSUME NEW s \in Sources, Revise(s) PROVE Justified
    BY <1>3, <2>3 DEF Revise, cache
  <2>4. ASSUME Finished PROVE Justified
    BY <1>3, <2>4 DEF Finished, vars, cache
  <2> QED
    BY <1>1, <1>4, <2>1, <2>2, <2>3, <2>4 DEF Next
<1>6. IInv /\ [Next]_vars =>
        (\A s \in Sources :
           sources'[s].body < sources[s].body =>
             \E k \in outrun : at[k] = "fetched" /\ at'[k] # "fetched" /\ found[k].source = s)
        \/ UNCHANGED vars
  BY <1>5 DEF Justified
<1> QED
  BY <1>6, IInvHolds, PTL DEF Spec, SourceAgesOnlyWhenOutrun
=============================================================================
