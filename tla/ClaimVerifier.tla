------------------------------ MODULE ClaimVerifier ------------------------------
(***************************************************************************)
(* Verifications that share one three-level cache.  Each call of verify     *)
(* finds its source, in the cache or by a search, asks the judge whether    *)
(* the source bears on the claim and then what it says of it, and checks    *)
(* the passage the judge quotes against the body.  Calls overlap at every   *)
(* await, time passes, and the body a service returns may change.           *)
(*                                                                          *)
(* Source: verifier/api.py (verify) and verifier/cache.py.  The search is    *)
(* SourceResolution; here it is two awaits, the winner's response and the   *)
(* end of the gather.  There is one verifier_version: it is part of every   *)
(* key, so that another version's entries are another cache.                *)
(***************************************************************************)
EXTENDS Integers

CONSTANTS
  Sources,        \* canonical source ids
  Texts,          \* claim_text_hash values
  SourcedTypes,   \* claim types that are verified against a source
  DesignTypes,    \* UNVERIFIABLE_BY_DESIGN_TYPES
  Verdicts,       \* statuses entailment verdicts map to
  NoId,           \* hint that names no source by its canonical id
  Ttl,            \* source_ttl_seconds, in ticks
  BodyBound,      \* bound: bodies a source has one after the other
  CallBound       \* bound: calls of verify

Calls == 1 .. CallBound
Bodies == 1 .. BodyBound
Types == SourcedTypes \cup DesignTypes

ASSUME BoundAssumption == Ttl \in Nat /\ BodyBound \in Nat \ {0} /\ CallBound \in Nat
ASSUME NameAssumption ==
  /\ NoId \notin Sources
  /\ SourcedTypes \cap DesignTypes = {}
  /\ Verdicts \cap {"none", "off_topic", "hallucinated", "not_found", "unreachable",
                    "judge_failed", "by_design", "mistagged"} = {}

VARIABLES
  at,            \* at[k]: where the call is
  claim,         \* claim[k]: its text and type
  found,         \* found[k]: the candidate: source, and body as it was fetched
  outcome,       \* outcome[k]: status and sub-reason of its result
  current,       \* current[s]: the body the services return for s
  sources,       \* cache: body and age of the entry; body 0 is no entry
  localities,    \* cache, by source and text
  entailments,   \* cache, by source, text and type
  together,      \* history: <<source, text>> two calls had before a judge at once
  outrun         \* history: calls that fetched before another call's put_source

cache == <<sources, localities, entailments>>
vars == <<at, claim, found, outcome, current, cache, together, outrun>>

NoSource == [body |-> 0, age |-> 0]
NoClaim == [text |-> "none", type |-> "none"]
NotFound == [source |-> NoId, body |-> 0]

\* A quoted passage is the set of bodies it occurs in, those to come included.
Entailments == [verdict : Verdicts, quote : SUBSET Bodies]
NoEntailment == [verdict |-> "none", quote |-> {}]

Init ==
  /\ at = [k \in Calls |-> "idle"]
  /\ claim = [k \in Calls |-> NoClaim]
  /\ found = [k \in Calls |-> NotFound]
  /\ outcome = [k \in Calls |-> "none"]
  /\ current = [s \in Sources |-> 1]
  /\ sources = [s \in Sources |-> NoSource]
  /\ localities = [q \in Sources \X Texts |-> "none"]
  /\ entailments = [q \in Sources \X Texts \X SourcedTypes |-> NoEntailment]
  /\ together = {}
  /\ outrun = {}

-----------------------------------------------------------------------------
Awaits == {"tagging", "searching", "fetched", "locating", "entailing"}

\* Mutant: the lookup does not ask whether there is an entry.
Known(id) == id \in Sources

\* get_source: an entry past its lifetime is a miss.
Cached(id) == id \in Sources /\ sources[id].body # 0 /\ sources[id].age <= Ttl
Candidate(s) == [source |-> s, body |-> sources[s].body]

Locality(c, s) == localities[<<s, c.text>>]

\* Mutant: a judgement lives as long as its source entry.
FreshEntailment(c, s) ==
  IF Cached(s) /\ sources[s].age = 0 THEN entailments[<<s, c.text, c.type>>] ELSE NoEntailment

Entailment(c, s) == entailments[<<s, c.text, c.type>>]

\* The string match decides on the quoted passage, then the verdict.
Checked(entailment, body) ==
  IF body \in entailment.quote THEN entailment.verdict ELSE "hallucinated"

Await(place) == [at |-> place, outcome |-> "none"]
Return(result) == [at |-> "done", outcome |-> result]

\* Where verify gets to without another await, given what the caches hold.
Continuation(locality, entailment, body) ==
  CASE locality = "none" -> Await("locating")
    [] locality = "irrelevant" -> Return("off_topic")
    [] locality = "relevant" /\ entailment = NoEntailment -> Await("entailing")
    [] OTHER -> Return(Checked(entailment, body))

\* A call of another claim of the same source and text is before the same judge.
Joined(k, place, c, s) ==
  \E j \in Calls \ {k} :
    /\ at[j] = place /\ found[j].source = s /\ claim[j].text = c.text
    /\ place = "locating" \/ (place = "entailing" /\ claim[j].type = c.type)

GoOn(k, c, f, locality, entailment) ==
  LET next == Continuation(locality, entailment, f.body)
  IN  /\ at' = [at EXCEPT ![k] = next.at]
      /\ outcome' = [outcome EXCEPT ![k] = next.outcome]
      /\ together' = IF Joined(k, next.at, c, f.source)
                     THEN together \cup {<<f.source, c.text>>} ELSE together

Finish(k, result) ==
  /\ at' = [at EXCEPT ![k] = "done"]
  /\ outcome' = [outcome EXCEPT ![k] = result]

\* verify is called, with a hint that may name the source by its canonical id.
Begin(k, c, hint) ==
  /\ at[k] = "idle"
  /\ \A j \in Calls : j < k => at[j] # "idle"
  /\ claim' = [claim EXCEPT ![k] = c]
  /\ IF c.type \in SourcedTypes /\ Cached(hint)
     THEN /\ found' = [found EXCEPT ![k] = Candidate(hint)]
          /\ GoOn(k, c, Candidate(hint), Locality(c, hint), Entailment(c, hint))
     ELSE /\ at' = [at EXCEPT ![k] = IF c.type \in DesignTypes THEN "tagging" ELSE "searching"]
          /\ UNCHANGED <<found, outcome, together>>
  /\ UNCHANGED <<current, cache, outrun>>

\* The judge on an unverifiable-by-design claim.
JudgeTags(k) ==
  /\ at[k] = "tagging"
  /\ \E result \in {"by_design", "mistagged"} : Finish(k, result)
  /\ UNCHANGED <<claim, found, current, cache, together, outrun>>

\* A client returns the candidate that will win; the gather is still waiting.
SearchHits(k) ==
  /\ at[k] = "searching"
  /\ \E s \in Sources : found' = [found EXCEPT ![k] = [source |-> s, body |-> current[s]]]
  /\ at' = [at EXCEPT ![k] = "fetched"]
  /\ UNCHANGED <<claim, outcome, current, cache, together, outrun>>

\* The search ends without a candidate, cleanly or with a sub-reason.
SearchFails(k) ==
  /\ at[k] = "searching"
  /\ \E result \in {"not_found", "unreachable"} : Finish(k, result)
  /\ UNCHANGED <<claim, found, current, cache, together, outrun>>

\* put_source, under the id of the source that was found, and on.
SearchReturns(k) ==
  LET f == found[k]
      c == claim[k]
  IN  /\ at[k] = "fetched"
      /\ sources' = [sources EXCEPT ![f.source] = [body |-> f.body, age |-> 0]]
      /\ outrun' = outrun \cup
           {j \in Calls \ {k} : at[j] = "fetched" /\ found[j].source = f.source}
      /\ GoOn(k, c, f, Locality(c, f.source), Entailment(c, f.source))
      /\ UNCHANGED <<claim, found, current, localities, entailments>>

\* The judge on locality, and put_locality.
JudgeLocates(k) ==
  LET f == found[k]
      c == claim[k]
  IN  /\ at[k] = "locating"
      /\ \E locality \in {"relevant", "irrelevant"} :
           /\ localities' = [localities EXCEPT ![<<f.source, c.text>>] = locality]
           /\ GoOn(k, c, f, locality, Entailment(c, f.source))
      /\ UNCHANGED <<claim, found, current, sources, entailments, outrun>>

\* Mutant: the source entry is renewed by the calls it served.
JudgeEntailsAndRenews(k) ==
  LET f == found[k]
      c == claim[k]
  IN  /\ at[k] = "entailing"
      /\ \E e \in Entailments :
           /\ entailments' = [entailments EXCEPT ![<<f.source, c.text, c.type>>] = e]
           /\ Finish(k, Checked(e, f.body))
      /\ sources' = [sources EXCEPT ![f.source] = [body |-> f.body, age |-> 0]]
      /\ UNCHANGED <<claim, found, current, localities, together, outrun>>

\* The judge on entailment, put_entailment, and only then the string match.
JudgeEntails(k) ==
  LET f == found[k]
      c == claim[k]
  IN  /\ at[k] = "entailing"
      /\ \E e \in Entailments :
           /\ entailments' = [entailments EXCEPT ![<<f.source, c.text, c.type>>] = e]
           /\ Finish(k, Checked(e, f.body))
      /\ UNCHANGED <<claim, found, current, sources, localities, together, outrun>>

\* A judge that raises leaves no entry.
JudgeRaises(k) ==
  /\ at[k] \in {"tagging", "locating", "entailing"}
  /\ Finish(k, "judge_failed")
  /\ UNCHANGED <<claim, found, current, cache, together, outrun>>

\* A client raises what is no SourceClientError, or the task is cancelled.
Abort(k) ==
  /\ at[k] \in Awaits
  /\ at' = [at EXCEPT ![k] = "aborted"]
  /\ UNCHANGED <<claim, found, outcome, current, cache, together, outrun>>

\* The services have another body for a source.
Revise(s) ==
  /\ current[s] < BodyBound
  /\ current' = [current EXCEPT ![s] = @ + 1]
  /\ UNCHANGED <<at, claim, found, outcome, cache, together, outrun>>

\* Time passes; ages are not told apart beyond the lifetime.
Tick ==
  LET Aged(e) == IF e.body # 0 /\ e.age <= Ttl THEN [e EXCEPT !.age = @ + 1] ELSE e
  IN  /\ \E s \in Sources : Aged(sources[s]) # sources[s]
      /\ sources' = [s \in Sources |-> Aged(sources[s])]
      /\ UNCHANGED <<at, claim, found, outcome, current, localities, entailments, together, outrun>>

Finished ==
  /\ \A k \in Calls : at[k] \in {"done", "aborted"}
  /\ UNCHANGED vars

Next ==
  \/ \E k \in Calls :
       \/ \E t \in Texts, y \in Types, hint \in Sources \cup {NoId} :
            Begin(k, [text |-> t, type |-> y], hint)
       \/ JudgeTags(k)
       \/ SearchHits(k)
       \/ SearchFails(k)
       \/ SearchReturns(k)
       \/ JudgeLocates(k)
       \/ JudgeEntails(k)
       \/ JudgeRaises(k)
       \/ Abort(k)
  \/ \E s \in Sources : Revise(s)
  \/ Tick
  \/ Finished

Spec == Init /\ [][Next]_vars

-----------------------------------------------------------------------------
Outcomes == Verdicts \cup {"none", "off_topic", "hallucinated", "not_found", "unreachable",
                           "judge_failed", "by_design", "mistagged"}
Judged == Verdicts \cup {"off_topic", "hallucinated"}

(* Every variable has its type, and a result of the judges names the source   *)
(* it rests on (api.py:188-307).                                             *)
TypeOK ==
  /\ at \in [Calls -> Awaits \cup {"idle", "done", "aborted"}]
  /\ claim \in [Calls -> [text : Texts, type : Types] \cup {NoClaim}]
  /\ found \in [Calls -> [source : Sources, body : Bodies] \cup {NotFound}]
  /\ outcome \in [Calls -> Outcomes]
  /\ current \in [Sources -> Bodies]
  /\ sources \in [Sources -> [body : Bodies \cup {0}, age : 0 .. Ttl + 1]]
  /\ localities \in [Sources \X Texts -> {"none", "relevant", "irrelevant"}]
  /\ entailments \in [Sources \X Texts \X SourcedTypes -> Entailments \cup {NoEntailment}]
  /\ together \in SUBSET (Sources \X Texts)
  /\ outrun \in SUBSET Calls
  /\ \A k \in Calls : outcome[k] \in Judged => found[k] # NotFound

Asked(k) == <<claim[k], found[k].source>>

(* The claim and the source decide the result, not the time it is asked for   *)
(* (cache.py:1-15): two calls of one claim that come to the same source get   *)
(* the same verdict, and the same result altogether if they saw the same      *)
(* body, unless two calls put that question to the judge at the same time.   *)
(* So a quote that did not match never becomes a verdict on that body later: *)
(* the entailment is cached before it is checked.                            *)
SameQuestionSameResult ==
  \A j, k \in Calls :
    Asked(j) = Asked(k) /\ <<found[j].source, claim[j].text>> \notin together =>
      /\ outcome[j] \in Verdicts /\ outcome[k] \in Verdicts => outcome[j] = outcome[k]
      /\ outcome[j] = "off_topic" => outcome[k] \notin Judged \ {"off_topic"}
      /\ {outcome[j], outcome[k]} \subseteq Judged /\ found[j].body = found[k].body =>
           outcome[j] = outcome[k]

(* The refresh of a source goes forward (cache.py:6-8): an entry is replaced  *)
(* by an older body only when a call's search was still under way while       *)
(* another call's put_source overtook it (api.py:192-198, 326).              *)
SourceAgesOnlyWhenOutrun ==
  [][ \A s \in Sources :
        sources'[s].body < sources[s].body =>
          \E k \in outrun : at[k] = "fetched" /\ at'[k] # "fetched" /\ found[k].source = s ]_vars
=============================================================================
