------------------------------ MODULE Challenge ------------------------------
(***************************************************************************)
(* Challenges to single Findings of one brief version, and the syntheses    *)
(* they lead to.  run_challenge awaits the scoped lens once; then, without  *)
(* another await, it saves the response Finding, the scoped LensRun and the *)
(* Challenge, each in a commit of its own, recomputes the synthesis and     *)
(* saves it.  Several calls may be awaiting their lens at the same time.    *)
(*                                                                          *)
(* Source: runtime/challenge.py, synthesis/synthesizer.py                   *)
(* (resolve_winning_findings), store/sqlite.py and store/memory.py.         *)
(***************************************************************************)
EXTENDS Integers, Sequences

CONSTANTS
  Originals,   \* Findings the rounds left in the store, with their LensRuns
  CallBound    \* bound: calls of run_challenge

Calls == 1 .. CallBound

ASSUME CallAssumption == CallBound \in Nat /\ Originals \cap Nat = {}

\* The change_reasons fall in two classes: the synthesizer looks at withdrawn only.
Accepted == {"revised", "withdrawn"}
Answers == Accepted \cup {"refused"}

\* The response Finding of a call, and its LensRun, go by the call's number.
Findings == Originals \cup Calls
NoTarget == 0

VARIABLES
  at,         \* at[k]: where the call is
  target,     \* target[k]: challenged_finding_ref; "supersedes" of its response
  answer,     \* answer[k]: the runner's outcome; "change_reason" of its response
  overtaken,  \* history: calls accepted when their target no longer won
  findings,   \* store: the saved response Findings
  runs,       \* store: the saved scoped LensRuns, in save order
  wired,      \* store: calls whose Challenge has its response_ref
  syntheses   \* store: the winners each saved Synthesis refers to, in save order

process == <<at, target, answer, overtaken>>
store == <<findings, runs, wired, syntheses>>
vars == <<process, store>>

\* A synthesis of the rounds' findings is what the researcher challenges.
Init ==
  /\ at = [k \in Calls |-> "idle"]
  /\ target = [k \in Calls |-> NoTarget]
  /\ answer = [k \in Calls |-> "none"]
  /\ overtaken = {}
  /\ findings = {}
  /\ runs = <<>>
  /\ wired = {}
  /\ syntheses = <<Originals>>

-----------------------------------------------------------------------------
IsAccepted(k) == answer[k] \in Accepted
HasRun(k) == \E i \in DOMAIN runs : runs[i] = k

\* Mutant: findings are listed without going through their LensRuns.
AllSaved == Originals \cup findings

\* list_findings_for_session: what the session's LensRuns refer to.
Visible == Originals \cup {k \in findings : HasRun(k)}

\* Mutant: tombstones are dropped before they can supersede.
WinningOfTheRest(S) ==
  LET rest == {f \in S : f \in Originals \/ answer[f] # "withdrawn"}
  IN  {f \in rest : \A k \in rest \cap Calls : target[k] # f}

\* Mutant: only a finding that wins supersedes.
WinningUnlessOutdone(S) ==
  LET outdone == {target[k] : k \in S \cap Calls}
      heirs == (S \cap Calls) \ outdone
  IN  {f \in S : /\ \A k \in heirs : target[k] # f
                 /\ f \in Originals \/ answer[f] # "withdrawn"}

\* resolve_winning_findings: neither superseded nor a tombstone.
Winning(S) ==
  {f \in S : /\ \A k \in S \cap Calls : target[k] # f
             /\ f \in Originals \/ answer[f] # "withdrawn"}

\* Mutant: only the runs of the dispatch events are synthesized.
DispatchedFindings == Originals

\* What make_resynthesizer's closure reads.
SynthesisInput == Visible

\* The steps of a call from its answer to its return have no await.
Unawaited == {"answered", "found", "ran", "wired"}
LoopFree == \A k \in Calls : at[k] \notin Unawaited

Goto(k, there) == at' = [at EXCEPT ![k] = there]

\* run_challenge is called: the finding exists and a LensRun on the current
\* brief emitted it, otherwise it raises at once.  Whether it still wins is
\* not asked.
Begin(k, f) ==
  /\ LoopFree
  /\ at[k] = "idle"
  /\ \A j \in Calls : j < k => at[j] # "idle"
  /\ f \in Visible
  /\ target' = [target EXCEPT ![k] = f]
  /\ Goto(k, "waiting")
  /\ UNCHANGED <<answer, overtaken, store>>

\* The lens answers and the call goes on.
Answer(k) ==
  /\ LoopFree
  /\ at[k] = "waiting"
  /\ \E a \in Answers :
       /\ answer' = [answer EXCEPT ![k] = a]
       /\ overtaken' = IF a \in Accepted /\ target[k] \notin Winning(Visible)
                       THEN overtaken \cup {k} ELSE overtaken
  /\ Goto(k, "answered")
  /\ UNCHANGED <<target, store>>

\* The runner raises; nothing has been saved.
RunnerRaises(k) ==
  /\ LoopFree
  /\ at[k] = "waiting"
  /\ Goto(k, "raised")
  /\ UNCHANGED <<target, answer, overtaken, store>>

SaveFinding(k) ==
  /\ at[k] = "answered"
  /\ IsAccepted(k)
  /\ findings' = findings \cup {k}
  /\ Goto(k, "found")
  /\ UNCHANGED <<target, answer, overtaken, runs, wired, syntheses>>

\* The scoped LensRun: of a refusal it is the first thing saved.
SaveRun(k) ==
  /\ at[k] = IF IsAccepted(k) THEN "found" ELSE "answered"
  /\ runs' = Append(runs, k)
  /\ Goto(k, "ran")
  /\ UNCHANGED <<target, answer, overtaken, findings, wired, syntheses>>

\* Mutant: the Challenge is saved with its response_ref before the LensRun.
SaveChallengeFirst(k) ==
  /\ at[k] \in {"found", "ran"}
  /\ wired' = wired \cup {k}
  /\ IF at[k] = "found" THEN UNCHANGED at
     ELSE Goto(k, IF IsAccepted(k) THEN "wired" ELSE "done")
  /\ UNCHANGED <<target, answer, overtaken, findings, runs, syntheses>>

\* The Challenge gets its response_ref; after a refusal that is all.
SaveChallenge(k) ==
  /\ at[k] = "ran"
  /\ wired' = wired \cup {k}
  /\ Goto(k, IF IsAccepted(k) THEN "wired" ELSE "done")
  /\ UNCHANGED <<target, answer, overtaken, findings, runs, syntheses>>

\* The synthesis is recomputed and saved, and the call returns.
Resynthesize(k) ==
  /\ at[k] = "wired"
  /\ syntheses' = Append(syntheses, Winning(SynthesisInput))
  /\ Goto(k, "done")
  /\ UNCHANGED <<target, answer, overtaken, findings, runs, wired>>

\* The embedder, the adjudicator or the narrator raises.
ResynthesisRaises(k) ==
  /\ at[k] = "wired"
  /\ Goto(k, "raised")
  /\ UNCHANGED <<target, answer, overtaken, store>>

\* The process dies between two commits, with all the calls under way.
Crash ==
  LET dying == {k \in Calls : at[k] \in Unawaited \cup {"waiting"}}
  IN  /\ dying # {}
      /\ at' = [k \in Calls |-> IF k \in dying THEN "lost" ELSE at[k]]
      /\ UNCHANGED <<target, answer, overtaken, store>>

\* The bounded researcher is through.
Finished ==
  /\ \A k \in Calls : at[k] \in {"done", "raised", "lost"}
  /\ UNCHANGED vars

Next ==
  \/ \E k \in Calls :
       \/ \E f \in Findings : Begin(k, f)
       \/ Answer(k)
       \/ RunnerRaises(k)
       \/ SaveFinding(k)
       \/ SaveRun(k)
       \/ SaveChallenge(k)
       \/ Resynthesize(k)
       \/ ResynthesisRaises(k)
  \/ Crash
  \/ Finished

Spec == Init /\ [][Next]_vars

-----------------------------------------------------------------------------
Places == {"idle", "waiting", "done", "raised", "lost"} \cup Unawaited

(* Every variable has its type, and the store is closed under reference: a    *)
(* response_ref names a saved LensRun, and a response supersedes a Finding    *)
(* that a saved LensRun emitted (challenge.py:338-353).                      *)
TypeOK ==
  /\ at \in [Calls -> Places]
  /\ target \in [Calls -> Findings \cup {NoTarget}]
  /\ answer \in [Calls -> Answers \cup {"none"}]
  /\ overtaken \in SUBSET Calls
  /\ findings \in SUBSET Calls
  /\ runs \in Seq(Calls)
  /\ wired \in SUBSET Calls
  /\ syntheses \in Seq(SUBSET Findings)
  /\ \A k \in wired : HasRun(k)
  /\ \A k \in findings : target[k] \in Visible

LastSynthesis == syntheses[Len(syntheses)]
Broken(k) == at[k] \in {"raised", "lost"}
NewestAccepted(k) ==
  \E i \in DOMAIN runs :
    /\ runs[i] = k
    /\ IsAccepted(k)
    /\ \A j \in DOMAIN runs : j > i => ~ IsAccepted(runs[j])

(* Re-synthesis fires on every accepted response (challenge.py:42-46): when   *)
(* no call is at work, the synthesis saved last refers to the current        *)
(* winners, however the calls overlapped, unless the call that saved the     *)
(* newest accepted LensRun died or raised before its own synthesis was       *)
(* saved.  A later accepted challenge makes good what an earlier one left.   *)
LastSynthesisIsCurrent ==
  LoopFree =>
    \/ LastSynthesis = Winning(Visible)
    \/ \E k \in Calls : NewestAccepted(k) /\ Broken(k)

(* The researcher reads a synthesis and challenges what it refers to: every   *)
(* finding of the synthesis saved last has its LensRun in the store, so      *)
(* _resolve_emitting_run (challenge.py:199-216) finds it, also when a        *)
(* response Finding was saved and its process died before the LensRun was.   *)
ReadIsChallengeable ==
  \A f \in LastSynthesis : f \in Originals \/ HasRun(f)

(* "Stored but not shown" is for good (synthesizer.py:249-265): a finding     *)
(* that was superseded or withdrawn never wins again, whatever happens to    *)
(* the response that superseded it.                                          *)
LostIsLost ==
  [][ \A f \in Visible \ Winning(Visible) : f \notin Winning(Visible)' ]_vars

(* A claim has one heir: two responses supersede the same finding only if one *)
(* of them came in when that finding had already lost - two challenges that   *)
(* overlapped, or one that named a superseded finding.                       *)
OneHeirUnlessOvertaken ==
  \A j, k \in findings \ overtaken :
    HasRun(j) /\ HasRun(k) /\ target[j] = target[k] => j = k

\* get_latest_synthesis: of the syntheses with the highest brief version (here
\* all of them), both stores return the one saved first.
Shown == syntheses[1]

(* challenge.py:44-46: the orchestrator re-synthesizes "so the synthesis the  *)
(* researcher reads always reflects the current winning set".                *)
ReaderSeesTheWinners ==
  LoopFree /\ (\A k \in Calls : ~ Broken(k)) => Shown = Winning(Visible)
=============================================================================
