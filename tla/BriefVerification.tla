--------------------------- MODULE BriefVerification ---------------------------
(***************************************************************************)
(* The background verification of an intake's claims                        *)
(* (domain/brief_verification.py, BriefVerificationStream): every submit    *)
(* starts a verification task and supersedes the claim's earlier one,       *)
(* await_completion gathers the claims that have no result yet, and the     *)
(* user accepts problems.  All of it shares one event loop with the intake  *)
(* conversation, so a claim may be resubmitted while await_completion is    *)
(* suspended in its gather.                                                 *)
(***************************************************************************)
EXTENDS Integers

CONSTANTS
  Claims,           \* FindingIds of the background claims
  CleanStatuses,    \* outcomes that need no triage
  ProblemStatuses,  \* _PROBLEM_STATUSES
  SubmitBound       \* bound: times one claim is submitted

ASSUME StatusAssumption ==
  /\ CleanStatuses \cap ProblemStatuses = {}
  /\ {"none", "running", "cancelled", "raised", "unchanged"} \cap
       (CleanStatuses \cup ProblemStatuses) = {}
ASSUME SubmitAssumption == SubmitBound \in Nat

Statuses == CleanStatuses \cup ProblemStatuses
Submits == 1 .. SubmitBound

VARIABLES
  latest,     \* _tasks: the submit whose task is registered for the claim, or 0
  task,       \* task[c][v]: the task the v-th submit of claim c created
  results,    \* _results: the submit whose task's result is stored, or 0
  accepted,   \* _accepted_unverified
  gathered,   \* await_completion's local "pending": the submit gathered, or 0
  overtaken   \* history: claims resubmitted after the gather had their outcome

vars == <<latest, task, results, accepted, gathered, overtaken>>

Nothing == [c \in Claims |-> 0]

Init ==
  /\ latest = Nothing
  /\ task = [c \in Claims |-> [v \in Submits |-> "none"]]
  /\ results = Nothing
  /\ accepted = {}
  /\ gathered = Nothing
  /\ overtaken = {}

-----------------------------------------------------------------------------
Awaiting == gathered # Nothing
Gathered == {c \in Claims : gathered[c] # 0}
Outcome(c) == task[c][gathered[c]]

\* Mutant: the gather is over the tasks still in flight.
InFlight == {c \in Claims : latest[c] # 0 /\ task[c][latest[c]] = "running"}

\* The claims await_completion has to wait for.
Pending == {c \in Claims : latest[c] # 0 /\ results[c] = 0}

StartTask(c) ==
  LET prior == latest[c]
      new == prior + 1
  IN /\ new \in Submits
     /\ latest' = [latest EXCEPT ![c] = new]
     /\ task' = [task EXCEPT ![c] =
                   [v \in Submits |->
                      IF v = new THEN "running"
                      ELSE IF v = prior /\ @[v] = "running" THEN "cancelled"
                      ELSE @[v]]]
     /\ overtaken' = IF gathered[c] # 0 /\ Outcome(c) \in Statuses
                     THEN overtaken \cup {c} ELSE overtaken \ {c}

\* Mutant: the claim's earlier result is kept until the new one is reaped.
SubmitKeepingResult(c) ==
  /\ StartTask(c)
  /\ accepted' = accepted \ {c}
  /\ UNCHANGED <<results, gathered>>

\* Mutant: the acceptance survives the fix.
SubmitKeepingAcceptance(c) ==
  /\ StartTask(c)
  /\ results' = [results EXCEPT ![c] = 0]
  /\ UNCHANGED <<accepted, gathered>>

\* submit: cancels the prior task if it is in flight, forgets the result and
\* the acceptance, and starts a new task.
Submit(c) ==
  /\ StartTask(c)
  /\ results' = [results EXCEPT ![c] = 0]
  /\ accepted' = accepted \ {c}
  /\ UNCHANGED gathered

\* verify returns a result, or raises (an exception no handler of verify takes).
EndTask(c, v) ==
  /\ task[c][v] = "running"
  /\ \E end \in Statuses \cup {"raised"} : task' = [task EXCEPT ![c][v] = end]
  /\ UNCHANGED <<latest, results, accepted, gathered, overtaken>>

\* await_completion snapshots the tasks without a result and suspends.  The
\* orchestrator awaits one call at a time.
Await ==
  /\ ~ Awaiting
  /\ Pending # {}
  /\ gathered' = [c \in Claims |-> IF c \in Pending THEN latest[c] ELSE 0]
  /\ UNCHANGED <<latest, task, results, accepted, overtaken>>

\* Mutant: gather(return_exceptions=True), stored like any other outcome.
ReapAnyEnd ==
  /\ Awaiting
  /\ \A c \in Gathered : Outcome(c) # "running"
  /\ results' = [c \in Claims |-> IF c \in Gathered THEN gathered[c] ELSE results[c]]
  /\ gathered' = Nothing
  /\ UNCHANGED <<latest, task, accepted, overtaken>>

\* Every gathered task returned: its results are stored under the claim.
Reap ==
  /\ Awaiting
  /\ \A c \in Gathered : Outcome(c) \in Statuses
  /\ results' = [c \in Claims |-> IF c \in Gathered THEN gathered[c] ELSE results[c]]
  /\ gathered' = Nothing
  /\ UNCHANGED <<latest, task, accepted, overtaken>>

\* gather passes on the first exception or cancellation; no result is stored.
AwaitRaises ==
  /\ Awaiting
  /\ \E c \in Gathered : Outcome(c) \in {"raised", "cancelled"}
  /\ gathered' = Nothing
  /\ UNCHANGED <<latest, task, results, accepted, overtaken>>

\* accept_unverified refuses a claim without a result.
AcceptUnverified(c) ==
  /\ results[c] # 0
  /\ accepted' = accepted \cup {c}
  /\ UNCHANGED <<latest, task, results, gathered, overtaken>>

Next ==
  \/ \E c \in Claims :
       \/ Submit(c)
       \/ AcceptUnverified(c)
       \/ \E v \in Submits : EndTask(c, v)
  \/ Await
  \/ Reap
  \/ AwaitRaises

Spec == Init /\ [][Next]_vars

(* Fairness: every verify ends (its retries are counted), the loop resumes a  *)
(* finished gather, and the orchestrator keeps awaiting while claims lack a  *)
(* result.  Nobody need submit or accept.                                    *)
FairSpec ==
  /\ Spec
  /\ WF_vars(Await)
  /\ WF_vars(Reap)
  /\ WF_vars(AwaitRaises)
  /\ \A c \in Claims, v \in Submits : WF_vars(EndTask(c, v))

-----------------------------------------------------------------------------
ResultStatus(c) == task[c][results[c]]

\* Mutant: a verifier that broke down is not the user's problem.
ContradictedOnly ==
  {c \in Claims : results[c] # 0 /\ ResultStatus(c) = "contradicted" /\ c \notin accepted}

\* problems(): what the user still has to triage.
Problems ==
  {c \in Claims : results[c] # 0 /\ ResultStatus(c) \in ProblemStatuses /\ c \notin accepted}

\* apply_to: the verification_status the claim's Finding is given.
AppliedStatus(c) ==
  CASE results[c] = 0 -> "unchanged"
    [] results[c] # 0 /\ ResultStatus(c) \in CleanStatuses -> ResultStatus(c)
    [] results[c] # 0 /\ ResultStatus(c) \in ProblemStatuses ->
         IF c \in accepted THEN "unverified" ELSE "unchanged"

(* Every variable has its type, and what _results holds is an outcome of      *)
(* verify, never an exception or a cancellation.                             *)
TypeOK ==
  /\ latest \in [Claims -> 0 .. SubmitBound]
  /\ task \in [Claims -> [Submits -> Statuses \cup {"none", "running", "cancelled", "raised"}]]
  /\ results \in [Claims -> 0 .. SubmitBound]
  /\ accepted \in SUBSET Claims
  /\ gathered \in [Claims -> 0 .. SubmitBound]
  /\ overtaken \in SUBSET Claims
  /\ \A c \in Claims : results[c] # 0 => ResultStatus(c) \in Statuses

(* A stored result belongs to the claim as last submitted, except for a claim *)
(* resubmitted between the end of its task and the end of the gather that    *)
(* was waiting for it (brief_verification.py:116-121 and 132-139).           *)
StaleOnlyIfOvertaken ==
  \A c \in Claims : results[c] \in {0, latest[c]} \/ c \in overtaken

(* An acceptance holds for the very result the user saw: while a claim stays  *)
(* accepted, its result does not change under it.                            *)
AcceptedAsSeen ==
  [][ \A c \in accepted : c \in accepted' => results'[c] = results[c] ]_vars

(* When await_completion has nothing left to wait for and problems() is       *)
(* empty, apply_to leaves no submitted claim as it was: the triage list and  *)
(* the rewriting agree on what is settled.                                   *)
SettledMeansApplied ==
  Pending = {} /\ Problems = {} =>
    \A c \in Claims : latest[c] # 0 => AppliedStatus(c) # "unchanged"

Poisoned == \E c \in Claims : latest[c] # 0 /\ task[c][latest[c]] = "raised"

(* A submitted claim gets a result, whatever is resubmitted while an          *)
(* await_completion is suspended, unless a verify raised: one such task makes *)
(* every later gather fail for all the claims.                               *)
ClaimsGetResults ==
  \A c \in Claims : latest[c] # 0 ~> results[c] # 0 \/ Poisoned

(* submit's docstring (brief_verification.py:110-113): resubmitting discards  *)
(* the prior task's result, and the next await_completion reaps the new task. *)
NoResultOfPriorTask ==
  \A c \in Claims : results[c] \in {0, latest[c]}
=============================================================================
