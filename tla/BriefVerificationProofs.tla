------------------------ MODULE BriefVerificationProofs ------------------------
(***************************************************************************)
(* Which result the verification stream can hold, for any claims and any    *)
(* number of resubmissions.                                                 *)
(*                                                                          *)
(* What a reap stores is decided when the gather starts, so the invariant   *)
(* has to follow the gathered tasks through every resubmission: a gathered  *)
(* task that is not the claim's latest any more was cancelled or raised     *)
(* (then nothing is stored) or its claim is overtaken.                      *)
(***************************************************************************)
EXTENDS BriefVerification, TLAPS

\* Only the latest task of a claim can be in flight, and it was started.
TaskInv ==
  \A c \in Claims :
    /\ latest[c] # 0 => task[c][latest[c]] # "none"
    /\ \A v \in Submits : v # latest[c] => task[c][v] # "running"

GatherInv ==
  \A c \in Claims : gathered[c] # 0 =>
    /\ results[c] = 0
    /\ gathered[c] \in Submits
    /\ Outcome(c) # "none"
    /\ \/ gathered[c] = latest[c]
       \/ Outcome(c) \in {"cancelled", "raised"}
       \/ c \in overtaken

AcceptedInv == \A c \in accepted : results[c] # 0

IInv ==
  /\ TypeOK
  /\ TaskInv
  /\ GatherInv
  /\ AcceptedInv
  /\ StaleOnlyIfOvertaken

USE StatusAssumption, SubmitAssumption DEF StatusAssumption, SubmitAssumption, Statuses, Submits

LEMMA IInvInit == Init => IInv
BY DEF Init, IInv, TypeOK, TaskInv, GatherInv, AcceptedInv, StaleOnlyIfOvertaken, Nothing

LEMMA SubmitStep ==
  ASSUME IInv, NEW c \in Claims, Submit(c)
  PROVE  IInv'
<1> USE DEF IInv
<1>1. PICK new \in Submits : new = latest[c] + 1
  BY DEF Submit, StartTask
<1>2. /\ latest' = [latest EXCEPT ![c] = new]
      /\ results' = [results EXCEPT ![c] = 0]
      /\ accepted' = accepted \ {c}
      /\ gathered' = gathered
      /\ overtaken' = IF gathered[c] # 0 /\ Outcome(c) \in Statuses
                      THEN overtaken \cup {c} ELSE overtaken \ {c}
  BY <1>1 DEF Submit, StartTask
<1>3. /\ task' = [task EXCEPT ![c] =
                   [v \in Submits |->
                      IF v = new THEN "running"
                      ELSE IF v = latest[c] /\ task[c][v] = "running" THEN "cancelled"
                      ELSE task[c][v]]]
  BY <1>1 DEF Submit, StartTask
<1>4. /\ \A d \in Claims : d # c =>
           /\ latest'[d] = latest[d] /\ results'[d] = results[d] /\ task'[d] = task[d]
           /\ (d \in overtaken' <=> d \in overtaken)
      /\ latest'[c] = new /\ results'[c] = 0
      /\ \A v \in Submits :
           task'[c][v] = IF v = new THEN "running"
                         ELSE IF v = latest[c] /\ task[c][v] = "running" THEN "cancelled"
                         ELSE task[c][v]
  BY <1>2, <1>3 DEF TypeOK
<1>5. TypeOK'
  BY <1>2, <1>3, <1>4 DEF TypeOK, ResultStatus
<1>6. TaskInv'
  BY <1>1, <1>4 DEF TaskInv, TypeOK
<1>7. GatherInv'
  <2>1. ASSUME NEW d \in Claims, d # c, gathered[d] # 0
        PROVE  /\ results'[d] = 0
               /\ gathered[d] \in Submits
               /\ task'[d][gathered[d]] # "none"
               /\ \/ gathered[d] = latest'[d]
                  \/ task'[d][gathered[d]] \in {"cancelled", "raised"}
                  \/ d \in overtaken'
    BY <1>4, <2>1 DEF GatherInv, Outcome
  <2>2. ASSUME gathered[c] # 0
        PROVE  /\ results'[c] = 0
               /\ gathered[c] \in Submits
               /\ task'[c][gathered[c]] # "none"
               /\ \/ gathered[c] = latest'[c]
                  \/ task'[c][gathered[c]] \in {"cancelled", "raised"}
                  \/ c \in overtaken'
    <3> DEFINE g == gathered[c]
    <3>1. g \in Submits /\ task[c][g] # "none"
      BY <2>2 DEF GatherInv, Outcome
    <3>2. CASE g = new
      BY <1>4, <3>1, <3>2
    <3>3. CASE g # new /\ task[c][g] = "running"
      <4>1. g = latest[c]
        BY <3>1, <3>3 DEF TaskInv
      <4> QED
        BY <1>4, <3>1, <3>3, <4>1
    <3>4. CASE g # new /\ task[c][g] \in Statuses
      BY <1>2, <1>4, <2>2, <3>1, <3>4 DEF Outcome
    <3>5. CASE g # new /\ task[c][g] \in {"cancelled", "raised"}
      BY <1>4, <3>1, <3>5
    <3>6. task[c][g] \in Statuses \cup {"none", "running", "cancelled", "raised"}
      BY <3>1 DEF TypeOK
    <3> QED
      BY <1>4, <3>1, <3>2, <3>3, <3>4, <3>5, <3>6
  <2> QED
    BY <1>2, <2>1, <2>2 DEF GatherInv, Outcome
<1>8. AcceptedInv'
  BY <1>2, <1>4 DEF AcceptedInv, TypeOK
<1>9. StaleOnlyIfOvertaken'
  BY <1>4 DEF StaleOnlyIfOvertaken
<1> QED
  BY <1>5, <1>6, <1>7, <1>8, <1>9

LEMMA EndTaskStep ==
  ASSUME IInv, NEW c \in Claims, NEW v \in Submits, EndTask(c, v)
  PROVE  IInv'
<1> USE DEF IInv
<1>1. PICK end \in Statuses \cup {"raised"} : task' = [task EXCEPT ![c][v] = end]
  BY DEF EndTask
<1>2. /\ task[c][v] = "running"
      /\ UNCHANGED <<latest, results, accepted, gathered, overtaken>>
  BY DEF EndTask
<1>3. \A d \in Claims : \A w \in Submits :
        task'[d][w] = IF d = c /\ w = v THEN end ELSE task[d][w]
  BY <1>1 DEF TypeOK
<1>4. TypeOK'
  <2>1. task' \in [Claims -> [Submits -> Statuses \cup {"none", "running", "cancelled", "raised"}]]
    BY <1>1 DEF TypeOK
  <2>2. \A d \in Claims : results[d] # 0 => task'[d][results[d]] \in Statuses
    BY <1>2, <1>3 DEF TypeOK, ResultStatus
  <2> QED
    BY <1>2, <2>1, <2>2 DEF TypeOK, ResultStatus
<1>5. TaskInv'
  <2>1. \A d \in Claims : latest[d] # 0 => latest[d] \in Submits
    BY DEF TypeOK
  <2>2. end # "none" /\ end # "running"
    OBVIOUS
  <2>3. \A d \in Claims : latest[d] # 0 => task'[d][latest[d]] # "none"
    BY <1>3, <2>1, <2>2 DEF TaskInv
  <2>4. \A d \in Claims : \A w \in Submits : w # latest[d] => task'[d][w] # "running"
    BY <1>3, <2>2 DEF TaskInv
  <2> QED
    BY <1>2, <2>3, <2>4 DEF TaskInv
<1>6. GatherInv'
  BY <1>2, <1>3 DEF GatherInv, Outcome
<1>7. (AcceptedInv /\ StaleOnlyIfOvertaken)'
  BY <1>2 DEF AcceptedInv, StaleOnlyIfOvertaken
<1> QED
  BY <1>4, <1>5, <1>6, <1>7

LEMMA ReapStep ==
  ASSUME IInv, Reap
  PROVE  IInv'
<1> USE DEF IInv
<1>1. /\ \A c \in Claims : results'[c] = IF gathered[c] # 0 THEN gathered[c] ELSE results[c]
      /\ \A c \in Claims : gathered[c] # 0 => Outcome(c) \in Statuses
      /\ results' = [c \in Claims |-> IF c \in Gathered THEN gathered[c] ELSE results[c]]
      /\ gathered' = Nothing
      /\ UNCHANGED <<latest, task, accepted, overtaken>>
  BY DEF Reap, Gathered
<1>2. TypeOK'
  BY <1>1 DEF TypeOK, ResultStatus, Outcome, Nothing
<1>3. (TaskInv /\ GatherInv /\ AcceptedInv)'
  BY <1>1 DEF TaskInv, GatherInv, AcceptedInv, Nothing, TypeOK
<1>4. StaleOnlyIfOvertaken'
  BY <1>1 DEF GatherInv, StaleOnlyIfOvertaken
<1> QED
  BY <1>2, <1>3, <1>4

LEMMA IInvNext == IInv /\ [Next]_vars => IInv'
<1> SUFFICES ASSUME IInv, [Next]_vars
             PROVE  IInv'
  OBVIOUS
<1> USE DEF IInv
<1>1. CASE Await
  <2>1. /\ \A c \in Claims : gathered'[c] = IF c \in Pending THEN latest[c] ELSE 0
        /\ gathered' = [c \in Claims |-> IF c \in Pending THEN latest[c] ELSE 0]
        /\ UNCHANGED <<latest, task, results, accepted, overtaken>>
    BY <1>1 DEF Await
  <2>2. GatherInv'
    BY <2>1 DEF GatherInv, Outcome, Pending, TaskInv, TypeOK
  <2> QED
    BY <2>1, <2>2 DEF TypeOK, TaskInv, AcceptedInv, StaleOnlyIfOvertaken, ResultStatus
<1>2. CASE AwaitRaises
  BY <1>2 DEF AwaitRaises, TypeOK, TaskInv, GatherInv, AcceptedInv, StaleOnlyIfOvertaken,
              ResultStatus, Outcome, Nothing
<1>3. ASSUME NEW c \in Claims, AcceptUnverified(c)
      PROVE  IInv'
  BY <1>3 DEF AcceptUnverified, TypeOK, TaskInv, GatherInv, AcceptedInv, StaleOnlyIfOvertaken,
              ResultStatus, Outcome
<1>4. CASE UNCHANGED vars
  BY <1>4 DEF vars, TypeOK, TaskInv, GatherInv, AcceptedInv, StaleOnlyIfOvertaken,
              ResultStatus, Outcome
<1> QED
  BY <1>1, <1>2, <1>3, <1>4, SubmitStep, EndTaskStep, ReapStep DEF Next

LEMMA IInvHolds == Spec => []IInv
BY IInvInit, IInvNext, PTL DEF Spec

(* Every variable keeps its type and only verification outcomes are stored,   *)
(* whatever raises and whatever is cancelled.                                *)
THEOREM TypeCorrect == Spec => []TypeOK
<1>1. IInv => TypeOK
  BY DEF IInv
<1> QED
  BY <1>1, IInvHolds, PTL

(* A result of an earlier submit is only ever stored by a gather that had its *)
(* outcome before the resubmission.                                          *)
THEOREM StaleResultsAreOvertaken == Spec => []StaleOnlyIfOvertaken
<1>1. IInv => StaleOnlyIfOvertaken
  BY DEF IInv
<1> QED
  BY <1>1, IInvHolds, PTL

(* problems() and apply_to agree on what is settled.                          *)
THEOREM SettledIsApplied == Spec => []SettledMeansApplied
<1>1. ASSUME IInv
      PROVE  SettledMeansApplied
  <2> SUFFICES ASSUME Pending = {}, Problems = {}, NEW c \in Claims, latest[c] # 0
               PROVE  AppliedStatus(c) # "unchanged"
    BY DEF SettledMeansApplied
  <2>1. results[c] # 0
    BY DEF Pending
  <2>2. ResultStatus(c) \in Statuses
    BY <1>1, <2>1 DEF IInv, TypeOK
  <2>3. ResultStatus(c) \in ProblemStatuses => c \in accepted
    BY <2>1 DEF Problems
  <2>4. CASE ResultStatus(c) \in CleanStatuses
    BY <2>1, <2>4 DEF AppliedStatus
  <2>5. CASE ResultStatus(c) \in ProblemStatuses
    BY <2>1, <2>3, <2>5 DEF AppliedStatus
  <2> QED
    BY <2>2, <2>4, <2>5
<1> QED
  BY <1>1, IInvHolds, PTL

(* While a claim stays accepted, the result the user accepted stays too.      *)
THEOREM AcceptancesHold == Spec => AcceptedAsSeen
<1>1. IInv /\ [Next]_vars =>
        \/ \A c \in accepted : c \in accepted' => results'[c] = results[c]
        \/ UNCHANGED vars
  <2> SUFFICES ASSUME IInv, Next, NEW c \in accepted, c \in accepted'
               PROVE  results'[c] = results[c]
    OBVIOUS
  <2>1. c \in Claims /\ results[c] # 0 /\ gathered[c] = 0
    BY DEF IInv, TypeOK, AcceptedInv, GatherInv
  <2>2. ASSUME NEW d \in Claims, Submit(d)
        PROVE  results'[c] = results[c]
    BY <2>1, <2>2 DEF Submit, IInv, TypeOK
  <2>3. CASE Reap
    BY <2>1, <2>3 DEF Reap, Gathered
  <2>4. CASE ~ Reap /\ ~ \E d \in Claims : Submit(d)
    BY <2>4 DEF Next, AcceptUnverified, EndTask, Await, AwaitRaises
  <2> QED
    BY <2>2, <2>3, <2>4
<1> QED
  BY <1>1, IInvHolds, PTL DEF Spec, AcceptedAsSeen
=============================================================================
