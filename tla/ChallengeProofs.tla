---------------------------- MODULE ChallengeProofs ----------------------------
(***************************************************************************)
(* What challenges do to the winning findings and the synthesis, for any    *)
(* findings and any number of calls, however they overlap and break off.    *)
(*                                                                          *)
(* The steps of a call after its await run alone (Alone), so the winners    *)
(* the lens was judged against still stand when its response appears        *)
(* (StillWins), and between that moment and the next synthesis only the     *)
(* call that saved the newest accepted LensRun can be at work (Newest).     *)
(* What the reader is shown is the first synthesis, and the first response  *)
(* supersedes a finding of the rounds (FirstFell).                          *)
(***************************************************************************)
EXTENDS Challenge, TLAPS

\* What the store and the call's locals hold at each point of a call.
Progress ==
  \A k \in Calls :
    /\ at[k] # "idle" => target[k] \in Visible
    /\ at[k] \in {"idle", "waiting"} => answer[k] = "none"
    /\ at[k] \in Unawaited => answer[k] \in Answers
    /\ at[k] \in {"idle", "waiting", "answered"} => k \notin findings
    /\ at[k] \in {"idle", "waiting", "answered", "found"} => ~ HasRun(k)
    /\ at[k] \in {"ran", "wired"} => HasRun(k)
    /\ at[k] \in {"found", "wired"} => IsAccepted(k)
    /\ at[k] = "found" => k \in findings
    /\ k \in findings => IsAccepted(k)
    /\ HasRun(k) /\ IsAccepted(k) => k \in findings

Alone == \A j, k \in Calls : at[j] \in Unawaited /\ at[k] \in Unawaited => j = k

StillWins ==
  \A k \in Calls :
    at[k] \in {"answered", "found"} /\ IsAccepted(k) /\ k \notin overtaken =>
      target[k] \in Winning(Visible)

Uncovered(k) == at[k] \in {"ran", "wired"} /\ IsAccepted(k)

Newest == \A k \in Calls : Uncovered(k) => NewestAccepted(k)

Covered ==
  \/ LastSynthesis = Winning(Visible)
  \/ \E k \in Calls : NewestAccepted(k) /\ (Broken(k) \/ Uncovered(k))

Read == syntheses # <<>> /\ LastSynthesis \subseteq Visible

IInv ==
  /\ TypeOK
  /\ Progress
  /\ Alone
  /\ StillWins
  /\ Newest
  /\ Covered
  /\ Read
  /\ OneHeirUnlessOvertaken

USE CallAssumption DEF Calls

LEMMA RunAdded ==
  ASSUME runs \in Seq(Calls), NEW k \in Calls, runs' = Append(runs, k)
  PROVE  /\ runs' \in Seq(Calls)
         /\ \A j \in Calls : HasRun(j)' <=> HasRun(j) \/ j = k
         /\ IsAccepted(k)' => NewestAccepted(k)'
<1>1. /\ runs' \in Seq(Calls)
      /\ DOMAIN runs = 1 .. Len(runs)
      /\ DOMAIN runs' = 1 .. (Len(runs) + 1)
      /\ \A i \in 1 .. Len(runs) : runs'[i] = runs[i]
      /\ runs'[Len(runs) + 1] = k
      /\ Len(runs) \in Nat
  OBVIOUS
<1>2. \A j \in Calls : HasRun(j)' <=> HasRun(j) \/ j = k
  BY <1>1 DEF HasRun
<1>3. IsAccepted(k)' => NewestAccepted(k)'
  BY <1>1 DEF NewestAccepted
<1> QED
  BY <1>1, <1>2, <1>3

\* A saved refusal leaves the newest accepted LensRun the newest.
LEMMA RefusalAdded ==
  ASSUME runs \in Seq(Calls), NEW k \in Calls, runs' = Append(runs, k),
         answer' = answer, ~ IsAccepted(k), NEW j \in Calls, NewestAccepted(j)
  PROVE  NewestAccepted(j)'
<1>1. /\ DOMAIN runs = 1 .. Len(runs)
      /\ DOMAIN runs' = 1 .. (Len(runs) + 1)
      /\ \A i \in 1 .. Len(runs) : runs'[i] = runs[i]
      /\ runs'[Len(runs) + 1] = k
      /\ Len(runs) \in Nat
  OBVIOUS
<1> QED
  BY <1>1 DEF NewestAccepted, IsAccepted

\* The winners depend on the visible responses alone.
LEMMA SameWinners ==
  ASSUME findings \in SUBSET Calls, Visible' = Visible,
         \A k \in findings : target'[k] = target[k] /\ answer'[k] = answer[k]
  PROVE  Winning(Visible)' = Winning(Visible)
<1>1. \A f \in Visible : f \in Originals \/ f \in findings
  BY DEF Visible
<1>2. \A k \in Visible \cap Calls : target'[k] = target[k] /\ answer'[k] = answer[k]
  BY <1>1, CallAssumption
<1> QED
  BY <1>1, <1>2 DEF Winning

LEMMA IInvInit == Init => IInv
<1> SUFFICES ASSUME Init PROVE IInv
  OBVIOUS
<1>1. runs = <<>> /\ DOMAIN runs = {} /\ findings = {} /\ syntheses = <<Originals>>
  BY DEF Init
<1>2. Visible = Originals /\ LastSynthesis = Originals
  BY <1>1 DEF Visible, LastSynthesis
<1>3. Winning(Visible) = Originals
  BY <1>2, CallAssumption DEF Winning, Calls
<1>4. TypeOK
  BY <1>1 DEF Init, TypeOK, Places, Findings
<1> QED
  BY <1>1, <1>2, <1>3, <1>4
     DEF Init, IInv, Progress, Alone, StillWins, Newest, Covered, Read, HasRun, IsAccepted,
         Accepted, Uncovered, OneHeirUnlessOvertaken, Unawaited

LEMMA BeginStep ==
  ASSUME IInv, NEW k \in Calls, NEW f \in Findings, Begin(k, f)
  PROVE  IInv'
<1> USE DEF IInv
<1>1. /\ target' = [target EXCEPT ![k] = f] /\ at' = [at EXCEPT ![k] = "waiting"]
      /\ UNCHANGED <<answer, overtaken, findings, runs, wired, syntheses>>
      /\ at[k] = "idle" /\ f \in Visible /\ LoopFree
  BY DEF Begin, Goto, store
<1>2. /\ Visible' = Visible /\ LastSynthesis' = LastSynthesis
      /\ \A j \in Calls : HasRun(j)' = HasRun(j) /\ IsAccepted(j)' = IsAccepted(j)
      /\ \A j \in Calls : NewestAccepted(j)' = NewestAccepted(j)
  BY <1>1 DEF Visible, LastSynthesis, HasRun, IsAccepted, NewestAccepted
<1>3. k \notin findings /\ ~ HasRun(k)
  BY <1>1 DEF Progress
<1>4. Winning(Visible)' = Winning(Visible)
  BY <1>1, <1>2, <1>3, SameWinners DEF TypeOK
<1>5. TypeOK'
  BY <1>1, <1>2, <1>3 DEF TypeOK, Places
<1>6. Progress'
  BY <1>1, <1>2, <1>3 DEF Progress, TypeOK, Unawaited
<1>7. Alone' /\ StillWins' /\ Newest' /\ Covered' /\ Read'
  BY <1>1, <1>2, <1>4 DEF Alone, StillWins, Newest, Covered, Read, TypeOK, Unawaited, LoopFree,
                          Uncovered, Broken
<1>8. OneHeirUnlessOvertaken'
  BY <1>1, <1>2, <1>3 DEF OneHeirUnlessOvertaken, TypeOK
<1> QED
  BY <1>5, <1>6, <1>7, <1>8

LEMMA AnswerStep ==
  ASSUME IInv, NEW k \in Calls, Answer(k)
  PROVE  IInv'
<1> USE DEF IInv
<1>1. PICK a \in Answers :
        /\ answer' = [answer EXCEPT ![k] = a]
        /\ overtaken' = IF a \in Accepted /\ target[k] \notin Winning(Visible)
                        THEN overtaken \cup {k} ELSE overtaken
  BY DEF Answer
<1>2. /\ at' = [at EXCEPT ![k] = "answered"]
      /\ UNCHANGED <<target, findings, runs, wired, syntheses>>
      /\ at[k] = "waiting" /\ LoopFree
  BY DEF Answer, Goto, store
<1>3. k \notin findings /\ ~ HasRun(k) /\ ~ IsAccepted(k)
  BY <1>2 DEF Progress, IsAccepted, Accepted
<1>4. /\ Visible' = Visible /\ LastSynthesis' = LastSynthesis
      /\ \A j \in Calls : HasRun(j)' = HasRun(j)
      /\ \A j \in Calls : j # k => IsAccepted(j)' = IsAccepted(j)
  BY <1>1, <1>2 DEF Visible, LastSynthesis, HasRun, IsAccepted, TypeOK
<1>5. \A i \in DOMAIN runs : runs[i] \in Calls /\ runs[i] # k
  BY <1>3 DEF HasRun, TypeOK
<1>6. \A j \in Calls : NewestAccepted(j)' = NewestAccepted(j)
  BY <1>2, <1>4, <1>5 DEF NewestAccepted
<1>7. Winning(Visible)' = Winning(Visible)
  BY <1>1, <1>2, <1>3, <1>4, SameWinners DEF TypeOK
<1>8. TypeOK'
  BY <1>1, <1>2, <1>4 DEF TypeOK, Places, Unawaited
<1>9. Progress'
  BY <1>1, <1>2, <1>3, <1>4 DEF Progress, TypeOK, Unawaited
<1>10. Alone'
  BY <1>2 DEF Alone, TypeOK, Unawaited, LoopFree
<1>11. StillWins'
  BY <1>1, <1>2, <1>4, <1>7 DEF StillWins, TypeOK, IsAccepted, LoopFree, Unawaited
<1>12. Newest' /\ Covered' /\ Read'
  BY <1>2, <1>4, <1>6, <1>7 DEF Newest, Covered, Read, TypeOK, Uncovered, Broken
<1>13. OneHeirUnlessOvertaken'
  BY <1>1, <1>2, <1>3, <1>4 DEF OneHeirUnlessOvertaken, TypeOK
<1> QED
  BY <1>8, <1>9, <1>10, <1>11, <1>12, <1>13

LEMMA SaveFindingStep ==
  ASSUME IInv, NEW k \in Calls, SaveFinding(k)
  PROVE  IInv'
<1> USE DEF IInv
<1>1. /\ findings' = findings \cup {k} /\ at' = [at EXCEPT ![k] = "found"]
      /\ UNCHANGED <<target, answer, overtaken, runs, wired, syntheses>>
      /\ at[k] = "answered" /\ IsAccepted(k)
  BY DEF SaveFinding, Goto
<1>2. ~ HasRun(k) /\ k \notin findings /\ target[k] \in Visible
  BY <1>1 DEF Progress
<1>3. /\ Visible' = Visible /\ LastSynthesis' = LastSynthesis
      /\ \A j \in Calls : HasRun(j)' = HasRun(j) /\ IsAccepted(j)' = IsAccepted(j)
      /\ \A j \in Calls : NewestAccepted(j)' = NewestAccepted(j)
  BY <1>1, <1>2 DEF Visible, LastSynthesis, HasRun, IsAccepted, NewestAccepted
<1>4. Winning(Visible)' = Winning(Visible)
  BY <1>1, <1>3, SameWinners DEF TypeOK
<1>5. TypeOK'
  BY <1>1, <1>2, <1>3 DEF TypeOK, Places, Unawaited
<1>6. Progress'
  BY <1>1, <1>2, <1>3 DEF Progress, TypeOK, Unawaited
<1>7. Alone'
  BY <1>1 DEF Alone, TypeOK, Unawaited
<1>8. StillWins' /\ Newest' /\ Covered' /\ Read'
  BY <1>1, <1>3, <1>4 DEF StillWins, Newest, Covered, Read, TypeOK, Uncovered, Broken
<1>9. OneHeirUnlessOvertaken'
  BY <1>1, <1>2, <1>3 DEF OneHeirUnlessOvertaken, TypeOK
<1> QED
  BY <1>5, <1>6, <1>7, <1>8, <1>9
LEMMA SaveRunStep ==
  ASSUME IInv, NEW k \in Calls, SaveRun(k)
  PROVE  IInv'
<1> USE DEF IInv
<1>1. /\ runs' = Append(runs, k) /\ at' = [at EXCEPT ![k] = "ran"]
      /\ UNCHANGED <<target, answer, overtaken, findings, wired, syntheses>>
      /\ at[k] = IF IsAccepted(k) THEN "found" ELSE "answered"
  BY DEF SaveRun, Goto
<1>2. /\ ~ HasRun(k) /\ target[k] \in Visible /\ at[k] \in Unawaited
      /\ k \in findings <=> IsAccepted(k)
      /\ answer[k] \in Answers
  BY <1>1 DEF Progress, Unawaited
<1>3. /\ runs' \in Seq(Calls)
      /\ \A j \in Calls : HasRun(j)' <=> HasRun(j) \/ j = k
      /\ IsAccepted(k)' => NewestAccepted(k)'
  BY <1>1, RunAdded DEF TypeOK
<1>4. /\ LastSynthesis' = LastSynthesis
      /\ \A j \in Calls : IsAccepted(j)' = IsAccepted(j)
      /\ Visible \subseteq Visible'
      /\ Visible' = IF IsAccepted(k) THEN Visible \cup {k} ELSE Visible
  BY <1>1, <1>2, <1>3 DEF Visible, LastSynthesis, IsAccepted, TypeOK
<1>5. ~ IsAccepted(k) => Winning(Visible)' = Winning(Visible)
  BY <1>1, <1>4, SameWinners DEF TypeOK
<1>6. \A j \in Calls : j # k => at[j] \notin Unawaited /\ at'[j] = at[j]
  BY <1>1, <1>2 DEF Alone, TypeOK
<1>7. TypeOK'
  BY <1>1, <1>3, <1>4 DEF TypeOK, Places, Unawaited
<1>8. Progress'
  BY <1>1, <1>2, <1>3, <1>4 DEF Progress, TypeOK, Unawaited
<1>9. Alone' /\ StillWins'
  BY <1>1, <1>6 DEF Alone, StillWins, TypeOK, Unawaited
<1>10. Newest'
  BY <1>1, <1>3, <1>6 DEF Newest, TypeOK, Uncovered, Unawaited
<1>11. Covered'
  <2>1. CASE IsAccepted(k)
    BY <1>1, <1>3, <1>4, <2>1 DEF Covered, Uncovered, TypeOK
  <2>2. CASE ~ IsAccepted(k)
    <3>1. CASE LastSynthesis = Winning(Visible)
      BY <1>4, <1>5, <2>2, <3>1 DEF Covered
    <3>2. CASE \E j \in Calls : NewestAccepted(j) /\ (Broken(j) \/ Uncovered(j))
      <4>1. PICK j \in Calls : NewestAccepted(j) /\ (Broken(j) \/ Uncovered(j))
        BY <3>2
      <4>2. NewestAccepted(j)'
        BY <1>1, <2>2, <4>1, RefusalAdded DEF TypeOK
      <4>3. Broken(j)'
        BY <1>1, <1>2, <1>6, <4>1 DEF Broken, Uncovered, Unawaited, TypeOK
      <4> QED
        BY <4>2, <4>3 DEF Covered
    <3> QED
      BY <3>1, <3>2 DEF Covered
  <2> QED
    BY <2>1, <2>2
<1>12. Read'
  BY <1>1, <1>4 DEF Read
<1>13. OneHeirUnlessOvertaken'
  <2>1. IsAccepted(k) /\ k \notin overtaken => \A j \in findings : HasRun(j) => target[j] # target[k]
    BY <1>1 DEF StillWins, Winning, Visible, TypeOK
  <2> QED
    BY <1>1, <1>2, <1>3, <2>1 DEF OneHeirUnlessOvertaken, TypeOK
<1> QED
  BY <1>7, <1>8, <1>9, <1>10, <1>11, <1>12, <1>13

LEMMA SaveChallengeStep ==
  ASSUME IInv, NEW k \in Calls, SaveChallenge(k)
  PROVE  IInv'
<1> USE DEF IInv
<1>1. /\ wired' = wired \cup {k}
      /\ at' = [at EXCEPT ![k] = IF IsAccepted(k) THEN "wired" ELSE "done"]
      /\ UNCHANGED <<target, answer, overtaken, findings, runs, syntheses>>
      /\ at[k] = "ran" /\ HasRun(k) /\ answer[k] \in Answers
  BY DEF SaveChallenge, Goto, Progress, Unawaited
<1>2. /\ Visible' = Visible /\ LastSynthesis' = LastSynthesis
      /\ \A j \in Calls : HasRun(j)' = HasRun(j) /\ IsAccepted(j)' = IsAccepted(j)
      /\ \A j \in Calls : NewestAccepted(j)' = NewestAccepted(j)
  BY <1>1 DEF Visible, LastSynthesis, HasRun, IsAccepted, NewestAccepted
<1>3. Winning(Visible)' = Winning(Visible)
  BY <1>1, <1>2, SameWinners DEF TypeOK
<1>4. TypeOK'
  BY <1>1, <1>2 DEF TypeOK, Places, Unawaited
<1>5. Progress'
  BY <1>1, <1>2 DEF Progress, TypeOK, Unawaited
<1>6. Alone'
  BY <1>1 DEF Alone, TypeOK, Unawaited
<1>7. StillWins' /\ Newest' /\ Covered' /\ Read'
  BY <1>1, <1>2, <1>3 DEF StillWins, Newest, Covered, Read, TypeOK, Uncovered, Broken
<1>8. OneHeirUnlessOvertaken'
  BY <1>1, <1>2 DEF OneHeirUnlessOvertaken, TypeOK
<1> QED
  BY <1>4, <1>5, <1>6, <1>7, <1>8

LEMMA ResynthesizeStep ==
  ASSUME IInv, NEW k \in Calls, Resynthesize(k)
  PROVE  IInv'
<1> USE DEF IInv
<1>1. /\ syntheses' = Append(syntheses, Winning(Visible))
      /\ at' = [at EXCEPT ![k] = "done"]
      /\ UNCHANGED <<target, answer, overtaken, findings, runs, wired>>
      /\ at[k] = "wired" /\ syntheses \in Seq(SUBSET Findings)
  BY DEF Resynthesize, Goto, SynthesisInput, TypeOK
<1>2. Winning(Visible) \in SUBSET Findings /\ Winning(Visible) \subseteq Visible
  BY DEF Winning, Visible, TypeOK, Findings
<1>3. /\ syntheses' \in Seq(SUBSET Findings) /\ syntheses' # <<>>
      /\ LastSynthesis' = Winning(Visible)
  BY <1>1, <1>2 DEF LastSynthesis
<1>4. /\ Visible' = Visible
      /\ \A j \in Calls : HasRun(j)' = HasRun(j) /\ IsAccepted(j)' = IsAccepted(j)
      /\ \A j \in Calls : NewestAccepted(j)' = NewestAccepted(j)
  BY <1>1 DEF Visible, HasRun, IsAccepted, NewestAccepted
<1>5. Winning(Visible)' = Winning(Visible)
  BY <1>1, <1>4, SameWinners DEF TypeOK
<1>6. TypeOK'
  BY <1>1, <1>3, <1>4 DEF TypeOK, Places
<1>7. Progress'
  BY <1>1, <1>4 DEF Progress, TypeOK, Unawaited
<1>8. Alone'
  BY <1>1 DEF Alone, TypeOK, Unawaited
<1>9. StillWins' /\ Newest' /\ Covered' /\ Read'
  BY <1>1, <1>2, <1>3, <1>4, <1>5 DEF StillWins, Newest, Covered, Read, TypeOK, Uncovered
<1>10. OneHeirUnlessOvertaken'
  BY <1>1, <1>4 DEF OneHeirUnlessOvertaken, TypeOK
<1> QED
  BY <1>6, <1>7, <1>8, <1>9, <1>10

\* A call raises, or calls die with their process.
LEMMA StopStep ==
  ASSUME IInv, UNCHANGED <<target, answer, overtaken, store>>,
         NEW stopped \in SUBSET Calls, NEW how \in {"raised", "lost"},
         at' = [k \in Calls |-> IF k \in stopped THEN how ELSE at[k]],
         \A k \in stopped : at[k] \in Unawaited \cup {"waiting"}
  PROVE  IInv'
<1> USE DEF IInv, store
<1>1. /\ Visible' = Visible /\ LastSynthesis' = LastSynthesis
      /\ \A j \in Calls : HasRun(j)' = HasRun(j) /\ IsAccepted(j)' = IsAccepted(j)
      /\ \A j \in Calls : NewestAccepted(j)' = NewestAccepted(j)
  BY DEF Visible, LastSynthesis, HasRun, IsAccepted, NewestAccepted
<1>2. Winning(Visible)' = Winning(Visible)
  BY <1>1, SameWinners DEF TypeOK
<1>3. TypeOK'
  BY <1>1 DEF TypeOK, Places
<1>4. Progress'
  BY <1>1 DEF Progress, TypeOK, Unawaited
<1>5. Alone' /\ StillWins' /\ Newest' /\ Read'
  BY <1>1, <1>2 DEF Alone, StillWins, Newest, Read, TypeOK, Unawaited, Uncovered
<1>6. Covered'
  BY <1>1, <1>2 DEF Covered, Broken, Uncovered, TypeOK
<1>7. OneHeirUnlessOvertaken'
  BY <1>1 DEF OneHeirUnlessOvertaken, TypeOK
<1> QED
  BY <1>3, <1>4, <1>5, <1>6, <1>7

LEMMA IInvNext == IInv /\ [Next]_vars => IInv'
<1> SUFFICES ASSUME IInv, [Next]_vars PROVE IInv'
  OBVIOUS
<1>1. ASSUME NEW k \in Calls, RunnerRaises(k) \/ ResynthesisRaises(k)
      PROVE  IInv'
  <2>1. /\ UNCHANGED <<target, answer, overtaken, store>>
        /\ at[k] \in Unawaited \cup {"waiting"}
        /\ at' = [at EXCEPT ![k] = "raised"]
    BY <1>1 DEF RunnerRaises, ResynthesisRaises, Goto, Unawaited
  <2>2. at' = [j \in Calls |-> IF j \in {k} THEN "raised" ELSE at[j]]
    BY <2>1 DEF IInv, TypeOK
  <2> QED
    BY <2>1, <2>2, StopStep
<1>2. CASE Crash
  <2> DEFINE dying == {k \in Calls : at[k] \in Unawaited \cup {"waiting"}}
  <2>1. at' = [k \in Calls |-> IF k \in dying THEN "lost" ELSE at[k]]
    BY <1>2 DEF Crash
  <2>2. UNCHANGED <<target, answer, overtaken, store>>
    BY <1>2 DEF Crash
  <2>3. dying \in SUBSET Calls /\ \A k \in dying : at[k] \in Unawaited \cup {"waiting"}
    OBVIOUS
  <2> HIDE DEF dying
  <2> QED
    BY <2>1, <2>2, <2>3, StopStep
<1>3. CASE UNCHANGED vars
  BY <1>3 DEF vars, process, store, IInv, TypeOK, Progress, Alone, StillWins, Newest, Covered, Read,
              OneHeirUnlessOvertaken, HasRun, Visible, Winning, IsAccepted, Uncovered, Broken,
              NewestAccepted, LastSynthesis
<1> QED
  BY <1>1, <1>2, <1>3, BeginStep, AnswerStep, SaveFindingStep, SaveRunStep, SaveChallengeStep,
     ResynthesizeStep DEF Next, Finished

LEMMA IInvHolds == Spec => []IInv
BY IInvInit, IInvNext, PTL DEF Spec

(* Every variable keeps its type, and what the store refers to is stored.     *)
THEOREM TypeCorrect == Spec => []TypeOK
<1>1. IInv => TypeOK
  BY DEF IInv
<1> QED
  BY <1>1, IInvHolds, PTL

(* Between calls the newest synthesis is that of the current winners, unless  *)
(* the call that owed it broke off.                                          *)
THEOREM SynthesisKeepsUp == Spec => []LastSynthesisIsCurrent
<1>1. IInv => LastSynthesisIsCurrent
  BY DEF IInv, LastSynthesisIsCurrent, Covered, Uncovered, LoopFree, Unawaited
<1> QED
  BY <1>1, IInvHolds, PTL

(* Whatever the newest synthesis refers to can be challenged.                 *)
THEOREM ReadersCanChallenge == Spec => []ReadIsChallengeable
<1>1. IInv => ReadIsChallengeable
  BY DEF IInv, ReadIsChallengeable, Read, Visible
<1> QED
  BY <1>1, IInvHolds, PTL

(* Only overlapping or late challenges give a claim two heirs.                *)
THEOREM ClaimsHaveOneHeir == Spec => []OneHeirUnlessOvertaken
<1>1. IInv => OneHeirUnlessOvertaken
  BY DEF IInv
<1> QED
  BY <1>1, IInvHolds, PTL

\* No step takes a visible finding away, or rewrites the response it holds.
LEMMA VisibleStays ==
  ASSUME IInv, Next
  PROVE  /\ Visible \subseteq Visible'
         /\ \A k \in Visible \cap Calls : target'[k] = target[k] /\ answer'[k] = answer[k]
<1> DEFINE Stays ==
      /\ Visible \subseteq Visible'
      /\ \A k \in Visible \cap Calls : target'[k] = target[k] /\ answer'[k] = answer[k]
<1> USE DEF IInv
<1>1. \A k \in Visible \cap Calls : k \in findings /\ HasRun(k)
  BY CallAssumption DEF Visible
<1>2. ASSUME NEW k \in Calls, NEW f \in Findings, Begin(k, f)
      PROVE  Stays
  <2>1. k \notin findings
    BY <1>2 DEF Begin, Progress
  <2> QED
    BY <1>1, <1>2, <2>1 DEF Begin, TypeOK, Visible, HasRun, store
<1>3. ASSUME NEW k \in Calls, Answer(k)
      PROVE  Stays
  <2>1. k \notin findings
    BY <1>3 DEF Answer, Progress
  <2> QED
    BY <1>1, <1>3, <2>1 DEF Answer, TypeOK, Visible, HasRun, store
<1>4. ASSUME NEW k \in Calls, SaveFinding(k)
      PROVE  Stays
  BY <1>4 DEF SaveFinding, Visible, HasRun
<1>5. ASSUME NEW k \in Calls, SaveRun(k)
      PROVE  Stays
  <2>1. /\ runs \in Seq(Calls) /\ runs' = Append(runs, k)
        /\ findings \in SUBSET Calls
        /\ UNCHANGED <<findings, target, answer>>
    BY <1>5 DEF SaveRun, TypeOK
  <2>2. \A j \in Calls : HasRun(j)' <=> HasRun(j) \/ j = k
    BY <2>1, RunAdded
  <2> QED
    BY <2>1, <2>2 DEF Visible
<1>6. ASSUME UNCHANGED <<target, answer, findings, runs>> PROVE Stays
  BY <1>6 DEF Visible, HasRun
<1>7. ASSUME NEW k \in Calls,
             \/ RunnerRaises(k) \/ SaveChallenge(k) \/ Resynthesize(k) \/ ResynthesisRaises(k)
      PROVE  Stays
  BY <1>6, <1>7 DEF RunnerRaises, SaveChallenge, Resynthesize, ResynthesisRaises, store
<1>8. ASSUME Crash \/ Finished PROVE Stays
  BY <1>6, <1>8 DEF Crash, Finished, vars, process, store
<1> HIDE DEF Stays, IInv
<1>9. Stays
  BY <1>2, <1>3, <1>4, <1>5, <1>7, <1>8 DEF Next
<1> QED
  BY <1>9 DEF Stays

(* A finding that has lost never wins again.                                  *)
THEOREM LosersStayLost == Spec => LostIsLost
<1>1. IInv /\ [Next]_vars =>
        \/ \A f \in Visible \ Winning(Visible) : f \notin Winning(Visible)'
        \/ UNCHANGED vars
  <2> SUFFICES ASSUME IInv, Next
               PROVE  \A f \in Visible \ Winning(Visible) : f \notin Winning(Visible)'
    OBVIOUS
  <2>1. /\ Visible \subseteq Visible'
        /\ \A k \in Visible \cap Calls : target'[k] = target[k] /\ answer'[k] = answer[k]
    BY VisibleStays
  <2>2. \A f \in Visible : f \in Originals \/ f \in Calls
    BY DEF Visible, IInv, TypeOK
  <2> QED
    BY <2>1, <2>2 DEF Winning
<1> QED
  BY <1>1, IInvHolds, PTL DEF Spec, LostIsLost

-----------------------------------------------------------------------------
\* The first response that becomes visible supersedes a finding of the rounds.
FirstFell ==
  /\ syntheses # <<>> /\ Shown = Originals
  /\ Visible # Originals => \E k \in Visible \cap Calls : target[k] \in Originals

(* get_latest_synthesis shows the winners until the first response is in the   *)
(* store, and never again (challenge.py:44-46).                               *)
StaleFromTheFirst == Shown = Winning(Visible) <=> \A k \in findings : ~ HasRun(k)

LEMMA FirstFellNext == IInv /\ FirstFell /\ [Next]_vars => FirstFell'
<1> SUFFICES ASSUME IInv, FirstFell, [Next]_vars PROVE FirstFell'
  OBVIOUS
<1>0. syntheses \in Seq(SUBSET Findings) /\ runs \in Seq(Calls) /\ findings \in SUBSET Calls
  BY DEF IInv, TypeOK
<1>1. syntheses' # <<>> /\ Shown' = Originals
  <2>1. syntheses' = syntheses \/ syntheses' = Append(syntheses, Winning(SynthesisInput))
    BY DEF Next, Begin, Answer, RunnerRaises, SaveFinding, SaveRun, SaveChallenge, Resynthesize,
       ResynthesisRaises, Crash, Finished, vars, store
  <2>2. Len(syntheses) \in Nat \ {0}
    BY <1>0 DEF FirstFell
  <2>3. Winning(SynthesisInput) \in SUBSET Findings
    BY DEF Winning, SynthesisInput, Visible, IInv, TypeOK, Findings, Calls
  <2>4. ASSUME NEW w \in SUBSET Findings
        PROVE  Append(syntheses, w) # <<>> /\ Append(syntheses, w)[1] = syntheses[1]
    <3>1. Append(syntheses, w) \in Seq(SUBSET Findings) /\ Len(Append(syntheses, w)) = Len(syntheses) + 1
      BY <1>0
    <3>2. Append(syntheses, w)[1] = syntheses[1]
      BY <1>0, <2>2
    <3> QED
      BY <2>2, <3>1, <3>2
  <2> QED
    BY <2>1, <2>3, <2>4 DEF FirstFell, Shown
<1>2. CASE Visible # Originals
  BY <1>1, <1>2, VisibleStays DEF FirstFell, Visible, HasRun, vars, process, store
<1>3. CASE Visible = Originals
  <2>1. ASSUME NEW k \in Calls, SaveRun(k), Visible' # Originals
        PROVE  \E j \in Visible' \cap Calls : target'[j] \in Originals
    <3>1. /\ \A j \in Calls : HasRun(j)' <=> HasRun(j) \/ j = k
          /\ target' = target /\ findings' = findings
      BY <1>0, <2>1, RunAdded DEF SaveRun
    <3>2. target[k] \in Originals
      BY <1>3, <2>1 DEF SaveRun, IInv, Progress, IsAccepted
    <3>3. k \in Visible'
      BY <1>0, <1>3, <2>1, <3>1 DEF Visible
    <3> QED
      BY <3>1, <3>2, <3>3
  <2>2. ASSUME NEW k \in Calls, SaveFinding(k) PROVE Visible' = Visible
    <3>1. ~ HasRun(k)
      BY <2>2 DEF SaveFinding, IInv, Progress
    <3> QED
      BY <2>2, <3>1 DEF SaveFinding, Visible, HasRun
  <2>3. ASSUME UNCHANGED <<findings, runs>> PROVE Visible' = Visible
    BY <2>3 DEF Visible, HasRun
  <2> QED
    BY <1>1, <1>3, <2>1, <2>2, <2>3
    DEF Next, Begin, Answer, RunnerRaises, SaveChallenge, Resynthesize, ResynthesisRaises,
        Crash, Finished, vars, process, store, FirstFell
<1> QED
  BY <1>2, <1>3

(* How far the reader's synthesis (challenge.py:44-46) is from the winners: it  *)
(* is theirs as long as no response is in the store, and from then on never.    *)
THEOREM ReaderIsLeftBehind == Spec => []StaleFromTheFirst
<1>1. Init => FirstFell
  BY DEF Init, FirstFell, Shown, Visible
<1>2. IInv /\ FirstFell => StaleFromTheFirst
  <2> SUFFICES ASSUME IInv, FirstFell PROVE StaleFromTheFirst
    OBVIOUS
  <2>1. findings \in SUBSET Calls /\ Shown = Originals
    BY DEF IInv, TypeOK, FirstFell
  <2>2. Originals \cap Calls = {}
    BY CallAssumption DEF Calls
  <2>3. CASE \A k \in findings : ~ HasRun(k)
    <3>1. Visible = Originals
      BY <2>3 DEF Visible
    <3> QED
      BY <2>1, <2>2, <2>3, <3>1 DEF Winning, StaleFromTheFirst
  <2>4. CASE ~ \A k \in findings : ~ HasRun(k)
    <3>1. Visible # Originals
      BY <2>1, <2>2, <2>4 DEF Visible
    <3>2. PICK k \in Visible \cap Calls : target[k] \in Originals
      BY <3>1 DEF FirstFell
    <3>3. target[k] \notin Winning(Visible)
      BY <3>2 DEF Winning
    <3> QED
      BY <2>1, <2>4, <3>2, <3>3 DEF StaleFromTheFirst
  <2> QED
    BY <2>3, <2>4
<1> QED
  BY <1>1, <1>2, FirstFellNext, IInvHolds, PTL DEF Spec
=============================================================================
