-------------------------- MODULE LensDispatchProofs --------------------------
(***************************************************************************)
(* The safety of LensDispatch for every panel, every number of findings,    *)
(* every timeout and every number of dispatches.                            *)
(*                                                                          *)
(* The store invariants are not inductive alone: whether a save may add a   *)
(* second run for a seat depends on where the seat's watchdog is.  IInv     *)
(* ties the store to the control state: a stored run of a live dispatch is  *)
(* the one its seat returned, and the event loop is held by exactly the     *)
(* seat that is saving.  With it every step of a dispatch is a step of      *)
(* RoundPromise under the refinement mapping, or none.                       *)
(***************************************************************************)
EXTENDS LensDispatch, TLAPS

Live(d) == stage[d] \in {"gathering", "raised", "recorded"}

\* The loop is held by the one seat that is saving.
SavingInv ==
  /\ saving # NoSave =>
       /\ stage[saving.dispatch] \in {"gathering", "raised"}
       /\ watch[saving.dispatch][saving.seat] = "saving"
       /\ saving.status # "succeeded" => saving.left = 0
       /\ saving.status = "succeeded" =>
            \A n \in 1 .. FindingsPerRun :
              n > saving.left => <<saving.dispatch, saving.seat, n>> \in findings
  /\ \A d \in Dispatches, s \in Seats : watch[d][s] = "saving" =>
       saving # NoSave /\ saving.dispatch = d /\ saving.seat = s

\* Where a dispatch can be, given its seats and its event.
StageInv ==
  \A d \in Dispatches :
    /\ ~ Live(d) => watch[d] = Idle /\ returned[d] = NoneReturned
    /\ stage[d] = "recorded" => \A s \in Seats : watch[d][s] = "returned"
    /\ stage[d] \in {"idle", "gathering", "raised"} => ~ HasEvent(d)

\* What a seat returned is its stored run.
ReturnedInv ==
  \A d \in Dispatches, s \in Seats :
    /\ returned[d][s] # NotSaved =>
         /\ returned[d][s] \in 1 .. Len(runs)
         /\ runs[returned[d][s]].dispatch = d
         /\ runs[returned[d][s]].seat = s
    /\ watch[d][s] = "returned" => returned[d][s] # NotSaved

\* A stored run of a live dispatch is the one its seat returned.
RunInv ==
  \A k \in 1 .. Len(runs), d \in Dispatches, s \in Seats :
    runs[k].dispatch = d /\ runs[k].seat = s =>
      /\ stage[d] # "idle"
      /\ stage[d] # "lost" => watch[d][s] = "returned" /\ returned[d][s] = k

\* Whose a stored finding is.
FindingInv ==
  \A d \in Dispatches, s \in Seats, n \in 1 .. FindingsPerRun :
    <<d, s, n>> \in findings =>
      \/ stage[d] = "lost"
      \/ /\ saving # NoSave
         /\ saving.dispatch = d /\ saving.seat = s /\ saving.status = "succeeded"
      \/ \E k \in RunsOf(d) : runs[k].seat = s /\ runs[k].status = "succeeded"

IInv ==
  /\ TypeOK
  /\ SavingInv
  /\ StageInv
  /\ ReturnedInv
  /\ RunInv
  /\ FindingInv
  /\ OneRunPerSeat
  /\ EventIsComplete
  /\ RunsHaveTheirFindings

-----------------------------------------------------------------------------

USE SeatsAssumption, FindingsAssumption, TimeoutAssumption, DispatchAssumption
    DEF SeatsAssumption, FindingsAssumption, TimeoutAssumption, DispatchAssumption, Dispatches

LEMMA TypeInit == Init => TypeOK
BY DEF Init, TypeOK, Stages, WatchStates, TaskStates, Idle, Zero, NoneReturned, NotSaved

\* One seat's entry of a per-dispatch, per-seat variable is replaced.
LEMMA SeatUpdate ==
  ASSUME NEW T, NEW f \in [Dispatches -> [Seats -> T]],
         NEW d \in Dispatches, NEW s \in Seats, NEW v \in T
  PROVE  [f EXCEPT ![d][s] = v] \in [Dispatches -> [Seats -> T]]
OBVIOUS

LEMMA WatchdogForgets ==
  ASSUME TypeOK, NEW d \in Dispatches, NEW s \in Seats, ForgetWatchdog(d, s)
  PROVE  /\ task' \in [Dispatches -> [Seats -> TaskStates]]
         /\ elapsed' \in [Dispatches -> [Seats -> 0 .. ClockBound]]
         /\ silent' \in [Dispatches -> [Seats -> Nat]]
<1>1. "idle" \in TaskStates /\ 0 \in 0 .. ClockBound /\ 0 \in Nat
  BY DEF TaskStates
<1> QED
  BY <1>1, SeatUpdate DEF TypeOK, ForgetWatchdog

LEMMA PersistTypes ==
  ASSUME TypeOK, NEW d \in Dispatches, NEW s \in Seats, NEW status \in Statuses,
         Persist(d, s, status)
  PROVE  /\ saving' \in Saves \cup {NoSave}
         /\ watch' \in [Dispatches -> [Seats -> WatchStates]]
<1>1. saving' \in Saves
  BY DEF Persist, Saves
<1>2. watch' \in [Dispatches -> [Seats -> WatchStates]]
  BY DEF TypeOK, Persist, WatchStates
<1> QED
  BY <1>1, <1>2

LEMMA TypeNext == TypeOK /\ [Next]_vars => TypeOK'
<1> SUFFICES ASSUME TypeOK, [Next]_vars
             PROVE  TypeOK'
  OBVIOUS
<1>1. ASSUME NEW d \in Dispatches, Begin(d)
      PROVE  TypeOK'
  BY <1>1 DEF TypeOK, Begin, store, Stages, WatchStates, TaskStates
<1>2. ASSUME NEW d \in Dispatches, Tick(d)
      PROVE  TypeOK'
  <2> DEFINE waiting == {s \in Seats : watch[d][s] = "waiting"}
             Later(f) == [s \in Seats |-> IF s \in waiting THEN f[s] + 1 ELSE f[s]]
  <2>1. Later(elapsed[d]) \in [Seats -> 0 .. ClockBound]
    <3>1. \A s \in waiting : elapsed[d][s] < ClockBound
      BY <1>2 DEF Tick
    <3>2. elapsed[d] \in [Seats -> 0 .. ClockBound]
      BY DEF TypeOK
    <3> QED
      BY <3>1, <3>2
  <2>2. Later(silent[d]) \in [Seats -> Nat]
    <3>1. silent[d] \in [Seats -> Nat]
      BY DEF TypeOK
    <3> HIDE DEF waiting
    <3> QED
      BY <3>1
  <2>3. /\ elapsed' = [elapsed EXCEPT ![d] = Later(elapsed[d])]
        /\ silent' = [silent EXCEPT ![d] = Later(silent[d])]
        /\ UNCHANGED <<stage, watch, task, saving, returned, arrivals, store>>
    BY <1>2 DEF Tick
  <2> HIDE DEF Later, waiting
  <2> QED
    BY <2>1, <2>2, <2>3 DEF TypeOK, store
<1>3. ASSUME NEW d \in Dispatches, SaveEvent(d)
      PROVE  TypeOK'
  BY <1>3 DEF TypeOK, SaveEvent, Stages
<1>4. ASSUME NEW d \in Dispatches, NEW s \in Seats, Heartbeat(d, s)
      PROVE  TypeOK'
  BY <1>4 DEF TypeOK, Heartbeat, store
<1>5. ASSUME NEW d \in Dispatches, NEW s \in Seats, EndTask(d, s)
      PROVE  TypeOK'
  <2>1. PICK end \in Answers \cup {"raised"} : task' = [task EXCEPT ![d][s] = end]
    BY <1>5 DEF EndTask
  <2>2. end \in TaskStates
    BY DEF TaskStates
  <2>3. task' \in [Dispatches -> [Seats -> TaskStates]]
    BY <2>1, <2>2, SeatUpdate DEF TypeOK
  <2> QED
    BY <1>5, <2>3 DEF TypeOK, EndTask, store
<1>6. ASSUME NEW d \in Dispatches, NEW s \in Seats, HonourCancel(d, s)
      PROVE  TypeOK'
  BY <1>6 DEF TypeOK, HonourCancel, store, TaskStates
<1>7. ASSUME NEW d \in Dispatches, NEW s \in Seats, Fire(d, s)
      PROVE  TypeOK'
  <2>1. "draining" \in WatchStates /\ 0 \in 0 .. ClockBound /\ 0 \in Nat
    BY DEF WatchStates
  <2>2. /\ watch' \in [Dispatches -> [Seats -> WatchStates]]
        /\ elapsed' \in [Dispatches -> [Seats -> 0 .. ClockBound]]
        /\ silent' \in [Dispatches -> [Seats -> Nat]]
    BY <1>7, <2>1, SeatUpdate DEF TypeOK, Fire
  <2> QED
    BY <1>7, <2>2 DEF TypeOK, Fire, store
<1>8. ASSUME NEW d \in Dispatches, NEW s \in Seats, Collect(d, s)
      PROVE  TypeOK'
  <2>1. task[d][s] \in Statuses /\ Persist(d, s, task[d][s]) /\ ForgetWatchdog(d, s)
    BY <1>8 DEF Collect, Persist, Statuses
  <2> QED
    BY <1>8, <2>1, PersistTypes, WatchdogForgets DEF TypeOK, Collect, store
<1>9. ASSUME NEW d \in Dispatches, NEW s \in Seats, CollectTimeout(d, s)
      PROVE  TypeOK'
  <2>1. "timeout" \in Statuses /\ Persist(d, s, "timeout") /\ ForgetWatchdog(d, s)
    BY <1>9 DEF CollectTimeout, Persist, Statuses
  <2> QED
    BY <1>9, <2>1, PersistTypes, WatchdogForgets DEF TypeOK, CollectTimeout, store
<1>10. ASSUME NEW d \in Dispatches, NEW s \in Seats, Fail(d, s)
       PROVE  TypeOK'
  <2>1. ForgetWatchdog(d, s)
    BY <1>10 DEF Fail
  <2>2. /\ stage' \in [Dispatches -> Stages]
        /\ watch' \in [Dispatches -> [Seats -> WatchStates]]
    BY <1>10 DEF Fail, TypeOK, Stages, WatchStates
  <2> QED
    BY <1>10, <2>1, <2>2, WatchdogForgets DEF TypeOK, Fail, store
<1>11. CASE SaveFinding
  <2>1. saving \in Saves /\ saving.left \in 1 .. FindingsPerRun
    BY <1>11 DEF SaveFinding, TypeOK, Saves
  <2>2. saving' \in Saves
    BY <1>11, <2>1 DEF SaveFinding, Saves
  <2>3. <<saving.dispatch, saving.seat, saving.left>> \in FindingIds
    BY <2>1 DEF Saves, FindingIds
  <2> QED
    BY <1>11, <2>2, <2>3 DEF TypeOK, SaveFinding
<1>12. CASE SaveRun
  <2> DEFINE d == saving.dispatch
             s == saving.seat
             k == Len(runs) + 1
             run == [dispatch |-> d, seat |-> s, status |-> saving.status]
  <2>1. d \in Dispatches /\ s \in Seats /\ saving.status \in Statuses
    BY <1>12 DEF SaveRun, AllFindingsSaved, TypeOK, Saves
  <2>2. run \in LensRuns /\ k \in Nat
    BY <2>1 DEF LensRuns, TypeOK
  <2>3. /\ runs' = Append(runs, run)
        /\ arrivals' = [arrivals EXCEPT ![d] = Append(@, k)]
        /\ returned' = [returned EXCEPT ![d][s] = k]
        /\ watch' = [watch EXCEPT ![d][s] = "returned"]
        /\ saving' = NoSave
        /\ UNCHANGED <<stage, task, elapsed, silent, findings, events>>
    BY <1>12 DEF SaveRun, RunsWith, ArrivalsWith
  <2> HIDE DEF d, s, k, run
  <2>4. /\ runs' \in Seq(LensRuns)
        /\ arrivals' \in [Dispatches -> Seq(Nat)]
        /\ returned' \in [Dispatches -> [Seats -> Nat]]
        /\ watch' \in [Dispatches -> [Seats -> WatchStates]]
    <3>1. runs' \in Seq(LensRuns)
      BY <2>2, <2>3 DEF TypeOK
    <3>2. arrivals[d] \in Seq(Nat)
      BY <2>1 DEF TypeOK
    <3>3. Append(arrivals[d], k) \in Seq(Nat)
      BY <2>2, <3>2
    <3>4. arrivals' \in [Dispatches -> Seq(Nat)]
      BY <2>3, <3>3 DEF TypeOK
    <3>5. "returned" \in WatchStates
      BY DEF WatchStates
    <3> QED
      BY <2>1, <2>2, <2>3, <3>1, <3>4, <3>5, SeatUpdate DEF TypeOK
  <2> QED
    BY <2>3, <2>4 DEF TypeOK
<1>13. CASE Crash
  BY <1>13 DEF TypeOK, Crash, store, Stages, WatchStates, TaskStates, Idle, Zero,
               NoneReturned, NotSaved
<1>14. CASE UNCHANGED vars
  BY <1>14 DEF TypeOK, vars, process, store
<1> QED
  BY <1>1, <1>2, <1>3, <1>4, <1>5, <1>6, <1>7, <1>8, <1>9, <1>10, <1>11, <1>12,
     <1>13, <1>14 DEF Next, Finished

(* Every variable keeps its type, whatever the panel and the timeouts are.   *)
THEOREM TypeCorrect == Spec => []TypeOK
BY TypeInit, TypeNext, PTL DEF Spec

-----------------------------------------------------------------------------
(* IInv is inductive.  The steps fall into kinds: those that move only a      *)
(* watchdog that waits or drains, those that take the loop, and the six that  *)
(* write the store or the stage.                                             *)

LEMMA IInvInit == Init => IInv
<1> SUFFICES ASSUME Init
             PROVE  IInv
  OBVIOUS
<1>1. TypeOK
  BY TypeInit
<1>2. SavingInv /\ StageInv /\ ReturnedInv
  BY DEF Init, SavingInv, StageInv, ReturnedInv, Live, HasEvent, Idle, NoneReturned,
         NotSaved, NoSave
<1>3. RunInv /\ FindingInv /\ OneRunPerSeat /\ RunsHaveTheirFindings
  BY DEF Init, RunInv, FindingInv, OneRunPerSeat, RunsHaveTheirFindings
<1>4. EventIsComplete
  BY DEF Init, EventIsComplete, HasEvent
<1> QED
  BY <1>1, <1>2, <1>3, <1>4 DEF IInv

\* Only watchdogs that wait or drain move.
LEMMA QuietStep ==
  ASSUME IInv, TypeOK',
         UNCHANGED <<stage, saving, returned, store>>,
         \A d \in Dispatches, s \in Seats :
           \/ watch'[d][s] = watch[d][s]
           \/ watch[d][s] = "waiting" /\ watch'[d][s] = "draining"
  PROVE  IInv'
<1> USE DEF IInv, store
<1>1. SavingInv'
  <2>1. saving # NoSave => saving.dispatch \in Dispatches /\ saving.seat \in Seats
    BY DEF TypeOK, Saves
  <2> QED
    BY <2>1 DEF SavingInv
<1>2. StageInv'
  <2> SUFFICES ASSUME NEW d \in Dispatches
               PROVE  /\ ~ Live(d) => watch'[d] = Idle
                      /\ stage[d] = "recorded" => \A s \in Seats : watch'[d][s] = "returned"
    BY DEF StageInv, Live, HasEvent
  <2>1. ASSUME ~ Live(d)
        PROVE  watch'[d] = Idle
    <3>1. \A s \in Seats : watch[d][s] = "idle"
      BY <2>1 DEF StageInv, Idle
    <3>2. \A s \in Seats : watch'[d][s] = "idle"
      BY <3>1
    <3>3. watch'[d] \in [Seats -> WatchStates]
      BY DEF TypeOK
    <3> QED
      BY <3>2, <3>3 DEF Idle
  <2>2. ASSUME stage[d] = "recorded", NEW s \in Seats
        PROVE  watch'[d][s] = "returned"
    BY <2>2 DEF StageInv
  <2> QED
    BY <2>1, <2>2
<1>3. ReturnedInv'
  BY DEF ReturnedInv
<1>4. RunInv'
  BY DEF RunInv
<1>5. FindingInv'
  BY DEF FindingInv, RunsOf
<1>6. (OneRunPerSeat /\ EventIsComplete /\ RunsHaveTheirFindings)'
  BY DEF OneRunPerSeat, EventIsComplete, RunsHaveTheirFindings, HasEvent, RunsOf
<1> QED
  BY <1>1, <1>2, <1>3, <1>4, <1>5, <1>6

\* A seat whose watchdog is over takes the loop to persist its outcome.
LEMMA PersistStep ==
  ASSUME IInv, TypeOK', NEW d \in Dispatches, NEW s \in Seats, NEW status \in Statuses,
         LoopFree, Alive(d, s), Persist(d, s, status),
         UNCHANGED <<stage, returned, arrivals, store>>
  PROVE  IInv'
<1> USE DEF IInv, store
<1>1. /\ watch[d][s] \in {"waiting", "draining"}
      /\ stage[d] \in {"gathering", "raised"}
  <2>1. watch[d][s] \in {"waiting", "draining"}
    BY DEF Alive
  <2>2. watch[d] # Idle
    BY <2>1 DEF Idle
  <2> QED
    BY <2>1, <2>2 DEF StageInv, Live
<1>2. /\ saving' # NoSave
      /\ saving'.dispatch = d /\ saving'.seat = s /\ saving'.status = status
      /\ saving'.left = IF status = "succeeded" THEN FindingsPerRun ELSE 0
      /\ saving = NoSave
  BY DEF Persist, NoSave, LoopFree
<1>3. \A e \in Dispatches, r \in Seats :
        watch'[e][r] = IF e = d /\ r = s THEN "saving" ELSE watch[e][r]
  BY DEF Persist, TypeOK
<1>4. SavingInv'
  BY <1>1, <1>2, <1>3 DEF SavingInv
<1>5. StageInv'
  <2> SUFFICES ASSUME NEW e \in Dispatches
               PROVE  /\ ~ Live(e) => watch'[e] = Idle
                      /\ stage[e] = "recorded" => \A r \in Seats : watch'[e][r] = "returned"
    BY DEF StageInv, Live, HasEvent
  <2>1. CASE e = d
    BY <1>1, <2>1 DEF Live
  <2>2. CASE e # d
    <3>1. watch'[e] = watch[e]
      BY <2>2 DEF Persist, TypeOK
    <3> QED
      BY <3>1 DEF StageInv
  <2> QED
    BY <2>1, <2>2
<1>6. ReturnedInv'
  BY <1>3 DEF ReturnedInv
<1>7. RunInv'
  BY <1>1, <1>3 DEF RunInv
<1>8. FindingInv'
  BY <1>2 DEF FindingInv, RunsOf
<1>9. (OneRunPerSeat /\ EventIsComplete /\ RunsHaveTheirFindings)'
  BY DEF OneRunPerSeat, EventIsComplete, RunsHaveTheirFindings, HasEvent, RunsOf
<1> QED
  BY <1>4, <1>5, <1>6, <1>7, <1>8, <1>9

LEMMA BeginStep ==
  ASSUME IInv, TypeOK', NEW d \in Dispatches, Begin(d)
  PROVE  IInv'
<1> USE DEF IInv, store
<1>1. stage[d] = "idle" /\ LoopFree
  BY DEF Begin, FreshId
<1>2. /\ \A e \in Dispatches : e # d => stage'[e] = stage[e] /\ watch'[e] = watch[e]
      /\ stage'[d] = "gathering"
      /\ \A s \in Seats : watch'[d][s] = "waiting"
      /\ UNCHANGED <<saving, returned, store>>
  BY DEF Begin, TypeOK
<1>3. SavingInv'
  BY <1>1, <1>2 DEF SavingInv, LoopFree
<1>4. StageInv'
  BY <1>1, <1>2 DEF StageInv, Live, HasEvent
<1>5. ReturnedInv'
  BY <1>2 DEF ReturnedInv
<1>6. RunInv'
  BY <1>1, <1>2 DEF RunInv
<1>7. FindingInv'
  BY <1>1, <1>2 DEF FindingInv, RunsOf
<1>8. (OneRunPerSeat /\ EventIsComplete /\ RunsHaveTheirFindings)'
  BY <1>2 DEF OneRunPerSeat, EventIsComplete, RunsHaveTheirFindings, HasEvent, RunsOf
<1> QED
  BY <1>3, <1>4, <1>5, <1>6, <1>7, <1>8

LEMMA FailStep ==
  ASSUME IInv, TypeOK', NEW d \in Dispatches, NEW s \in Seats, Fail(d, s)
  PROVE  IInv'
<1> USE DEF IInv, store
<1>1. watch[d][s] = "waiting" /\ LoopFree
  BY DEF Fail
<1>2. stage[d] \in {"gathering", "raised"}
  <2>1. watch[d] # Idle
    BY <1>1 DEF Idle
  <2> QED
    BY <1>1, <2>1 DEF StageInv, Live
<1>3. /\ \A e \in Dispatches : e # d => stage'[e] = stage[e] /\ watch'[e] = watch[e]
      /\ stage'[d] = "raised"
      /\ \A r \in Seats : watch'[d][r] = IF r = s THEN "failed" ELSE watch[d][r]
      /\ UNCHANGED <<saving, returned, store>>
  BY <1>2 DEF Fail, TypeOK
<1>4. SavingInv'
  BY <1>1, <1>2, <1>3 DEF SavingInv, LoopFree
<1>5. StageInv'
  BY <1>2, <1>3 DEF StageInv, Live, HasEvent
<1>6. ReturnedInv'
  BY <1>3 DEF ReturnedInv
<1>7. RunInv'
  BY <1>1, <1>2, <1>3 DEF RunInv
<1>8. FindingInv'
  BY <1>2, <1>3 DEF FindingInv, RunsOf
<1>9. (OneRunPerSeat /\ EventIsComplete /\ RunsHaveTheirFindings)'
  BY <1>3 DEF OneRunPerSeat, EventIsComplete, RunsHaveTheirFindings, HasEvent, RunsOf
<1> QED
  BY <1>4, <1>5, <1>6, <1>7, <1>8, <1>9

LEMMA SaveEventStep ==
  ASSUME IInv, TypeOK', NEW d \in Dispatches, SaveEvent(d)
  PROVE  IInv'
<1> USE DEF IInv
<1>1. /\ LoopFree
      /\ stage[d] = "gathering"
      /\ \A s \in Seats : watch[d][s] = "returned"
      /\ UNCHANGED <<watch, saving, returned, findings, runs>>
  BY DEF SaveEvent
<1>2. /\ \A e \in Dispatches : e # d => stage'[e] = stage[e] /\ events'[e] = events[e]
      /\ stage'[d] = "recorded"
      /\ events'[d] = returned[d]
  BY DEF SaveEvent, TypeOK
<1>3. SavingInv'
  BY <1>1 DEF SavingInv, LoopFree
<1>4. StageInv'
  BY <1>1, <1>2 DEF StageInv, Live, HasEvent
<1>5. (ReturnedInv /\ OneRunPerSeat /\ RunsHaveTheirFindings)'
  BY <1>1 DEF ReturnedInv, OneRunPerSeat, RunsHaveTheirFindings
<1>6. RunInv'
  BY <1>1, <1>2 DEF RunInv
<1>7. FindingInv'
  BY <1>1, <1>2 DEF FindingInv, RunsOf
<1>8. EventIsComplete'
  <2>1. ASSUME NEW e \in Dispatches, e # d, HasEvent(e)', NEW s \in Seats
        PROVE  /\ events'[e][s] \in RunsOf(e)'
               /\ runs'[events'[e][s]].seat = s
    BY <1>1, <1>2, <2>1 DEF EventIsComplete, HasEvent, RunsOf
  <2>2. ASSUME NEW s \in Seats
        PROVE  /\ events'[d][s] \in RunsOf(d)'
               /\ runs'[events'[d][s]].seat = s
    BY <1>1, <1>2 DEF ReturnedInv, RunsOf
  <2> QED
    BY <2>1, <2>2 DEF EventIsComplete
<1> QED
  BY <1>3, <1>4, <1>5, <1>6, <1>7, <1>8

LEMMA CrashStep ==
  ASSUME IInv, TypeOK', Crash
  PROVE  IInv'
<1> USE DEF IInv, store
<1>1. /\ \A d \in Dispatches : stage'[d] = IF stage[d] = "idle" THEN "idle" ELSE "lost"
      /\ \A d \in Dispatches : watch'[d] = Idle /\ returned'[d] = NoneReturned
      /\ saving' = NoSave
      /\ UNCHANGED <<findings, runs, events>>
  BY DEF Crash
<1>2. SavingInv'
  BY <1>1 DEF SavingInv, Idle
<1>3. StageInv'
  BY <1>1 DEF StageInv, Live, HasEvent
<1>4. ReturnedInv'
  BY <1>1 DEF ReturnedInv, Idle, NoneReturned
<1>5. RunInv'
  BY <1>1 DEF RunInv
<1>6. FindingInv'
  <2>1. saving # NoSave => saving.dispatch \in Dispatches /\ stage[saving.dispatch] # "idle"
    BY DEF TypeOK, Saves, SavingInv
  <2> QED
    BY <1>1, <2>1 DEF FindingInv, RunsOf
<1>7. (OneRunPerSeat /\ EventIsComplete /\ RunsHaveTheirFindings)'
  BY <1>1 DEF OneRunPerSeat, EventIsComplete, RunsHaveTheirFindings, HasEvent, RunsOf
<1> QED
  BY <1>2, <1>3, <1>4, <1>5, <1>6, <1>7

LEMMA SaveFindingStep ==
  ASSUME IInv, TypeOK', SaveFinding
  PROVE  IInv'
<1> USE DEF IInv
<1> DEFINE d == saving.dispatch
           s == saving.seat
           n == saving.left
<1>1. /\ saving # NoSave /\ saving \in Saves /\ n > 0
      /\ d \in Dispatches /\ s \in Seats /\ n \in 1 .. FindingsPerRun
      /\ saving.status = "succeeded"
      /\ stage[d] \in {"gathering", "raised"}
      /\ watch[d][s] = "saving"
  <2>1. saving # NoSave /\ saving \in Saves /\ n > 0
    BY DEF SaveFinding, TypeOK
  <2>2. d \in Dispatches /\ s \in Seats /\ n \in 1 .. FindingsPerRun
    BY <2>1 DEF Saves
  <2> QED
    BY <2>1, <2>2 DEF SavingInv
<1>2. /\ saving' # NoSave
      /\ saving'.dispatch = d /\ saving'.seat = s
      /\ saving'.status = saving.status /\ saving'.left = n - 1
      /\ findings' = findings \cup {<<d, s, n>>}
      /\ UNCHANGED <<stage, watch, returned, runs, events>>
  BY <1>1 DEF SaveFinding, Saves, NoSave
<1> HIDE DEF d, s, n
<1>3. \A k \in 1 .. Len(runs) : ~ (runs[k].dispatch = d /\ runs[k].seat = s)
  BY <1>1 DEF RunInv
<1>4. SavingInv'
  <2>1. \A m \in 1 .. FindingsPerRun : m > n - 1 => <<d, s, m>> \in findings'
    <3>1. \A m \in 1 .. FindingsPerRun : m > n => <<d, s, m>> \in findings
      BY <1>1 DEF SavingInv, d, s, n
    <3> QED
      BY <1>1, <1>2, <3>1
  <2>2. \A e \in Dispatches, r \in Seats : watch[e][r] = "saving" => e = d /\ r = s
    BY DEF SavingInv, d, s
  <2> QED
    BY <1>1, <1>2, <2>1, <2>2 DEF SavingInv
<1>5. (StageInv /\ ReturnedInv /\ OneRunPerSeat)'
  BY <1>2 DEF StageInv, ReturnedInv, OneRunPerSeat, Live, HasEvent
<1>6. RunInv'
  BY <1>2 DEF RunInv
<1>7. FindingInv'
  <2> SUFFICES ASSUME NEW e \in Dispatches, NEW r \in Seats, NEW m \in 1 .. FindingsPerRun,
                      <<e, r, m>> \in findings', stage[e] # "lost", ~ (e = d /\ r = s)
               PROVE  \E k \in RunsOf(e) : runs[k].seat = r /\ runs[k].status = "succeeded"
    BY <1>1, <1>2 DEF FindingInv, RunsOf
  <2>1. <<e, r, m>> \in findings
    BY <1>2
  <2> QED
    BY <2>1 DEF FindingInv, d, s
<1>8. EventIsComplete'
  BY <1>2 DEF EventIsComplete, HasEvent, RunsOf
<1>9. RunsHaveTheirFindings'
  <2> SUFFICES ASSUME NEW k \in 1 .. Len(runs)
               PROVE  LET drafts == DraftsOf(runs[k].dispatch, runs[k].seat)
                      IN  IF runs[k].status = "succeeded"
                          THEN drafts \subseteq findings'
                          ELSE drafts \cap findings' = {}
    BY <1>2 DEF RunsHaveTheirFindings
  <2>1. <<d, s, n>> \notin DraftsOf(runs[k].dispatch, runs[k].seat)
    BY <1>3 DEF DraftsOf
  <2> QED
    BY <1>2, <2>1 DEF RunsHaveTheirFindings
<1> QED
  BY <1>4, <1>5, <1>6, <1>7, <1>8, <1>9

LEMMA SaveRunStep ==
  ASSUME IInv, TypeOK', SaveRun
  PROVE  IInv'
<1> USE DEF IInv
<1> DEFINE d == saving.dispatch
           s == saving.seat
           new == Len(runs) + 1
<1>1. /\ saving # NoSave /\ saving \in Saves /\ saving.left = 0
      /\ d \in Dispatches /\ s \in Seats /\ saving.status \in Statuses
      /\ stage[d] \in {"gathering", "raised"}
      /\ watch[d][s] = "saving"
      /\ \A e \in Dispatches, r \in Seats : watch[e][r] = "saving" => e = d /\ r = s
  BY DEF SaveRun, AllFindingsSaved, TypeOK, Saves, SavingInv
<1>2. /\ saving' = NoSave
      /\ runs' = Append(runs, [dispatch |-> d, seat |-> s, status |-> saving.status])
      /\ UNCHANGED <<stage, findings, events>>
      /\ \A e \in Dispatches, r \in Seats :
           /\ watch'[e][r] = IF e = d /\ r = s THEN "returned" ELSE watch[e][r]
           /\ returned'[e][r] = IF e = d /\ r = s THEN new ELSE returned[e][r]
      /\ \A e \in Dispatches : e # d => watch'[e] = watch[e] /\ returned'[e] = returned[e]
  <2>1. /\ watch' = [watch EXCEPT ![d][s] = "returned"]
        /\ returned' = [returned EXCEPT ![d][s] = new]
    BY DEF SaveRun
  <2>2. /\ watch \in [Dispatches -> [Seats -> WatchStates]]
        /\ returned \in [Dispatches -> [Seats -> Nat]]
    BY DEF TypeOK
  <2>3. /\ saving' = NoSave
        /\ runs' = Append(runs, [dispatch |-> d, seat |-> s, status |-> saving.status])
        /\ UNCHANGED <<stage, findings, events>>
    BY DEF SaveRun, RunsWith
  <2> HIDE DEF d, s, new, IInv
  <2> QED
    BY <1>1, <2>1, <2>2, <2>3
<1>3. /\ new \in Nat \ {0} /\ Len(runs) \in Nat /\ Len(runs') = new
      /\ \A k \in 1 .. Len(runs) : runs'[k] = runs[k]
      /\ runs'[new].dispatch = d /\ runs'[new].seat = s
      /\ runs'[new].status = saving.status
  BY <1>2 DEF TypeOK
<1> HIDE DEF d, s, new
<1>4. \A k \in 1 .. Len(runs) : ~ (runs[k].dispatch = d /\ runs[k].seat = s)
  BY <1>1 DEF RunInv
<1>5. \A k \in 1 .. Len(runs') : k \in 1 .. Len(runs) \/ k = new
  BY <1>3 DEF new
<1>6. SavingInv'
  BY <1>1, <1>2 DEF SavingInv
<1>7. StageInv'
  BY <1>1, <1>2 DEF StageInv, Live, HasEvent
<1>8. ReturnedInv'
  <2> SUFFICES ASSUME NEW e \in Dispatches, NEW r \in Seats
               PROVE  /\ returned'[e][r] # NotSaved =>
                           /\ returned'[e][r] \in 1 .. Len(runs')
                           /\ runs'[returned'[e][r]].dispatch = e
                           /\ runs'[returned'[e][r]].seat = r
                      /\ watch'[e][r] = "returned" => returned'[e][r] # NotSaved
    BY DEF ReturnedInv
  <2>1. CASE e = d /\ r = s
    BY <1>2, <1>3, <2>1 DEF NotSaved
  <2>2. CASE ~ (e = d /\ r = s)
    <3>1. returned'[e][r] = returned[e][r] /\ watch'[e][r] = watch[e][r]
      BY <1>2, <2>2
    <3> QED
      BY <1>3, <3>1 DEF ReturnedInv, new
  <2> QED
    BY <2>1, <2>2
<1>9. RunInv'
  <2> SUFFICES ASSUME NEW k \in 1 .. Len(runs'), NEW e \in Dispatches, NEW r \in Seats,
                      runs'[k].dispatch = e, runs'[k].seat = r
               PROVE  /\ stage[e] # "idle"
                      /\ stage[e] # "lost" => watch'[e][r] = "returned" /\ returned'[e][r] = k
    BY <1>2 DEF RunInv
  <2>1. CASE k = new
    BY <1>1, <1>2, <1>3, <2>1
  <2>2. CASE k \in 1 .. Len(runs)
    BY <1>2, <1>3, <1>4, <2>2 DEF RunInv
  <2> QED
    BY <1>5, <2>1, <2>2
<1>10. \A e \in Dispatches : RunsOf(e) \subseteq RunsOf(e)'
  BY <1>3 DEF RunsOf, new
<1>11. FindingInv'
  <2> SUFFICES ASSUME NEW e \in Dispatches, NEW r \in Seats, NEW n \in 1 .. FindingsPerRun,
                      <<e, r, n>> \in findings, stage[e] # "lost"
               PROVE  \E k \in RunsOf(e)' : runs'[k].seat = r /\ runs'[k].status = "succeeded"
    BY <1>2 DEF FindingInv
  <2>1. CASE saving.dispatch = e /\ saving.seat = r /\ saving.status = "succeeded"
    <3>1. new \in RunsOf(e)'
      BY <1>3, <2>1 DEF RunsOf, d
    <3> QED
      BY <1>3, <2>1, <3>1 DEF s
  <2>2. CASE \E k \in RunsOf(e) : runs[k].seat = r /\ runs[k].status = "succeeded"
    BY <1>3, <1>10, <2>2 DEF RunsOf
  <2> QED
    BY <2>1, <2>2 DEF FindingInv
<1>12. OneRunPerSeat'
  BY <1>3, <1>4, <1>5 DEF OneRunPerSeat
<1>13. EventIsComplete'
  <2>1. \A e \in Dispatches : \A k \in RunsOf(e) : runs'[k] = runs[k]
    BY <1>3 DEF RunsOf
  <2> SUFFICES ASSUME NEW e \in Dispatches, HasEvent(e), NEW r \in Seats
               PROVE  events[e][r] \in RunsOf(e)' /\ runs'[events[e][r]].seat = r
    BY <1>2 DEF EventIsComplete, HasEvent
  <2>2. events[e][r] \in RunsOf(e) /\ runs[events[e][r]].seat = r
    BY DEF EventIsComplete
  <2> QED
    BY <1>10, <2>1, <2>2
<1>14. RunsHaveTheirFindings'
  <2>1. IF saving.status = "succeeded"
        THEN DraftsOf(d, s) \subseteq findings
        ELSE DraftsOf(d, s) \cap findings = {}
    <3>1. CASE saving.status = "succeeded"
      BY <1>1, <3>1 DEF SavingInv, DraftsOf, d, s
    <3>2. CASE saving.status # "succeeded"
      <4>1. \A n \in 1 .. FindingsPerRun : <<d, s, n>> \notin findings
        BY <1>1, <1>4, <3>2 DEF FindingInv, RunsOf
      <4> QED
        BY <3>2, <4>1 DEF DraftsOf
    <3> QED
      BY <3>1, <3>2
  <2> SUFFICES ASSUME NEW k \in 1 .. Len(runs')
               PROVE  LET drafts == DraftsOf(runs'[k].dispatch, runs'[k].seat)
                      IN  IF runs'[k].status = "succeeded"
                          THEN drafts \subseteq findings
                          ELSE drafts \cap findings = {}
    BY <1>2 DEF RunsHaveTheirFindings
  <2>2. CASE k = new
    BY <1>3, <2>1, <2>2
  <2>3. CASE k \in 1 .. Len(runs)
    BY <1>3, <2>3 DEF RunsHaveTheirFindings
  <2> QED
    BY <1>5, <2>2, <2>3
<1> QED
  BY <1>6, <1>7, <1>8, <1>9, <1>11, <1>12, <1>13, <1>14

LEMMA IInvNext == IInv /\ [Next]_vars => IInv'
<1> SUFFICES ASSUME IInv, [Next]_vars
             PROVE  IInv'
  OBVIOUS
<1>1. TypeOK /\ TypeOK'
  BY TypeNext DEF IInv
<1>2. ASSUME NEW d \in Dispatches, Begin(d) \/ SaveEvent(d)
      PROVE  IInv'
  BY <1>1, <1>2, BeginStep, SaveEventStep
<1>3. ASSUME NEW d \in Dispatches, Tick(d)
      PROVE  IInv'
  BY <1>1, <1>3, QuietStep DEF Tick
<1>4. ASSUME NEW d \in Dispatches, NEW s \in Seats,
             Heartbeat(d, s) \/ EndTask(d, s) \/ HonourCancel(d, s)
      PROVE  IInv'
  <2>1. UNCHANGED <<stage, watch, saving, returned, store>>
    BY <1>4 DEF Heartbeat, EndTask, HonourCancel
  <2> QED
    BY <1>1, <2>1, QuietStep
<1>5. ASSUME NEW d \in Dispatches, NEW s \in Seats, Fire(d, s)
      PROVE  IInv'
  <2>1. \A e \in Dispatches, r \in Seats :
          \/ watch'[e][r] = watch[e][r]
          \/ watch[e][r] = "waiting" /\ watch'[e][r] = "draining"
    BY <1>1, <1>5 DEF Fire, TypeOK
  <2>2. UNCHANGED <<stage, saving, returned, store>>
    BY <1>5 DEF Fire
  <2> QED
    BY <1>1, <2>1, <2>2, QuietStep
<1>6. ASSUME NEW d \in Dispatches, NEW s \in Seats, Collect(d, s)
      PROVE  IInv'
  <2>1. task[d][s] \in Statuses /\ Persist(d, s, task[d][s]) /\ Alive(d, s)
    BY <1>6 DEF Collect, Statuses, Alive
  <2> QED
    BY <1>1, <1>6, <2>1, PersistStep DEF Collect
<1>7. ASSUME NEW d \in Dispatches, NEW s \in Seats, CollectTimeout(d, s)
      PROVE  IInv'
  <2>1. "timeout" \in Statuses /\ Persist(d, s, "timeout") /\ Alive(d, s)
    BY <1>7 DEF CollectTimeout, Statuses, Alive
  <2> QED
    BY <1>1, <1>7, <2>1, PersistStep DEF CollectTimeout
<1>8. ASSUME NEW d \in Dispatches, NEW s \in Seats, Fail(d, s)
      PROVE  IInv'
  BY <1>1, <1>8, FailStep
<1>9. CASE SaveFinding \/ SaveRun \/ Crash
  BY <1>1, <1>9, SaveFindingStep, SaveRunStep, CrashStep
<1>10. CASE UNCHANGED vars
  BY <1>1, <1>10, QuietStep DEF vars, process
<1> QED
  BY <1>2, <1>3, <1>4, <1>5, <1>6, <1>7, <1>8, <1>9, <1>10 DEF Next, Finished

LEMMA IInvHolds == Spec => []IInv
BY IInvInit, IInvNext, PTL DEF Spec

(* No interleaving of late answers, exceptions, crashes and new dispatches    *)
(* stores a second LensRun for one seat of one dispatch.                     *)
THEOREM StoresOneRunPerSeat == Spec => []OneRunPerSeat
<1>1. IInv => OneRunPerSeat
  BY DEF IInv
<1> QED
  BY <1>1, IInvHolds, PTL

(* A stored DispatchEvent always lists the whole round.                      *)
THEOREM StoresWholeRounds == Spec => []EventIsComplete
<1>1. IInv => EventIsComplete
  BY DEF IInv
<1> QED
  BY <1>1, IInvHolds, PTL

(* Findings and LensRuns agree in the store, between any two of its commits. *)
THEOREM StoresFindingsFirst == Spec => []RunsHaveTheirFindings
<1>1. IInv => RunsHaveTheirFindings
  BY DEF IInv
<1> QED
  BY <1>1, IInvHolds, PTL

(* A finding whose LensRun is missing is one being saved, or the trace of a   *)
(* crash.                                                                    *)
THEOREM OrphansAreExplained == Spec => []OrphanFindingMeansCrash
<1>1. ASSUME IInv
      PROVE  OrphanFindingMeansCrash
  <2> SUFFICES ASSUME NEW f \in findings
               PROVE  \/ \E k \in RunsOf(f[1]) : runs[k].seat = f[2]
                      \/ saving # NoSave /\ saving.dispatch = f[1] /\ saving.seat = f[2]
                      \/ stage[f[1]] = "lost"
    BY DEF OrphanFindingMeansCrash
  <2>1. f \in FindingIds
    BY <1>1 DEF IInv, TypeOK
  <2>2. PICK d \in Dispatches, s \in Seats, n \in 1 .. FindingsPerRun : f = <<d, s, n>>
    BY <2>1 DEF FindingIds
  <2> QED
    BY <1>1, <2>2 DEF IInv, FindingInv
<1> QED
  BY <1>1, IInvHolds, PTL

-----------------------------------------------------------------------------
(* The completion order, and the answer a waiting watchdog keeps.             *)

\* The sequence a lists the set of positions R in ascending order.
Lists(a, R) ==
  /\ {a[i] : i \in DOMAIN a} = R
  /\ \A i, j \in DOMAIN a : i < j => a[i] < a[j]

ArrivalsInv ==
  \A d \in Dispatches :
    /\ ~ Live(d) => arrivals[d] = <<>>
    /\ stage[d] \notin {"idle", "lost"} => Lists(arrivals[d], RunsOf(d))

LEMMA ArrivalsInit == Init => ArrivalsInv
BY DEF Init, ArrivalsInv

\* One more position, above all the others, is noted.
LEMMA ListsOneMore ==
  ASSUME NEW a \in Seq(Nat), NEW R, Lists(a, R), NEW new \in Nat,
         \A k \in R : k < new
  PROVE  Lists(Append(a, new), R \cup {new})
<1> DEFINE b == Append(a, new)
<1>1. /\ DOMAIN a = 1 .. Len(a) /\ DOMAIN b = 1 .. Len(a) + 1 /\ Len(a) \in Nat
      /\ \A i \in 1 .. Len(a) : b[i] = a[i]
      /\ b[Len(a) + 1] = new
  OBVIOUS
<1>2. /\ {a[i] : i \in DOMAIN a} = R
      /\ \A i, j \in DOMAIN a : i < j => a[i] < a[j]
  BY DEF Lists
<1> HIDE DEF b
<1>3. {b[i] : i \in DOMAIN b} = R \cup {new}
  <2>1. ASSUME NEW i \in DOMAIN b
        PROVE  b[i] \in R \cup {new}
    <3>1. i \in DOMAIN a \/ i = Len(a) + 1
      BY <1>1
    <3> QED
      BY <1>1, <1>2, <3>1
  <2>2. ASSUME NEW k \in R \cup {new}
        PROVE  \E i \in DOMAIN b : b[i] = k
    <3>1. CASE k = new
      <4>1. Len(a) + 1 \in DOMAIN b
        BY <1>1
      <4> QED
        BY <1>1, <3>1, <4>1
    <3>2. CASE k \in R
      <4>1. PICK i \in DOMAIN a : a[i] = k
        BY <1>2, <3>2
      <4>2. i \in DOMAIN b
        BY <1>1
      <4> QED
        BY <1>1, <4>1, <4>2
    <3> QED
      BY <3>1, <3>2
  <2> QED
    BY <2>1, <2>2
<1>4. ASSUME NEW i \in DOMAIN b, NEW j \in DOMAIN b, i < j
      PROVE  b[i] < b[j]
  <2>1. i \in DOMAIN a
    BY <1>1, <1>4
  <2>2. CASE j \in DOMAIN a
    BY <1>1, <1>2, <1>4, <2>1, <2>2
  <2>3. CASE j = Len(a) + 1
    <3>1. a[i] \in R
      BY <1>2, <2>1
    <3> QED
      BY <1>1, <2>1, <2>3, <3>1
  <2> QED
    BY <1>1, <2>2, <2>3
<1> QED
  BY <1>3, <1>4 DEF Lists, b

\* A step that neither saves a run nor moves a dispatch in or out of memory.
LEMMA ArrivalsKept ==
  ASSUME TypeOK, TypeOK', ArrivalsInv, UNCHANGED <<arrivals, runs>>,
         \A d \in Dispatches : Live(d)' <=> Live(d)
  PROVE  ArrivalsInv'
<1>1. \A d \in Dispatches : RunsOf(d)' = RunsOf(d)
  BY DEF RunsOf
<1>2. \A d \in Dispatches : stage'[d] \notin {"idle", "lost"} => stage[d] \notin {"idle", "lost"}
  <2>1. stage \in [Dispatches -> Stages] /\ stage' \in [Dispatches -> Stages]
    BY DEF TypeOK
  <2> QED
    BY <2>1 DEF Live, Stages
<1> QED
  BY <1>1, <1>2 DEF ArrivalsInv

LEMMA ArrivalsSaved ==
  ASSUME IInv, TypeOK', ArrivalsInv, SaveRun
  PROVE  ArrivalsInv'
<1>1. saving # NoSave /\ saving \in Saves
  BY DEF SaveRun, AllFindingsSaved, IInv, TypeOK
<1>2. PICK d \in Dispatches : saving.dispatch = d
  BY <1>1 DEF Saves
<1>3. /\ stage[d] \in {"gathering", "raised"}
      /\ runs \in Seq(LensRuns) /\ arrivals \in [Dispatches -> Seq(Nat)]
  BY <1>1, <1>2 DEF IInv, SavingInv, TypeOK
<1>4. PICK new \in Nat \ {0} : new = Len(runs) + 1
  BY <1>3
<1>5. /\ runs' = Append(runs, [dispatch |-> d, seat |-> saving.seat, status |-> saving.status])
      /\ stage' = stage
      /\ arrivals' = [arrivals EXCEPT ![d] = Append(arrivals[d], new)]
  BY <1>2, <1>4 DEF SaveRun, RunsWith, ArrivalsWith
<1>6. /\ \A k \in 1 .. Len(runs) : runs'[k] = runs[k] /\ k < new
      /\ runs'[new].dispatch = d
      /\ 1 .. Len(runs') = (1 .. Len(runs)) \cup {new}
  BY <1>3, <1>4, <1>5
<1>7. \A e \in Dispatches : RunsOf(e)' = IF e = d THEN RunsOf(d) \cup {new} ELSE RunsOf(e)
  BY <1>6 DEF RunsOf
<1>8. ASSUME NEW e \in Dispatches, ~ Live(e)
      PROVE  arrivals'[e] = <<>>
  BY <1>3, <1>5, <1>8 DEF ArrivalsInv, Live
<1>9. ASSUME NEW e \in Dispatches, stage[e] \notin {"idle", "lost"}
      PROVE  Lists(arrivals'[e], RunsOf(e)')
  <2>1. Lists(arrivals[e], RunsOf(e))
    BY <1>9 DEF ArrivalsInv
  <2>2. CASE e # d
    BY <1>3, <1>5, <1>7, <2>1, <2>2
  <2>3. CASE e = d
    <3>1. arrivals[d] \in Seq(Nat) /\ arrivals'[d] = Append(arrivals[d], new)
      BY <1>3, <1>5
    <3>2. \A k \in RunsOf(d) : k < new
      BY <1>6 DEF RunsOf
    <3>3. Lists(Append(arrivals[d], new), RunsOf(d) \cup {new})
      BY <2>1, <2>3, <3>1, <3>2, ListsOneMore
    <3> QED
      BY <1>7, <2>3, <3>1, <3>3
  <2> QED
    BY <2>2, <2>3
<1> QED
  BY <1>5, <1>8, <1>9 DEF ArrivalsInv, Live

LEMMA ArrivalsNext == IInv /\ ArrivalsInv /\ [Next]_vars => ArrivalsInv'
<1> SUFFICES ASSUME IInv, ArrivalsInv, [Next]_vars
             PROVE  ArrivalsInv'
  OBVIOUS
<1>1. TypeOK /\ TypeOK'
  BY TypeNext DEF IInv
<1>2. ASSUME NEW d \in Dispatches, Begin(d)
      PROVE  ArrivalsInv'
  <2>1. /\ stage[d] = "idle" /\ stage' = [stage EXCEPT ![d] = "gathering"]
        /\ UNCHANGED <<arrivals, runs>>
    BY <1>2 DEF Begin, FreshId, store
  <2>2. RunsOf(d) = {} /\ arrivals[d] = <<>>
    <3>1. \A k \in 1 .. Len(runs) : runs[k].seat \in Seats
      <4>1. runs \in Seq(LensRuns)
        BY <1>1 DEF TypeOK
      <4>2. \A k \in 1 .. Len(runs) : runs[k] \in LensRuns
        BY <4>1
      <4>3. \A run \in LensRuns : run.seat \in Seats
        BY DEF LensRuns
      <4> QED
        BY <4>2, <4>3
    <3>2. RunInv
      BY DEF IInv
    <3>3. RunsOf(d) = {}
      <4> SUFFICES ASSUME NEW k \in 1 .. Len(runs), runs[k].dispatch = d
                   PROVE  FALSE
        BY DEF RunsOf
      <4>1. runs[k].seat \in Seats
        BY <3>1
      <4> QED
        BY <2>1, <3>2, <4>1 DEF RunInv
    <3> QED
      BY <2>1, <3>3 DEF ArrivalsInv, Live
  <2>3. \A e \in Dispatches : stage'[e] = IF e = d THEN "gathering" ELSE stage[e]
    BY <1>1, <2>1 DEF TypeOK
  <2> QED
    BY <2>1, <2>2, <2>3 DEF ArrivalsInv, RunsOf, Live, Lists
<1>3. CASE SaveRun
  BY <1>1, <1>3, ArrivalsSaved
<1>4. CASE Crash
  <2>1. \A d \in Dispatches : stage'[d] \in {"idle", "lost"} /\ arrivals'[d] = <<>>
    BY <1>4 DEF Crash
  <2> QED
    BY <2>1 DEF ArrivalsInv, Live
<1>5. ASSUME NEW d \in Dispatches, SaveEvent(d)
      PROVE  ArrivalsInv'
  <2>1. \A e \in Dispatches : Live(e)' <=> Live(e)
    BY <1>1, <1>5 DEF SaveEvent, TypeOK, Live
  <2>2. UNCHANGED <<arrivals, runs>>
    BY <1>5 DEF SaveEvent
  <2> QED
    BY <1>1, <2>1, <2>2, ArrivalsKept
<1>6. ASSUME NEW d \in Dispatches, NEW s \in Seats, Fail(d, s)
      PROVE  ArrivalsInv'
  <2>1. stage[d] # "idle" /\ stage[d] # "lost"
    <3>1. watch[d] # Idle
      BY <1>6 DEF Fail, Idle
    <3> QED
      BY <3>1 DEF IInv, StageInv, Live
  <2>2. \A e \in Dispatches : Live(e)' <=> Live(e)
    <3>1. \A e \in Dispatches : stage'[e] = stage[e] \/ (e = d /\ stage'[e] = "raised")
      <4>1. stage \in [Dispatches -> Stages]
        BY <1>1 DEF TypeOK
      <4>2. stage' = [stage EXCEPT ![d] = IF @ = "gathering" THEN "raised" ELSE @]
        BY <1>6 DEF Fail
      <4>3. stage' = [stage EXCEPT ![d] = "raised"] \/ stage' = [stage EXCEPT ![d] = stage[d]]
        BY <4>2
      <4> QED
        BY <4>1, <4>3
    <3>2. Live(d)
      BY <1>1, <2>1 DEF Live, TypeOK, Stages
    <3> QED
      BY <3>1, <3>2 DEF Live
  <2>3. UNCHANGED <<arrivals, runs>>
    BY <1>6 DEF Fail, store
  <2> QED
    BY <1>1, <2>2, <2>3, ArrivalsKept
<1>7. ASSUME NEW d \in Dispatches, NEW s \in Seats,
             \/ Tick(d) \/ Heartbeat(d, s) \/ EndTask(d, s) \/ HonourCancel(d, s)
             \/ Fire(d, s) \/ Collect(d, s) \/ CollectTimeout(d, s)
      PROVE  ArrivalsInv'
  <2>1. UNCHANGED <<stage, arrivals, runs>>
    BY <1>7 DEF Tick, Heartbeat, EndTask, HonourCancel, Fire, Collect, CollectTimeout, store
  <2> QED
    BY <1>1, <2>1, ArrivalsKept DEF Live
<1>8. CASE SaveFinding \/ UNCHANGED vars
  <2>1. UNCHANGED <<stage, arrivals, runs>>
    BY <1>8 DEF SaveFinding, vars, process, store
  <2> QED
    BY <1>1, <2>1, ArrivalsKept DEF Live
<1>9. ASSUME NEW d \in Dispatches, Tick(d)
      PROVE  ArrivalsInv'
  BY <1>7, <1>9
<1> QED
  BY <1>2, <1>3, <1>4, <1>5, <1>6, <1>7, <1>8, <1>9 DEF Next, Finished

(* The completion order Round 2 labels its peers from is the store's save     *)
(* order.                                                                    *)
THEOREM ArrivalsFollowTheStore == Spec => []ArrivalsAreSaveOrder
<1>1. IInv /\ ArrivalsInv /\ [Next]_vars => ArrivalsInv'
  BY ArrivalsNext
<1>2. ArrivalsInv => ArrivalsAreSaveOrder
  BY DEF ArrivalsInv, ArrivalsAreSaveOrder, Lists
<1> QED
  BY <1>1, <1>2, ArrivalsInit, IInvHolds, PTL DEF Spec

(* A lens that has answered when its watchdog wakes is never timed out, and   *)
(* its own answer is what is persisted.                                      *)
THEOREM AnswersAreKept == Spec => AnswerInTimeIsKept
<1> DEFINE Kept == \A d \in Dispatches, s \in Seats :
             watch[d][s] = "waiting" /\ task[d][s] \in Answers =>
               /\ watch'[d][s] # "draining"
               /\ watch'[d][s] = "saving" => saving'.status = task[d][s]
<1>1. IInv /\ [Next]_vars => Kept \/ UNCHANGED vars
  <2> SUFFICES ASSUME IInv, Next, NEW d \in Dispatches, NEW s \in Seats,
                      watch[d][s] = "waiting", task[d][s] \in Answers
               PROVE  /\ watch'[d][s] # "draining"
                      /\ watch'[d][s] = "saving" => saving'.status = task[d][s]
    OBVIOUS
  <2>1. TypeOK
    BY DEF IInv
  <2>2. ASSUME NEW e \in Dispatches, Begin(e) \/ Tick(e) \/ SaveEvent(e)
        PROVE  watch'[d][s] = "waiting"
    <3>1. CASE Begin(e)
      BY <2>1, <3>1 DEF Begin, TypeOK
    <3>2. CASE Tick(e) \/ SaveEvent(e)
      BY <3>2 DEF Tick, SaveEvent
    <3> QED
      BY <2>2, <3>1, <3>2
  <2>3. ASSUME NEW e \in Dispatches, NEW r \in Seats,
               Heartbeat(e, r) \/ EndTask(e, r) \/ HonourCancel(e, r)
        PROVE  watch'[d][s] = "waiting"
    BY <2>3 DEF Heartbeat, EndTask, HonourCancel
  <2>4. ASSUME NEW e \in Dispatches, NEW r \in Seats, Fire(e, r)
        PROVE  watch'[d][s] = "waiting"
    BY <2>1, <2>4 DEF Fire, TypeOK, Answers
  <2>5. ASSUME NEW e \in Dispatches, NEW r \in Seats, Collect(e, r) \/ CollectTimeout(e, r)
        PROVE  \/ watch'[d][s] = "waiting"
               \/ watch'[d][s] = "saving" /\ saving'.status = task[d][s]
    <3>1. watch[e][r] = "draining" \/ Persist(e, r, task[e][r])
      BY <2>5 DEF Collect, CollectTimeout
    <3>2. watch' = [watch EXCEPT ![e][r] = "saving"]
      BY <2>5 DEF Collect, CollectTimeout, Persist
    <3>3. CASE e = d /\ r = s
      <4>1. Persist(d, s, task[d][s])
        BY <3>1, <3>3
      <4>2. saving'.status = task[d][s]
        BY <4>1 DEF Persist
      <4>3. watch'[d][s] = "saving"
        BY <2>1, <3>2, <3>3 DEF TypeOK
      <4> QED
        BY <4>2, <4>3
    <3>4. CASE ~ (e = d /\ r = s)
      BY <2>1, <3>2, <3>4 DEF TypeOK
    <3> QED
      BY <3>3, <3>4
  <2>6. ASSUME NEW e \in Dispatches, NEW r \in Seats, Fail(e, r)
        PROVE  watch'[d][s] \in {"waiting", "failed"}
    BY <2>1, <2>6 DEF Fail, TypeOK
  <2>7. CASE SaveFinding \/ SaveRun
    <3>1. CASE SaveFinding
      BY <3>1 DEF SaveFinding
    <3>2. CASE SaveRun
      <4>1. watch'[d][s] \in {"waiting", "returned"}
        BY <2>1, <3>2 DEF SaveRun, TypeOK
      <4> QED
        BY <4>1
    <3> QED
      BY <2>7, <3>1, <3>2
  <2>8. CASE Crash
    BY <2>8 DEF Crash, Idle
  <2>9. CASE Finished
    BY <2>9 DEF Finished, vars, process
  <2> QED
    BY <2>2, <2>3, <2>4, <2>5, <2>6, <2>7, <2>8, <2>9 DEF Next
<1> QED
  BY <1>1, IInvHolds, PTL DEF Spec, AnswerInTimeIsKept
-----------------------------------------------------------------------------
(* LensDispatch implements RoundPromise: what is due, recorded and closed      *)
(* moves one step of the promise at a time.                                   *)

Recorded == [d \in Dispatches |-> [s \in Seats |-> RecordedStatus(d, s)]]
Closed == [d \in Dispatches |-> Standing(d)]

\* A seat that is at work has no run in the store; the recorded status of another is
\* that of its one run.
LEMMA StatusOfRun ==
  ASSUME IInv, NEW d \in Dispatches, NEW s \in Seats
  PROVE  /\ Pending(d, s) => RecordedStatus(d, s) = "due"
         /\ \A k \in RunsOf(d) : runs[k].seat = s =>
              ~ Pending(d, s) /\ RecordedStatus(d, s) = runs[k].status
         /\ ~ Pending(d, s) /\ (\A k \in RunsOf(d) : runs[k].seat # s) =>
              RecordedStatus(d, s) = "absent"
<1> DEFINE mine == {k \in RunsOf(d) : runs[k].seat = s}
<1>1. ASSUME NEW k \in RunsOf(d), runs[k].seat = s
      PROVE  ~ Pending(d, s) /\ RecordedStatus(d, s) = runs[k].status
  <2>1. \A j \in mine : j = k
    BY <1>1 DEF IInv, OneRunPerSeat, RunsOf
  <2>2. k \in mine
    BY <1>1
  <2>3. mine # {} /\ (CHOOSE j \in mine : TRUE) = k
    BY <2>1, <2>2
  <2>4. ~ Pending(d, s)
    <3>1. watch[d][s] = "returned" \/ watch[d] = Idle
      BY <1>1 DEF IInv, RunInv, StageInv, Live, RunsOf
    <3> QED
      BY <3>1 DEF Pending, Idle
  <2> QED
    BY <2>3, <2>4 DEF RecordedStatus
<1>2. ~ Pending(d, s) /\ (\A k \in RunsOf(d) : runs[k].seat # s) =>
        RecordedStatus(d, s) = "absent"
  BY DEF RecordedStatus
<1>3. Pending(d, s) => RecordedStatus(d, s) = "due"
  BY DEF RecordedStatus
<1> QED
  BY <1>1, <1>2, <1>3

LEMMA SameRecord ==
  ASSUME UNCHANGED runs, NEW d \in Dispatches, NEW s \in Seats, Pending(d, s)' <=> Pending(d, s)
  PROVE  RecordedStatus(d, s)' = RecordedStatus(d, s)
<1>1. RunsOf(d)' = RunsOf(d)
  BY DEF RunsOf
<1> QED
  BY <1>1 DEF RecordedStatus

\* A step that neither saves a run nor starts or ends a seat or a round.
LEMMA QuietPromise ==
  ASSUME UNCHANGED <<stage, runs, events>>,
         \A d \in Dispatches, s \in Seats : Pending(d, s)' <=> Pending(d, s)
  PROVE  UNCHANGED Promise!promiseVars
<1>1. \A d \in Dispatches, s \in Seats : RecordedStatus(d, s)' = RecordedStatus(d, s)
  BY SameRecord
<1>2. \A d \in Dispatches : Standing(d)' = Standing(d)
  BY DEF Standing, HasEvent
<1> QED
  BY <1>1, <1>2 DEF Promise!promiseVars

LEMMA PromiseInit == Init => Promise!Init
<1> SUFFICES ASSUME Init PROVE Promise!Init
  OBVIOUS
<1>1. runs = <<>> /\ \A d \in Dispatches : RunsOf(d) = {}
  BY DEF Init, RunsOf
<1>2. \A d \in Dispatches, s \in Seats : RecordedStatus(d, s) = "absent"
  BY <1>1 DEF RecordedStatus, Pending, Init, Idle
<1>3. \A d \in Dispatches : Standing(d) = "unborn"
  BY DEF Init, Standing, HasEvent
<1> QED
  BY <1>2, <1>3 DEF Promise!Init

LEMMA OpenStep ==
  ASSUME IInv, NEW d \in Dispatches, Begin(d)
  PROVE  Promise!Open(d)
<1>1. /\ UNCHANGED <<runs, events>>
      /\ stage[d] = "idle" /\ ~ HasEvent(d)
      /\ stage' = [stage EXCEPT ![d] = "gathering"]
      /\ watch' = [watch EXCEPT ![d] = [s \in Seats |-> "waiting"]]
      /\ stage \in [Dispatches -> Stages] /\ watch \in [Dispatches -> [Seats -> WatchStates]]
  BY DEF Begin, FreshId, store, IInv, TypeOK, StageInv
<1>2. ASSUME NEW s \in Seats PROVE RecordedStatus(d, s)' = "due"
  BY <1>1 DEF RecordedStatus, Pending
<1>3. ASSUME NEW e \in Dispatches, e # d, NEW s \in Seats
      PROVE  RecordedStatus(e, s)' = RecordedStatus(e, s)
  BY <1>1, <1>3, SameRecord DEF Pending
<1>4. Recorded' = [Recorded EXCEPT ![d] = [s \in Seats |-> IF s \in Seats THEN "due" ELSE "absent"]]
  BY <1>2, <1>3 DEF Recorded
<1>5. Closed[d] = "unborn" /\ Closed' = [Closed EXCEPT ![d] = "open"]
  <2>1. Standing(d) = "unborn" /\ Standing(d)' = "open"
    BY <1>1 DEF Standing, HasEvent
  <2>2. \A e \in Dispatches : e # d => Standing(e)' = Standing(e)
    BY <1>1 DEF Standing, HasEvent
  <2> QED
    BY <2>1, <2>2 DEF Closed
<1>6. Seats \in SUBSET Seats
  OBVIOUS
<1> QED
  BY <1>4, <1>5, <1>6 DEF Promise!Open, Recorded, Closed

LEMMA RecordStep ==
  ASSUME IInv, IInv', SaveRun
  PROVE  \E d \in Dispatches, s \in Seats : Promise!Record(d, s)
<1> DEFINE new == Len(runs) + 1
<1>1. PICK d \in Dispatches, s \in Seats :
        /\ d = saving.dispatch /\ s = saving.seat /\ saving.status \in Statuses
        /\ stage[d] \in {"gathering", "raised"} /\ watch[d][s] = "saving"
  <2>1. saving # NoSave
    BY DEF SaveRun, AllFindingsSaved
  <2>2. saving.dispatch \in Dispatches /\ saving.seat \in Seats /\ saving.status \in Statuses
    BY <2>1 DEF IInv, TypeOK, Saves
  <2>3. /\ stage[saving.dispatch] \in {"gathering", "raised"}
        /\ watch[saving.dispatch][saving.seat] = "saving"
    BY <2>1 DEF IInv, SavingInv
  <2> QED
    BY <2>2, <2>3
<1>2. /\ runs' = Append(runs, [dispatch |-> d, seat |-> s, status |-> saving.status])
      /\ UNCHANGED <<stage, events>>
      /\ watch' = [watch EXCEPT ![d][s] = "returned"]
      /\ watch \in [Dispatches -> [Seats -> WatchStates]]
  BY <1>1 DEF SaveRun, RunsWith, IInv, TypeOK
<1>3. /\ new \in Nat \ {0} /\ Len(runs) \in Nat /\ Len(runs') = new
      /\ \A k \in 1 .. Len(runs) : runs'[k] = runs[k]
      /\ runs'[new] = [dispatch |-> d, seat |-> s, status |-> saving.status]
  <2>1. runs \in Seq(LensRuns)
    BY DEF IInv, TypeOK
  <2>2. [dispatch |-> d, seat |-> s, status |-> saving.status] \in LensRuns
    BY <1>1 DEF LensRuns
  <2> QED
    BY <1>2, <2>1, <2>2
<1> HIDE DEF new
<1>4. \A e \in Dispatches : RunsOf(e)' = IF e = d THEN RunsOf(d) \cup {new} ELSE RunsOf(e)
  BY <1>3 DEF RunsOf, new
<1>5. \A k \in RunsOf(d) : runs[k].seat # s
  BY <1>1 DEF IInv, RunInv, RunsOf
<1>6. RecordedStatus(d, s) = "due" /\ ~ Pending(d, s)'
  BY <1>1, <1>2 DEF RecordedStatus, Pending
<1>7. RecordedStatus(d, s)' = saving.status
  <2>1. new \in RunsOf(d)' /\ runs'[new].seat = s /\ runs'[new].status = saving.status
    BY <1>1, <1>3, <1>4
  <2>2. \A k \in RunsOf(d)' : runs'[k].seat = s => k = new
    BY <1>3, <1>4, <1>5 DEF RunsOf
  <2>3. (CHOOSE k \in {j \in RunsOf(d)' : runs'[j].seat = s} : TRUE) = new
    BY <2>1, <2>2
  <2> QED
    BY <1>6, <2>1, <2>3 DEF RecordedStatus
<1>8. ASSUME NEW e \in Dispatches, NEW r \in Seats, ~ (e = d /\ r = s)
      PROVE  RecordedStatus(e, r)' = RecordedStatus(e, r)
  <2>0. Pending(e, r)' <=> Pending(e, r)
    BY <1>1, <1>2, <1>8 DEF Pending
  <2>1. {k \in RunsOf(e)' : runs'[k].seat = r} = {k \in RunsOf(e) : runs[k].seat = r}
    BY <1>3, <1>4, <1>8 DEF RunsOf, new
  <2>2. \A k \in RunsOf(e) : runs'[k] = runs[k]
    BY <1>3 DEF RunsOf
  <2>3. CASE {k \in RunsOf(e) : runs[k].seat = r} = {}
    BY <2>0, <2>1, <2>3 DEF RecordedStatus
  <2>4. CASE {k \in RunsOf(e) : runs[k].seat = r} # {}
    <3> DEFINE one == CHOOSE k \in {j \in RunsOf(e) : runs[j].seat = r} : TRUE
    <3>0. \A k \in RunsOf(e) : runs[k].seat = r => ~ Pending(e, r)
      BY StatusOfRun
    <3>1. one \in RunsOf(e) /\ ~ Pending(e, r) /\ RecordedStatus(e, r) = runs[one].status
      BY <2>4, <3>0 DEF RecordedStatus
    <3>2. (CHOOSE k \in {j \in RunsOf(e)' : runs'[j].seat = r} : TRUE) = one
      BY <2>1
    <3>3. RecordedStatus(e, r)' = runs'[one].status
      BY <2>0, <2>1, <2>4, <3>1, <3>2 DEF RecordedStatus
    <3> QED
      BY <2>2, <3>1, <3>3
  <2> QED
    BY <2>3, <2>4
<1>9. Recorded' = [Recorded EXCEPT ![d][s] = saving.status]
  <2> DEFINE Row(e) == [r \in Seats |-> RecordedStatus(e, r)]
  <2>1. /\ Recorded = [e \in Dispatches |-> Row(e)]
        /\ Recorded' = [e \in Dispatches |-> Row(e)']
    BY DEF Recorded
  <2>2. ASSUME NEW e \in Dispatches
        PROVE  Row(e)' = IF e = d THEN [Row(d) EXCEPT ![s] = saving.status] ELSE Row(e)
    BY <1>7, <1>8
  <2> HIDE DEF Row
  <2>3. Recorded' = [e \in Dispatches |->
                       IF e = d THEN [Row(d) EXCEPT ![s] = saving.status] ELSE Row(e)]
    BY <2>1, <2>2
  <2> QED
    BY <2>1, <2>3
<1>10. Closed' = Closed
  BY <1>2 DEF Closed, Standing, HasEvent
<1>11. Promise!Record(d, s)
  BY <1>1, <1>6, <1>9, <1>10 DEF Promise!Record, Recorded, Closed
<1> QED
  BY <1>1, <1>11

LEMMA CompleteStep ==
  ASSUME IInv, NEW d \in Dispatches, SaveEvent(d)
  PROVE  Promise!Complete(d)
<1>1. /\ stage[d] = "gathering" /\ ~ HasEvent(d)
      /\ \A s \in Seats : watch[d][s] = "returned"
      /\ UNCHANGED <<runs, watch>>
  BY DEF SaveEvent, IInv, StageInv
<1>2. /\ \A e \in Dispatches : e # d => stage'[e] = stage[e] /\ events'[e] = events[e]
      /\ events'[d] = returned[d]
  BY DEF SaveEvent, IInv, TypeOK
<1>3. ASSUME NEW s \in Seats
      PROVE  returned[d][s] # NotSaved /\ RecordedStatus(d, s) # "due"
  <2> DEFINE k == returned[d][s]
  <2>1. k # NotSaved /\ k \in RunsOf(d) /\ runs[k].seat = s
    BY <1>1 DEF IInv, ReturnedInv, RunsOf
  <2>2. runs[k] \in LensRuns
    BY <2>1 DEF IInv, TypeOK, RunsOf
  <2>3. runs[k].status # "due"
    BY <2>2 DEF LensRuns, Statuses, Answers
  <2> QED
    BY <2>1, <2>3, StatusOfRun
<1>4. events'[d] # NoneReturned
  BY <1>2, <1>3 DEF NoneReturned
<1>5. Closed' = [Closed EXCEPT ![d] = "complete"]
  <2>1. Standing(d)' = "complete"
    BY <1>4 DEF Standing, HasEvent
  <2>2. \A e \in Dispatches : e # d => Standing(e)' = Standing(e)
    BY <1>2 DEF Standing, HasEvent
  <2> QED
    BY <2>1, <2>2 DEF Closed
<1>6. Closed[d] = "open" /\ Recorded' = Recorded
  <2>1. \A e \in Dispatches, s \in Seats : RecordedStatus(e, s)' = RecordedStatus(e, s)
    BY <1>1, SameRecord DEF Pending
  <2> QED
    BY <1>1, <2>1 DEF Recorded, Closed, Standing
<1>7. \A s \in Seats : Recorded[d][s] # "due"
  BY <1>3 DEF Recorded
<1> QED
  BY <1>5, <1>6, <1>7 DEF Promise!Complete, Recorded, Closed

LEMMA LoseStep ==
  ASSUME IInv, NEW d \in Dispatches, NEW s \in Seats, Fail(d, s)
  PROVE  Promise!Lose(d, s)
<1>1. /\ UNCHANGED <<runs, events>>
      /\ stage' = [stage EXCEPT ![d] = IF @ = "gathering" THEN "raised" ELSE @]
      /\ watch[d][s] = "waiting" /\ watch' = [watch EXCEPT ![d][s] = "failed"]
      /\ stage \in [Dispatches -> Stages] /\ watch \in [Dispatches -> [Seats -> WatchStates]]
  BY DEF Fail, store, IInv, TypeOK
<1>2. RecordedStatus(d, s) = "due" /\ RecordedStatus(d, s)' = "absent"
  <2>1. Pending(d, s) /\ ~ Pending(d, s)' /\ RunsOf(d)' = RunsOf(d)
    BY <1>1 DEF Pending, RunsOf
  <2>2. \A k \in RunsOf(d) : runs[k].seat # s
    BY <2>1, StatusOfRun
  <2> QED
    BY <1>1, <2>1, <2>2 DEF RecordedStatus
<1>3. ASSUME NEW e \in Dispatches, NEW r \in Seats, ~ (e = d /\ r = s)
      PROVE  RecordedStatus(e, r)' = RecordedStatus(e, r)
  <2>1. watch'[e][r] = watch[e][r]
    BY <1>1, <1>3
  <2> QED
    BY <1>1, <2>1, SameRecord DEF Pending
<1>4. Recorded' = [Recorded EXCEPT ![d][s] = "absent"]
  <2> DEFINE Row(e) == [r \in Seats |-> RecordedStatus(e, r)]
  <2>1. Recorded = [e \in Dispatches |-> Row(e)] /\ Recorded' = [e \in Dispatches |-> Row(e)']
    BY DEF Recorded
  <2>2. ASSUME NEW e \in Dispatches
        PROVE  Row(e)' = IF e = d THEN [Row(d) EXCEPT ![s] = "absent"] ELSE Row(e)
    BY <1>2, <1>3
  <2> HIDE DEF Row
  <2> QED
    BY <2>1, <2>2
<1>5. Closed' = [Closed EXCEPT ![d] = Promise!Breaks(@)]
  <2>1. Standing(d)' = Promise!Breaks(Standing(d))
    <3>1. stage'[d] = IF stage[d] = "gathering" THEN "raised" ELSE stage[d]
      BY <1>1
    <3>2. stage[d] = "gathering" => ~ HasEvent(d)
      BY DEF IInv, StageInv
    <3> QED
      BY <1>1, <3>1, <3>2 DEF Standing, HasEvent, Promise!Breaks
  <2>2. \A e \in Dispatches : e # d => Standing(e)' = Standing(e)
    BY <1>1 DEF Standing, HasEvent
  <2> QED
    BY <2>1, <2>2 DEF Closed
<1> QED
  BY <1>2, <1>4, <1>5 DEF Promise!Lose, Recorded, Closed

LEMMA DieStep ==
  ASSUME IInv, Crash
  PROVE  Promise!Die
<1>1. /\ \A d \in Dispatches : stage'[d] = IF stage[d] = "idle" THEN "idle" ELSE "lost"
      /\ UNCHANGED <<runs, events>>
      /\ \A d \in Dispatches, s \in Seats : ~ Pending(d, s)'
  BY DEF Crash, store, Pending, Idle
<1>2. ASSUME NEW d \in Dispatches, NEW s \in Seats
      PROVE  RecordedStatus(d, s)' =
               IF RecordedStatus(d, s) = "due" THEN "absent" ELSE RecordedStatus(d, s)
  <2>1. CASE Pending(d, s)
    <3>1. RecordedStatus(d, s) = "due" /\ \A k \in RunsOf(d) : runs[k].seat # s
      BY <2>1, StatusOfRun
    <3>2. RecordedStatus(d, s)' = "absent"
      BY <1>1, <3>1 DEF RecordedStatus, RunsOf
    <3> QED
      BY <3>1, <3>2
  <2>2. CASE ~ Pending(d, s)
    <3>1. RecordedStatus(d, s)' = RecordedStatus(d, s)
      BY <1>1, <2>2, SameRecord
    <3>2. RecordedStatus(d, s) # "due"
      <4>1. CASE \A k \in RunsOf(d) : runs[k].seat # s
        BY <2>2, <4>1, StatusOfRun
      <4>2. ASSUME NEW k \in RunsOf(d), runs[k].seat = s PROVE RecordedStatus(d, s) # "due"
        <5>1. RecordedStatus(d, s) = runs[k].status /\ runs[k] \in LensRuns
          BY <4>2, StatusOfRun DEF IInv, TypeOK, RunsOf
        <5> QED
          BY <5>1 DEF LensRuns, Statuses, Answers
      <4> QED
        BY <4>1, <4>2
    <3> QED
      BY <3>1, <3>2
  <2> QED
    BY <2>1, <2>2
<1>3. ASSUME NEW d \in Dispatches PROVE Standing(d)' = Promise!Breaks(Standing(d))
  BY <1>1 DEF Standing, HasEvent, Promise!Breaks
<1>4. Recorded' = [d \in Dispatches |-> [s \in Seats |->
                    IF Recorded[d][s] = "due" THEN "absent" ELSE Recorded[d][s]]]
  BY <1>2 DEF Recorded
<1>5. Closed' = [d \in Dispatches |-> Promise!Breaks(Closed[d])]
  BY <1>3 DEF Closed
<1> QED
  BY <1>4, <1>5 DEF Promise!Die, Recorded, Closed

LEMMA PromiseStep ==
  ASSUME IInv, IInv', [Next]_vars
  PROVE  [Promise!Next]_(Promise!promiseVars)
<1>1. ASSUME UNCHANGED <<stage, runs, events, watch>>
      PROVE  UNCHANGED Promise!promiseVars
  BY <1>1, QuietPromise DEF Pending
<1>2. ASSUME NEW d \in Dispatches, NEW s \in Seats,
             Fire(d, s) \/ Collect(d, s) \/ CollectTimeout(d, s)
      PROVE  UNCHANGED Promise!promiseVars
  <2>1. /\ UNCHANGED <<stage, runs, events>>
        /\ watch[d][s] \in {"waiting", "draining"}
        /\ \/ watch' = [watch EXCEPT ![d][s] = "draining"]
           \/ watch' = [watch EXCEPT ![d][s] = "saving"]
        /\ watch \in [Dispatches -> [Seats -> WatchStates]]
    BY <1>2 DEF Fire, Collect, CollectTimeout, Persist, store, IInv, TypeOK
  <2>2. \A e \in Dispatches, r \in Seats : Pending(e, r)' <=> Pending(e, r)
    BY <2>1 DEF Pending
  <2> QED
    BY <2>1, <2>2, QuietPromise
<1>3. ASSUME NEW d \in Dispatches, NEW s \in Seats,
             Tick(d) \/ Heartbeat(d, s) \/ EndTask(d, s) \/ HonourCancel(d, s)
      PROVE  UNCHANGED <<stage, runs, events, watch>>
  BY <1>3 DEF Tick, Heartbeat, EndTask, HonourCancel, store
<1>4. ASSUME NEW d \in Dispatches, Begin(d) PROVE Promise!Next
  BY <1>4, OpenStep DEF Promise!Next
<1>5. CASE SaveRun
  BY <1>5, RecordStep DEF Promise!Next
<1>6. ASSUME NEW d \in Dispatches, SaveEvent(d) PROVE Promise!Next
  BY <1>6, CompleteStep DEF Promise!Next
<1>7. ASSUME NEW d \in Dispatches, NEW s \in Seats, Fail(d, s) PROVE Promise!Next
  BY <1>7, LoseStep DEF Promise!Next
<1>8. CASE Crash
  BY <1>8, DieStep DEF Promise!Next
<1>9. CASE SaveFinding \/ UNCHANGED vars
  BY <1>1, <1>9 DEF SaveFinding, vars, process, store
<1> QED
  <2>1. Seats # {}
    OBVIOUS
  <2> QED
    BY <1>1, <1>2, <1>3, <1>4, <1>5, <1>6, <1>7, <1>8, <1>9, <2>1 DEF Next, Finished

(* Whatever happens inside a dispatch, the layers above see a round that       *)
(* records each seat once, completes only as a whole, and breaks otherwise     *)
(* (round1.py:52-63 and 185-254).                                             *)
THEOREM PromiseKept == Spec => KeepsPromise
<1>1. IInv /\ IInv' /\ [Next]_vars => [Promise!Next]_(Promise!promiseVars)
  BY PromiseStep
<1> QED
  BY <1>1, PromiseInit, IInvHolds, PTL DEF Spec, KeepsPromise, Promise!Spec
=============================================================================
