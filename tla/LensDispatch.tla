----------------------------- MODULE LensDispatch -----------------------------
(***************************************************************************)
(* One panel dispatch, as both round controllers run it: every seat of the *)
(* panel gets a lens task under a timeout watchdog, the seats are gathered  *)
(* on one asyncio loop, each outcome is persisted as it arrives, and the    *)
(* DispatchEvent is saved once all the seats are in.                        *)
(*                                                                          *)
(* Source: runtime/round1.py (_run_with_timeouts, run_round_1),             *)
(* runtime/run_lens.py (persist_outcome), store/sqlite.py.  run_round_2     *)
(* gathers its participants the same way (runtime/round2.py:244-272).       *)
(*                                                                          *)
(* The store is durable: every save commits on its own (autocommit).        *)
(* Everything else lives in the process and is gone after a Crash, after    *)
(* which the caller may dispatch again under a fresh dispatch event id.     *)
(***************************************************************************)
EXTENDS Integers, Sequences

CONSTANTS
  Seats,              \* positions of the panel tuple, one LensRun each
  FindingsPerRun,     \* findings a succeeded outcome carries
  HardTimeout,        \* hard_timeout_seconds, in watchdog ticks
  NoProgressTimeout,  \* no_progress_timeout_seconds, in watchdog ticks
  ClockBound,         \* bound: elapsed time saturates here
  DispatchBound       \* bound: dispatches the caller starts

ASSUME SeatsAssumption == Seats # {}
ASSUME FindingsAssumption == FindingsPerRun \in Nat
ASSUME TimeoutAssumption ==
  /\ HardTimeout \in Nat \ {0}
  /\ NoProgressTimeout \in Nat \ {0}
  /\ ClockBound \in Nat
  /\ ClockBound >= HardTimeout
ASSUME DispatchAssumption == DispatchBound \in Nat

Dispatches == 1 .. DispatchBound

\* LensRunStatus of an outcome run_lens returns by itself; "timeout" is only
\* ever produced by the watchdog.
Answers == {"succeeded", "refused", "schema_invalid"}
Statuses == Answers \cup {"timeout"}

VARIABLES
  stage,      \* stage[d]: where the controller call for dispatch d is
  watch,      \* watch[d][s]: control state of _run_one for seat s
  task,       \* task[d][s]: the lens coroutine the watchdog started
  elapsed,    \* elapsed[d][s]: now - start of a waiting watchdog, in ticks
  silent,     \* silent[d][s]: now - last_progress of a waiting watchdog
  saving,     \* the seat whose persist_outcome holds the event loop
  returned,   \* returned[d][s]: position in runs of the LensRun _run_one returned
  arrivals,   \* arrivals[d]: completion_order, as positions in runs
  findings,   \* store: ids of the saved findings
  runs,       \* store: saved LensRuns, in save order
  events      \* store: saved DispatchEvents; events[d] lists run positions

process == <<stage, watch, task, elapsed, silent, saving, returned, arrivals>>
store == <<findings, runs, events>>
vars == <<process, store>>

NoSave == [dispatch |-> 0]
NotSaved == 0

\* A finding id: minted by the lens task of one seat of one dispatch.
FindingIds == Dispatches \X Seats \X (1 .. FindingsPerRun)
DraftsOf(d, s) == {<<d, s, n>> : n \in 1 .. FindingsPerRun}

\* The saved LensRun.  "seat" stands for its lens_id: the panel tuple's
\* position the run was made for.
LensRuns == [dispatch : Dispatches, seat : Seats, status : Statuses]

Idle == [s \in Seats |-> "idle"]
NoneReturned == [s \in Seats |-> NotSaved]
Zero == [s \in Seats |-> 0]

Init ==
  /\ stage = [d \in Dispatches |-> "idle"]
  /\ watch = [d \in Dispatches |-> Idle]
  /\ task = [d \in Dispatches |-> Idle]
  /\ elapsed = [d \in Dispatches |-> Zero]
  /\ silent = [d \in Dispatches |-> Zero]
  /\ saving = NoSave
  /\ returned = [d \in Dispatches |-> NoneReturned]
  /\ arrivals = [d \in Dispatches |-> <<>>]
  /\ findings = {}
  /\ runs = <<>>
  /\ events = [d \in Dispatches |-> NoneReturned]

-----------------------------------------------------------------------------

\* No coroutine runs between two saves of a persist_outcome: it has no await.
LoopFree == saving = NoSave

Alive(d, s) == watch[d][s] \in {"waiting", "draining"}

\* _run_with_timeouts is over for this seat, and its locals with it.
ForgetWatchdog(d, s) ==
  /\ task' = [task EXCEPT ![d][s] = "idle"]
  /\ elapsed' = [elapsed EXCEPT ![d][s] = 0]
  /\ silent' = [silent EXCEPT ![d][s] = 0]

\* Mutant: a dispatch lost in a crash is run again under its old id.
ResumedId(d) == stage[d] \in {"idle", "lost"}

\* Every call mints a dispatch event id of its own (round1.py:207).
FreshId(d) == stage[d] = "idle"

\* run_round_1 is called: mints the event id and starts every seat's task.
\* The caller awaits one call before it makes the next.
Begin(d) ==
  /\ LoopFree
  /\ FreshId(d)
  /\ \A e \in Dispatches : e < d => stage[e] \notin {"idle", "gathering"}
  /\ stage' = [stage EXCEPT ![d] = "gathering"]
  /\ watch' = [watch EXCEPT ![d] = [s \in Seats |-> "waiting"]]
  /\ task' = [task EXCEPT ![d] = [s \in Seats |-> "running"]]
  /\ UNCHANGED <<elapsed, silent, saving, returned, arrivals, store>>

\* Time passes for the watchdogs of d that are waiting on their lens.
Tick(d) ==
  LET waiting == {s \in Seats : watch[d][s] = "waiting"}
      Later(f) == [s \in Seats |-> IF s \in waiting THEN f[s] + 1 ELSE f[s]]
  IN /\ LoopFree
     /\ waiting # {}
     /\ \A s \in waiting : elapsed[d][s] < ClockBound
     /\ elapsed' = [elapsed EXCEPT ![d] = Later(@)]
     /\ silent' = [silent EXCEPT ![d] = Later(@)]
     /\ UNCHANGED <<stage, watch, task, saving, returned, arrivals, store>>

\* The lens task calls its progress callback.
Heartbeat(d, s) ==
  /\ LoopFree
  /\ watch[d][s] = "waiting"
  /\ task[d][s] = "running"
  /\ silent' = [silent EXCEPT ![d][s] = 0]
  /\ UNCHANGED <<stage, watch, task, elapsed, saving, returned, arrivals, store>>

\* The lens task returns an outcome, or raises.  A cancelled task may still do
\* either: nothing stops a coroutine from catching CancelledError.
EndTask(d, s) ==
  /\ LoopFree
  /\ Alive(d, s)
  /\ task[d][s] = "running"
  /\ \E end \in Answers \cup {"raised"} :
       task' = [task EXCEPT ![d][s] = end]
  /\ UNCHANGED <<stage, watch, elapsed, silent, saving, returned, arrivals, store>>

\* The cancellation the watchdog requested ends the task.
HonourCancel(d, s) ==
  /\ LoopFree
  /\ watch[d][s] = "draining"
  /\ task[d][s] = "running"
  /\ task' = [task EXCEPT ![d][s] = "cancelled"]
  /\ UNCHANGED <<stage, watch, elapsed, silent, saving, returned, arrivals, store>>

\* Mutant: no hard ceiling.
SilentTooLong(d, s) == silent[d][s] >= NoProgressTimeout

Expired(d, s) ==
  \/ elapsed[d][s] >= HardTimeout
  \/ silent[d][s] >= NoProgressTimeout

\* Mutant: the limits are looked at before the done set.
FireWithoutLooking(d, s) ==
  /\ LoopFree
  /\ watch[d][s] = "waiting"
  /\ Expired(d, s)
  /\ watch' = [watch EXCEPT ![d][s] = "draining"]
  /\ elapsed' = [elapsed EXCEPT ![d][s] = 0]
  /\ silent' = [silent EXCEPT ![d][s] = 0]
  /\ UNCHANGED <<stage, task, saving, returned, arrivals, store>>

\* Mutant: the watchdogs stop with the gather that started them.
FireWhileGathered(d, s) == stage[d] = "gathering" /\ FireWithoutLooking(d, s)

\* The watchdog wakes on its tick, finds the task not done and over a limit,
\* and cancels it.
Fire(d, s) ==
  /\ LoopFree
  /\ watch[d][s] = "waiting"
  /\ task[d][s] = "running"
  /\ Expired(d, s)
  /\ watch' = [watch EXCEPT ![d][s] = "draining"]
  /\ elapsed' = [elapsed EXCEPT ![d][s] = 0]
  /\ silent' = [silent EXCEPT ![d][s] = 0]
  /\ UNCHANGED <<stage, task, saving, returned, arrivals, store>>

\* _run_with_timeouts returns and persist_outcome takes the loop.
Persist(d, s, status) ==
  /\ saving' = [dispatch |-> d, seat |-> s, status |-> status,
                left |-> IF status = "succeeded" THEN FindingsPerRun ELSE 0]
  /\ watch' = [watch EXCEPT ![d][s] = "saving"]
  /\ ForgetWatchdog(d, s)

\* The watchdog sees the task done: the outcome is the task's, however late.
Collect(d, s) ==
  /\ LoopFree
  /\ watch[d][s] = "waiting"
  /\ task[d][s] \in Answers
  /\ Persist(d, s, task[d][s])
  /\ UNCHANGED <<stage, returned, arrivals, store>>

\* Mutant: the drained task's own end is stored as the run's status.
CollectRawEnd(d, s) ==
  /\ LoopFree
  /\ watch[d][s] = "draining"
  /\ task[d][s] # "running"
  /\ Persist(d, s, task[d][s])
  /\ UNCHANGED <<stage, returned, arrivals, store>>

\* The drain ends: whatever the task did since the cancel is dropped.
CollectTimeout(d, s) ==
  /\ LoopFree
  /\ watch[d][s] = "draining"
  /\ task[d][s] # "running"
  /\ Persist(d, s, "timeout")
  /\ UNCHANGED <<stage, returned, arrivals, store>>

\* The task raised before any timeout: the exception leaves _run_one, and
\* gather hands the first one to the caller while the other seats run on.
Fail(d, s) ==
  /\ LoopFree
  /\ watch[d][s] = "waiting"
  /\ task[d][s] = "raised"
  /\ watch' = [watch EXCEPT ![d][s] = "failed"]
  /\ ForgetWatchdog(d, s)
  /\ stage' = [stage EXCEPT ![d] = IF @ = "gathering" THEN "raised" ELSE @]
  /\ UNCHANGED <<saving, returned, arrivals, store>>

\* persist_outcome saves the findings one by one ...
SaveFinding ==
  /\ saving # NoSave
  /\ saving.left > 0
  /\ findings' = findings \cup {<<saving.dispatch, saving.seat, saving.left>>}
  /\ saving' = [saving EXCEPT !.left = @ - 1]
  /\ UNCHANGED <<stage, watch, task, elapsed, silent, returned, arrivals, runs, events>>

\* Mutant: the LensRun does not wait for its findings.
AnyFindingsSaved == saving # NoSave

AllFindingsSaved == saving # NoSave /\ saving.left = 0

\* Mutant: nothing more is recorded once the round has raised.
RunsUnlessRaised(d, s) ==
  IF stage[d] = "raised" THEN runs
  ELSE Append(runs, [dispatch |-> d, seat |-> s, status |-> saving.status])

RunsWith(d, s) ==
  Append(runs, [dispatch |-> d, seat |-> s, status |-> saving.status])

\* Mutant: only the runs Round 2 can use are noted.
SucceededArrivals(d, k) ==
  IF saving.status = "succeeded" THEN [arrivals EXCEPT ![d] = Append(@, k)] ELSE arrivals

ArrivalsWith(d, k) == [arrivals EXCEPT ![d] = Append(@, k)]

\* ... then the LensRun; _run_one notes the arrival and returns.
SaveRun ==
  /\ AllFindingsSaved
  /\ LET d == saving.dispatch
         s == saving.seat
         k == Len(runs) + 1
     IN /\ runs' = RunsWith(d, s)
        /\ arrivals' = ArrivalsWith(d, k)
        /\ returned' = [returned EXCEPT ![d][s] = k]
        /\ watch' = [watch EXCEPT ![d][s] = "returned"]
  /\ saving' = NoSave
  /\ UNCHANGED <<stage, task, elapsed, silent, findings, events>>

\* Mutant: gather(return_exceptions=True), and the event lists what there is.
SaveEventRegardless(d) ==
  /\ LoopFree
  /\ stage[d] \in {"gathering", "raised"}
  /\ \A s \in Seats : watch[d][s] \in {"returned", "failed"}
  /\ \E s \in Seats : watch[d][s] = "returned"
  /\ events' = [events EXCEPT ![d] = returned[d]]
  /\ stage' = [stage EXCEPT ![d] = "recorded"]
  /\ UNCHANGED <<watch, task, elapsed, silent, saving, returned, arrivals, findings, runs>>

\* gather returns once every seat has: the DispatchEvent lists the runs in
\* panel order, and the controller returns its result.
SaveEvent(d) ==
  /\ LoopFree
  /\ stage[d] = "gathering"
  /\ \A s \in Seats : watch[d][s] = "returned"
  /\ events' = [events EXCEPT ![d] = returned[d]]
  /\ stage' = [stage EXCEPT ![d] = "recorded"]
  /\ UNCHANGED <<watch, task, elapsed, silent, saving, returned, arrivals, findings, runs>>

\* The process dies between any two commits; only the store is left.
Crash ==
  /\ \E d \in Dispatches : stage[d] \in {"gathering", "raised"}
  /\ stage' = [d \in Dispatches |-> IF stage[d] = "idle" THEN "idle" ELSE "lost"]
  /\ watch' = [d \in Dispatches |-> Idle]
  /\ task' = [d \in Dispatches |-> Idle]
  /\ elapsed' = [d \in Dispatches |-> Zero]
  /\ silent' = [d \in Dispatches |-> Zero]
  /\ saving' = NoSave
  /\ returned' = [d \in Dispatches |-> NoneReturned]
  /\ arrivals' = [d \in Dispatches |-> <<>>]
  /\ UNCHANGED store

\* Nothing is left to run: the bounded caller is through.
Finished ==
  /\ LoopFree
  /\ \A d \in Dispatches : stage[d] \notin {"idle", "gathering"}
  /\ \A d \in Dispatches, s \in Seats : ~ Alive(d, s)
  /\ UNCHANGED vars

Next ==
  \/ \E d \in Dispatches :
       \/ Begin(d)
       \/ Tick(d)
       \/ SaveEvent(d)
       \/ \E s \in Seats :
            \/ Heartbeat(d, s)
            \/ EndTask(d, s)
            \/ HonourCancel(d, s)
            \/ Fire(d, s)
            \/ Collect(d, s)
            \/ CollectTimeout(d, s)
            \/ Fail(d, s)
  \/ SaveFinding
  \/ SaveRun
  \/ Crash
  \/ Finished

Spec == Init /\ [][Next]_vars

-----------------------------------------------------------------------------
(* Fairness: the event loop serves every ready callback and time passes, and *)
(* a cancelled task ends (run_lens never catches CancelledError).  Nothing is *)
(* assumed of a lens that has not been cancelled: it may hang for ever, with  *)
(* or without heartbeats.  The caller need not dispatch at all.              *)

SeatFairness(d, s) ==
  /\ WF_vars(HonourCancel(d, s))
  /\ WF_vars(Fire(d, s))
  /\ WF_vars(Collect(d, s))
  /\ WF_vars(CollectTimeout(d, s))
  /\ WF_vars(Fail(d, s))

Fairness ==
  /\ WF_vars(SaveFinding)
  /\ WF_vars(SaveRun)
  /\ \A d \in Dispatches :
       /\ WF_vars(Tick(d))
       /\ WF_vars(SaveEvent(d))
       /\ \A s \in Seats : SeatFairness(d, s)

FairSpec == Spec /\ Fairness

-----------------------------------------------------------------------------
Stages == {"idle", "gathering", "raised", "recorded", "lost"}
WatchStates == {"idle", "waiting", "draining", "saving", "returned", "failed"}
TaskStates == Answers \cup {"idle", "running", "raised", "cancelled"}
Saves == [dispatch : Dispatches, seat : Seats, status : Statuses, left : 0 .. FindingsPerRun]

(* Every variable has its type; in particular no stored LensRun carries a     *)
(* state the watchdog or the task only uses internally (round1.py:215-230).  *)
TypeOK ==
  /\ stage \in [Dispatches -> Stages]
  /\ watch \in [Dispatches -> [Seats -> WatchStates]]
  /\ task \in [Dispatches -> [Seats -> TaskStates]]
  /\ elapsed \in [Dispatches -> [Seats -> 0 .. ClockBound]]
  /\ silent \in [Dispatches -> [Seats -> Nat]]
  /\ saving \in Saves \cup {NoSave}
  /\ runs \in Seq(LensRuns)
  /\ returned \in [Dispatches -> [Seats -> Nat]]
  /\ arrivals \in [Dispatches -> Seq(Nat)]
  /\ findings \in SUBSET FindingIds
  /\ events \in [Dispatches -> [Seats -> Nat]]

HasEvent(d) == events[d] # NoneReturned

RunsOf(d) == {k \in 1 .. Len(runs) : runs[k].dispatch = d}

(* A lens is run once per dispatch (round1.py:90-92, "no auto-retry"): the    *)
(* store never holds two LensRuns of one seat of one dispatch, whatever      *)
(* crashes, late answers and later dispatches there are.                     *)
OneRunPerSeat ==
  \A i, j \in 1 .. Len(runs) :
    runs[i].dispatch = runs[j].dispatch /\ runs[i].seat = runs[j].seat => i = j

(* A stored DispatchEvent lists one stored LensRun of its own dispatch for    *)
(* every seat, in panel order (round1.py:234-242): a reader who finds the    *)
(* event finds the whole round, even if the process died right after.        *)
EventIsComplete ==
  \A d \in Dispatches : HasEvent(d) =>
    \A s \in Seats :
      /\ events[d][s] \in RunsOf(d)
      /\ runs[events[d][s]].seat = s

(* A succeeded LensRun in the store has every one of its findings there       *)
(* (run_lens.py:291-302 saves them first), and a LensRun that did not succeed *)
(* has none: findings of a lens that answered after its timeout never leak.  *)
RunsHaveTheirFindings ==
  \A k \in 1 .. Len(runs) :
    LET drafts == DraftsOf(runs[k].dispatch, runs[k].seat)
    IN  IF runs[k].status = "succeeded"
        THEN drafts \subseteq findings
        ELSE drafts \cap findings = {}

(* A finding without a LensRun is being saved right now, or its process died  *)
(* in the middle of persist_outcome (run_lens.py:291-342).                   *)
OrphanFindingMeansCrash ==
  \A f \in findings :
    \/ \E k \in RunsOf(f[1]) : runs[k].seat = f[2]
    \/ saving # NoSave /\ saving.dispatch = f[1] /\ saving.seat = f[2]
    \/ stage[f[1]] = "lost"

(* runs_in_completion_order (round1.py:213, 229), from which Round 2 labels   *)
(* its peers, is exactly the order in which the store saved the dispatch's   *)
(* runs, so the store alone can give the labels back after a restart.        *)
ArrivalsAreSaveOrder ==
  \A d \in Dispatches : stage[d] \notin {"idle", "lost"} =>
    /\ {arrivals[d][i] : i \in DOMAIN arrivals[d]} = RunsOf(d)
    /\ \A i, j \in DOMAIN arrivals[d] : i < j => arrivals[d][i] < arrivals[d][j]

(* The done check comes first (round1.py:111-122): a lens that has answered   *)
(* when its watchdog wakes is never timed out, however late the answer, and  *)
(* what goes to the store is that answer.                                    *)
AnswerInTimeIsKept ==
  [][ \A d \in Dispatches, s \in Seats :
        watch[d][s] = "waiting" /\ task[d][s] \in Answers =>
          /\ watch'[d][s] # "draining"
          /\ watch'[d][s] = "saving" => saving'.status = task[d][s] ]_vars

\* A dispatch that its caller or one of its watchdogs still waits for.
Busy(d) == stage[d] = "gathering" \/ \E s \in Seats : Alive(d, s)

(* Whatever is being gathered ends: recorded, raised to the caller, or lost    *)
(* with the process, even if every lens hangs (round1.py:85-130); and so do   *)
(* the watchdogs that go on after gather has raised a sibling's exception     *)
(* (round1.py:232).                                                          *)
DispatchSettles ==
  (\E d \in Dispatches : Busy(d)) ~> (\A d \in Dispatches : ~ Busy(d))

(* sqlite.py:10-13: "reopening the store at the same path reloads the session *)
(* at a round boundary - the persistence layer stores no mid-round state     *)
(* because the controllers never write any".                                 *)
ReopensAtRoundBoundary ==
  \A k \in 1 .. Len(runs) :
    stage[runs[k].dispatch] = "lost" => HasEvent(runs[k].dispatch)

-----------------------------------------------------------------------------
(* The refinement mapping: a seat's recorded status is the status of its      *)
(* stored LensRun, due while its watchdog is at work, and a dispatch is       *)
(* complete once its event is stored.                                        *)

Pending(d, s) == watch[d][s] \in {"waiting", "draining", "saving"}

RecordedStatus(d, s) ==
  LET mine == {k \in RunsOf(d) : runs[k].seat = s}
  IN  IF Pending(d, s) THEN "due"
      ELSE IF mine = {} THEN "absent" ELSE runs[CHOOSE k \in mine : TRUE].status

Standing(d) ==
  IF HasEvent(d) THEN "complete"
  ELSE CASE stage[d] = "idle" -> "unborn"
         [] stage[d] = "gathering" -> "open"
         [] OTHER -> "broken"

Promise == INSTANCE RoundPromise WITH
  recorded <- [d \in Dispatches |-> [s \in Seats |-> RecordedStatus(d, s)]],
  closed <- [d \in Dispatches |-> Standing(d)]

(* The store as it stands after every commit keeps what RoundPromise promises *)
(* of a round.                                                               *)
KeepsPromise == Promise!Spec
=============================================================================
