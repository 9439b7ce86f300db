------------------------------- MODULE TwoRounds -------------------------------
(***************************************************************************)
(* The two rounds of one brief, as an orchestrator drives them: Round 1     *)
(* dispatches the panel and says whether to halt, Round 2 is skipped or     *)
(* shows the succeeded Round 1 runs, anonymised, to its participants.       *)
(*                                                                          *)
(* Source: runtime/round1.py, runtime/round2.py, observability/replay.py.   *)
(* The orchestrator is not in src/.  It passes run_round_2 the runs of one  *)
(* Round 1: of the result it was just given, once more after a Round 2 that *)
(* raised or ended, or of an event it finds in a reopened store.            *)
(*                                                                          *)
(* A lens task is one step here; LensDispatch has its timeouts and saves,   *)
(* and shows that the completion order the peers are labelled in is the     *)
(* store's save order, so a round's runs are a set here.  The lenses of a   *)
(* round that raised go on in the loop and still save their runs while      *)
(* later rounds are under way.                                              *)
(***************************************************************************)
EXTENDS Integers, FiniteSets

CONSTANTS
  Lenses,         \* LensId
  Mandatory,      \* MANDATORY_PARTICIPANTS
  Panels,         \* the panels the caller dispatches
  Failures,       \* the terminal statuses other than succeeded
  DispatchBound   \* bound: dispatches of either round

\* enums.py:107-118 has nine lenses.
ASSUME LensAssumption ==
  /\ IsFiniteSet(Lenses)
  /\ Cardinality(Lenses) <= 9
  /\ Mandatory \subseteq Lenses
  /\ Panels \subseteq SUBSET Lenses
ASSUME FailureAssumption == Failures \subseteq {"schema_invalid", "timeout", "refused"}
ASSUME DispatchAssumption == DispatchBound \in Nat

Statuses == Failures \cup {"succeeded"}
Dispatches == 1 .. DispatchBound

VARIABLES
  phase,     \* which controller is running
  minted,    \* dispatch event ids minted so far; the last one is current
  tasks,     \* lens tasks in the event loop
  held,      \* the Round 1 dispatch whose runs the orchestrator holds, or 0
  round1,    \* those runs
  runs,      \* store: saved LensRuns, one per task
  events,    \* store: ids of the saved DispatchEvents
  halted,    \* history: the Round 1 dispatches whose result was halted
  basis,     \* history: the Round 1 dispatch a Round 2 was dispatched on
  shown      \* history: the peers that Round 2 showed its participants

memory == <<phase, minted, tasks, held, round1>>
history == <<halted, basis, shown>>
vars == <<memory, runs, events, history>>

Tasks == [round : {1, 2}, dispatch : Dispatches, lens : Lenses]

Init ==
  /\ phase = "idle"
  /\ minted = 0
  /\ tasks = {}
  /\ held = 0
  /\ round1 = {}
  /\ runs = {}
  /\ events = {}
  /\ halted = {}
  /\ basis = [d \in Dispatches |-> 0]
  /\ shown = [d \in Dispatches |-> {}]

-----------------------------------------------------------------------------
Start(round, lenses) ==
  /\ minted < DispatchBound
  /\ minted' = minted + 1
  /\ tasks' = tasks \cup {[round |-> round, dispatch |-> minted + 1, lens |-> l] : l \in lenses}

\* run_round_1 is called: for a new brief, or again, whatever is held.
DispatchRound1(panel) ==
  /\ phase = "idle"
  /\ Start(1, panel)
  /\ phase' = "round1"
  /\ held' = 0
  /\ round1' = {}
  /\ UNCHANGED <<runs, events, history>>

\* A lens task ends and its LensRun is saved.  optsIn: one of its
\* disagreements_with_my_own_framing holds the opt-in phrase; only a succeeded
\* run has any.
LensReturns(t) ==
  /\ t \in tasks
  /\ \E status \in Statuses, optsIn \in BOOLEAN :
       /\ optsIn => status = "succeeded" /\ t.round = 1
       /\ runs' = runs \cup {[task |-> t, status |-> status, optsIn |-> optsIn]}
  /\ tasks' = tasks \ {t}
  /\ UNCHANGED <<phase, minted, held, round1, events, history>>

\* A lens task raises.  If its round is being gathered the caller gets the
\* exception; the round's other lenses stay in the loop, and what Round 2 was
\* called on is still held.
LensRaises(t) ==
  /\ t \in tasks
  /\ tasks' = tasks \ {t}
  /\ phase' = IF t.dispatch = minted THEN "idle" ELSE phase
  /\ UNCHANGED <<minted, held, round1, runs, events, history>>

Gathered == \A t \in tasks : t.dispatch # minted

Succeeded(result) == {r \in result : r.status = "succeeded"}
Failed(result) == result \ Succeeded(result)

\* non_succeeded / len(runs) > 0.70; no halt on an empty panel.
Halts(result) == 10 * Cardinality(Failed(result)) > 7 * Cardinality(result)

\* Mutant: the round's runs are read back from the store by brief and round.
RunsOfBrief(d) == {r \in runs : r.task.round = 1}

\* A dispatch's own runs.
RunsOf(d) == {r \in runs : r.task.dispatch = d}
LensesOf(result) == {r.task.lens : r \in result}

\* Round 1 is complete: event, halt decision, result.
EndRound1 ==
  /\ phase = "round1"
  /\ Gathered
  /\ events' = events \cup {minted}
  /\ held' = minted
  /\ round1' = RunsOf(minted)
  /\ halted' = IF Halts(round1') THEN halted \cup {minted} ELSE halted
  /\ phase' = "idle"
  /\ UNCHANGED <<minted, tasks, runs, basis, shown>>

\* The orchestrator takes up a Round 1 the store has a DispatchEvent of, by the
\* runs the event lists: all of that dispatch.
Resume(e) ==
  /\ phase = "idle"
  /\ \A r \in RunsOf(e) : r.task.round = 1
  /\ held' = e
  /\ round1' = RunsOf(e)
  /\ UNCHANGED <<phase, minted, tasks, runs, events, history>>

\* Mutant: every run counts, not only the succeeded ones.
EnoughRuns == Cardinality(round1) >= 3

\* MIN_ROUND_1_SUCCESSES_FOR_ROUND_2.
Enough == Cardinality(Succeeded(round1)) >= 3

\* run_round_2 returns at once: nothing is dispatched or saved.
SkipRound2 ==
  /\ phase = "idle"
  /\ held # 0
  /\ ~ Enough
  /\ UNCHANGED vars

\* Mutant: every succeeded lens gets a second round.
AllSucceeded == Mandatory \cup LensesOf(Succeeded(round1))

\* The mandatory two, whatever Round 1 made of them, and the opt-ins.
Participants == Mandatory \cup LensesOf({r \in round1 : r.optsIn})

\* Mutant: the peers are looked up in the store, as replay does.
PeersInStore == Succeeded({r \in runs : r.task.round = 1})

\* The succeeded runs of the result.
Peers == Succeeded(round1)

\* Nothing in run_round_2 looks at the halt, nor at whether these runs have had
\* a Round 2 before: that is the caller's choice.
DispatchRound2 ==
  /\ phase = "idle"
  /\ held # 0
  /\ Enough
  /\ Start(2, Participants)
  /\ shown' = [shown EXCEPT ![minted + 1] = Peers]
  /\ basis' = [basis EXCEPT ![minted + 1] = held]
  /\ phase' = "round2"
  /\ UNCHANGED <<held, round1, runs, events, halted>>

\* Round 2 is complete; its failure note changes nothing that is saved.
EndRound2 ==
  /\ phase = "round2"
  /\ Gathered
  /\ events' = events \cup {minted}
  /\ phase' = "idle"
  /\ UNCHANGED <<minted, tasks, held, round1, runs, history>>

\* The process dies; only the store is left.
Crash ==
  /\ phase # "idle" \/ tasks # {} \/ held # 0
  /\ phase' = "idle"
  /\ tasks' = {}
  /\ held' = 0
  /\ round1' = {}
  /\ UNCHANGED <<minted, runs, events, history>>

\* The bounded caller is through.
Finished ==
  /\ phase = "idle"
  /\ minted = DispatchBound
  /\ tasks = {}
  /\ UNCHANGED vars

Next ==
  \/ \E panel \in Panels : DispatchRound1(panel)
  \/ \E t \in tasks : LensReturns(t) \/ LensRaises(t)
  \/ EndRound1
  \/ \E e \in events : Resume(e)
  \/ SkipRound2
  \/ DispatchRound2
  \/ EndRound2
  \/ Crash
  \/ Finished

Spec == Init /\ [][Next]_vars

-----------------------------------------------------------------------------
LensRuns == [task : Tasks, status : Statuses, optsIn : BOOLEAN]

(* Every variable has its type: the runs the orchestrator holds are stored     *)
(* LensRuns of a recorded round, at most one per lens.                       *)
TypeOK ==
  /\ phase \in {"idle", "round1", "round2"}
  /\ minted \in 0 .. DispatchBound
  /\ tasks \in SUBSET Tasks
  /\ held \in {0} \cup events
  /\ round1 \in SUBSET runs
  /\ Cardinality(round1) = Cardinality(LensesOf(round1))
  /\ runs \in SUBSET LensRuns
  /\ events \in SUBSET Dispatches
  /\ halted \in SUBSET events
  /\ basis \in [Dispatches -> {0} \cup events]
  /\ shown \in [Dispatches -> SUBSET runs]

(* A Round 1 that asks to halt (over 70% failed, round1.py:171-182) is never  *)
(* cross-pollinated, not even by a process that finds it in the store and    *)
(* never saw the halt, although run_round_2 does not look at it: a panel of  *)
(* at most nine lenses that halts has fewer than three succeeded runs, so    *)
(* Round 2 skips (round2.py:225).                                            *)
HaltedIsNotCrossed == \A d \in Dispatches : basis[d] \notin halted

\* The succeeded Round 1 runs of a dispatch.
Successes(d) == {s \in RunsOf(d) : s.task.round = 1 /\ s.status = "succeeded"}

(* No Round 2 LensRun without a Round 1 it rests on: the dispatch it was       *)
(* called on has its event in the store and at least three succeeded runs    *)
(* (round2.py:219-239), also when the Round 2 is called again after it       *)
(* raised, or by a process that reopened the store, and when its own round   *)
(* never ends.                                                               *)
Round2RestsOnRound1 ==
  \A r \in runs : r.task.round = 2 =>
    /\ basis[r.task.dispatch] \in events
    /\ Cardinality(Successes(basis[r.task.dispatch])) >= 3

(* Round 2 is a narrow opt-in, not a second full round (round2.py:62-65): a   *)
(* lens that is not mandatory runs in it only if its own run in the Round 1  *)
(* it rests on succeeded and asked to see its peers.                         *)
OptInsOnly ==
  \A r \in runs :
    r.task.round = 2 /\ r.task.lens \notin Mandatory =>
      \E s \in Successes(basis[r.task.dispatch]) : s.task.lens = r.task.lens /\ s.optsIn

(* What a Round 2 shows are the succeeded runs of the one recorded Round 1 it *)
(* rests on, all of them and once each, then and ever after, even when       *)
(* lenses of another round that raised save their runs in between            *)
(* (round2.py:127-150).                                                      *)
PeersAreOneRound ==
  \A d \in Dispatches : shown[d] # {} =>
    basis[d] \in events /\ shown[d] = Successes(basis[d])

\* reconstruct_lens_run_inputs: the cross_pollination of a Round 2 run, from
\* all the Round 1 runs the store lists for the brief.
ReplayPeers(run) == {r \in runs : r.task.round = 1 /\ r.task.lens # run.task.lens}

(* replay.py:53-57: Round 2 inputs are rebuilt "from peers' Round 1 outputs,  *)
(* anonymized in completion order - the same construction the dispatcher     *)
(* does normally".                                                           *)
ReplayShowsTheSamePeers ==
  \A r \in runs : r.task.round = 2 => ReplayPeers(r) = shown[r.task.dispatch]

-----------------------------------------------------------------------------
(* The refinement mapping: of a seat's task and run the run is what counts,   *)
(* and the round that is being gathered is the open one.                     *)
Due(d, l) == \E t \in tasks : t.dispatch = d /\ t.lens = l
RunsOfSeat(d, l) == {r \in RunsOf(d) : r.task.lens = l}

RecordedStatus(d, l) ==
  IF Due(d, l) THEN "due"
  ELSE IF RunsOfSeat(d, l) = {} THEN "absent"
  ELSE (CHOOSE r \in RunsOfSeat(d, l) : TRUE).status

Standing(d) ==
  CASE d > minted -> "unborn"
    [] d <= minted /\ d \in events -> "complete"
    [] d <= minted /\ d \notin events ->
         IF d = minted /\ phase \in {"round1", "round2"} THEN "open" ELSE "broken"

Promise == INSTANCE RoundPromise WITH
  Seats <- Lenses,
  recorded <- [d \in Dispatches |-> [l \in Lenses |-> RecordedStatus(d, l)]],
  closed <- [d \in Dispatches |-> Standing(d)]

(* Each round keeps the promise that LensDispatch keeps with watchdogs and    *)
(* saves in detail: round1.py:185-254, round2.py:241-285.                    *)
RoundsKeepPromise == Promise!Spec
=============================================================================
