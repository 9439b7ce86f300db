# Verification of research_council

TLA+ models of the council's runtime, TLC configurations that check them on
small instances, and TLAPS proofs of their safety properties for every
instance.  Source paths are relative to `src/research_council/` of the repository.

## 1. The system

A researcher's project is turned into a *research brief* (intake), a *panel* of
LLM *lenses* examines it in one or two rounds, a *synthesis* is made of the
surviving findings, and the researcher challenges findings or refines the brief.
Everything runs in one process on one asyncio loop; the only durable state is a
SQLite file whose saves autocommit one by one (`store/sqlite.py:163-171`).  There
is no transaction around any multi-record operation, so every gap between two
saves is a place where the process may die.

| part | state it keeps | operations | talks to |
|---|---|---|---|
| Round controllers (`runtime/round1.py`, `round2.py`) | per seat: task, start and last-progress time; completion order; Round1Result | `run_round_1`, `run_round_2`, watchdog | lenses (tasks), store (saves), orchestrator (result or exception) |
| Lens loop, persistence (`runtime/run_lens.py`) | conversation, strike count | `run_lens`, `persist_outcome` | LLM client, tools, store |
| Background verification (`domain/brief_verification.py`) | `_tasks`, `_results`, `_accepted_unverified` | `submit`, `await_completion`, `problems`, `accept_unverified`, `apply_to` | verifier (tasks), intake |
| Challenge orchestrator (`runtime/challenge.py`) | one Challenge, one scoped run | `run_challenge`, resynthesizer closure | lens (await), store, synthesizer |
| Synthesizer, clusterer (`synthesis/`) | none kept | `resolve_winning_findings`, `synthesize` | store (read), embedder, adjudicator, narrator |
| Session store (`store/`) | eleven record tables | `save_*`, `get_*`, `list_*` | everybody |
| Claim verifier (`verifier/`) | three cache levels, sources table | `verify` | two source clients (gathered), judge, store |
| Refinement (`refinement.py`, `domain/brief_ops.py`) | none kept: a proposal is a value its caller holds | `refine_brief`, `apply_invalidation` | store (through the caller), round controllers |
| Intake (`domain/intake.py`) | mode, fields, turn and stability clocks, decline, confirmed version | conversation steps, `dispatch`, `edit_confirmed_brief` | LLM client, brief verification, store |
| Session status, iteration cap (`domain/`) | status; cycle count | transitions, notes | nobody under `src/` calls them |
| Panel router, roster (`router.py`, `lenses/`) | none kept | panel, overrides | controllers |
| Replay, traces (`observability/`) | append-only traces | rebuild inputs, join traces | store (read) |
| Verdicts, evaluation (`domain/verdict_ops.py`, `eval_reader.py`) | verdict records | read and compare | store (read) |

### What is hard here

* **Concurrency on one loop.**  Code without an `await` is atomic; everything
  read before an `await` may be stale after it.  The awaits that matter are the
  watchdog's (`round1.py:111,127`), the gathers (`round1.py:232`,
  `brief_verification.py:137`, `verifier/api.py:326`) and the challenge's single
  await on its lens (`challenge.py:308`).
* **Tasks that survive their caller.**  `asyncio.gather` hands the first
  exception to the caller while the siblings run on and still save their runs.
* **Crashes between commits**, with a re-dispatch under a new event id.
* **Derived state read back from the store** by other criteria than those it was
  written by (latest synthesis, replayed peers).
* **Thresholds that have to agree** although different functions apply them
  (halt over 70 %, skip below three successes).
* **Two editors of one brief.**  The intake's `edit_confirmed_brief` and the
  refinement both number a revision after the version *they* know, and saving a version
  replaces whatever is stored under it; a challenge in flight keeps the version it read.
* **Records changed in place.**  A reused run is re-pointed to the new version where
  it is, and remembers only the last version it came from.
* **Pairwise verdicts, merged.**  Same-claim verdicts come one pair at a time and are
  merged transitively, over a structure that every lookup rewrites.

### What makes each part correct

* Dispatch: one LensRun per seat, an event that lists a whole round, findings
  before their run, an answer never turned into a timeout, an end to every round.
* Rounds: a halted round is never cross-pollinated; Round 2 is an opt-in on top
  of one recorded Round 1 and shows exactly its succeeded runs, also when it is called
  again or by a process that reopened the store.
* Background verification: results belong to the claim as last submitted, an
  acceptance covers what the user saw, every claim gets a result.
* Challenges: the newest synthesis is that of the current winners, what it
  refers to can be challenged, a claim has one heir, a loser stays lost.
* Verifier: a miss means that everybody was asked and missed, a failure never hides a
  hit, retries are bounded, one claim about one source has one verdict.
* Intake: what it calls ready can be dispatched, its screens show the version it
  confirmed.
* Refinement: a reused run's material findings still refer to
  text that is in the brief the run is listed for, after any chain of edits.
* Synthesis: clusters are the components of the SAME verdicts, nothing is lost or shown
  twice, a contradicted finding never reassures, prose rests on the clusters shown.

`PROJECT.json` lists every hazard with its line and the properties aimed at it.

## 2. Modules

| module | models | checked by | proved in |
|---|---|---|---|
| `RoundPromise` | what a dispatch promises to the layers above | refined by `LensDispatch` in `dispatch` | `LensDispatchProofs`, `TwoRoundsProofs` |
| `LensDispatch` | one dispatch of a panel, as both controllers run it | `dispatch`, `reopen` | `LensDispatchProofs` |
| `TwoRounds` | Round 1, halt, skip, participants, Round 2, replayed peers | `two_rounds`, `replay` | `TwoRoundsProofs` |
| `BriefVerification` | the background verification stream | `brief_verification`, `stale_result` | `BriefVerificationProofs` |
| `Challenge` | overlapping challenges, winners, syntheses | `challenge`, `shown_synthesis` | `ChallengeProofs` |
| `SourceResolution` | the search for a claim's source: two gathered clients, retries, fallbacks | `source_resolution` | `SourceResolutionProofs` |
| `ClaimVerifier` | overlapping verifications over the three-level cache | `claim_verifier` | `ClaimVerifierProofs` |
| `Intake` | the intake conversation and the versions it writes; extended by `Refinement` | `refinement` | `RefinementProofs` |
| `Refinement` | `Intake` composed with refinements, reused and repeated runs and a challenge in flight, over one store | `refinement` (instance in `RefinementMC`) | `RefinementProofs` |
| `Synthesis` | clustering, structure, narration and rendering of one synthesis | `synthesis` (instance in `SynthesisMC`) | `SynthesisProofs` |

In every module the atomic step is the code between two awaits, or, where a crash
between two saves matters, the code up to the next commit.  Where a coroutine
saves several records without an await, the module makes each save a step and
lets nobody else in the loop move in between (`LoopFree`): only `Crash` can.

### RoundPromise

`recorded[d][s]` is what seat `s` of dispatch `d` has come to: absent, due, or the status
of its one stored run; `closed[d]` is unborn, open, complete or broken.  A seat that is due
is recorded once and for good, or is lost with its exception or its process; a round that
lost a seat is broken for ever, although seats of it may still be recorded; a complete
round owes nothing.  Two modules implement it, one from below and one from above:

| `RoundPromise` | `LensDispatch` | `TwoRounds` |
|---|---|---|
| `Open` | `Begin` | `DispatchRound1`, `DispatchRound2` |
| `Record` | `SaveRun` | `LensReturns` |
| `Lose` | `Fail` | `LensRaises` |
| `Complete` | `SaveEvent` | `EndRound1`, `EndRound2` |
| `Die` | `Crash` | `Crash` |
| none | waiting, drains, findings | `Resume`, `SkipRound2` |

### LensDispatch

`stage[d]` is the controller call of dispatch `d`, `watch[d][s]` the position of
`_run_one` for seat `s` (in `_run_with_timeouts`, draining a cancelled task, in
`persist_outcome`, returned, failed), `task[d][s]` the lens coroutine.  `elapsed`
and `silent` are the two clocks the watchdog compares.  `Tick` is time passing,
`Heartbeat` the progress callback, `EndTask` the lens returning or raising - also
after it was cancelled, since a coroutine may catch CancelledError -, `Fire` the
watchdog waking over a limit with the task not done (the done check comes first),
`Collect`/`CollectTimeout`/`Fail` the three ways out, `SaveFinding`/`SaveRun` the
commits of `persist_outcome`, `SaveEvent` the end of the gather.  `Crash` leaves
the store and empties everything else; `Begin` always takes a fresh dispatch id.

Assumption in the model: the caller awaits one dispatch before it starts the
next, the panel names each lens once, and the controller call itself is not
cancelled from outside (nothing in the repository does any of these).

### TwoRounds

One level up: a lens task is a single step (`LensReturns`, `LensRaises`), and a round's
runs are a set (their order is the store's save order, which `LensDispatch` shows).
`phase` says which controller is running, `held` and `round1` which Round 1 the
orchestrator holds and its runs.  Tasks are keyed by dispatch, so that lenses of a raised
round keep saving runs while later rounds are under way.

The orchestrator is not in the repository and is free in the order of its calls:

* `DispatchRound1` calls `run_round_1`, whatever is held.
* `DispatchRound2` and `SkipRound2` call `run_round_2` on the runs that are held.  They
  stay held when Round 2 raises or ends, so it may be called again on the same runs;
  `run_round_2` looks neither at `halted` nor at an earlier Round 2.
* `Resume` takes up a Round 1 that has a DispatchEvent in the store, by the runs the event
  lists: the resume at a round boundary that `store/sqlite.py:10-13` is about and
  `tests/test_sqlite_store.py:40-108` exercises.  After `Crash`, which leaves only the
  store, it is the way back; it may also happen at any time between two rounds.

So a Round 2 rests on the Round 1 it was called on (`basis`, history), not on the dispatch
before it; its DispatchEvent records neither its round nor that Round 1.  One assumption
is left: the runs that are passed to `run_round_2` are those of one recorded Round 1, as a
`Round1Result` and a DispatchEvent give them, and not a selection of the caller's.
`ReplayPeers` is what `reconstruct_lens_run_inputs` would rebuild.

### BriefVerification

`latest[c]` is the submit whose task is registered, `task[c][v]` the task of each
submit, `results[c]` the submit whose result is stored, `gathered` the snapshot
`await_completion` is suspended on.  `Submit` can happen while it is suspended;
`AwaitRaises` is the gather passing on an exception or a cancellation, after which
no result of that gather is stored.

### Challenge

`at[k]` is the point of the `k`-th call of `run_challenge`; the response finding and
its scoped run go by the call's number.  `Begin` up to the await, `Answer` the
lens coming back, then the commits: finding, run, challenge, synthesis (a refusal
saves no finding and does not re-synthesize).  `Winning` is
`resolve_winning_findings`, `Visible` is `list_findings_for_session`, and
`SynthesisInput` what `make_resynthesizer` reads.  `revised` and `withdrawn` stand
for the change reasons: only withdrawal is looked at.  Clustering, tensions and the
narrative are left out; a synthesis is the set of findings it refers to.

### SourceResolution

`stage` is where `_resolve_source` is, `client[c]` where `_call_with_retries` is for
client `c` (asking, backing off, or how it ended), `rateLeft` and `parseLeft` its two
budgets.  `subReason` and `blamed` are the fields of the one `_ResolutionOutcome` that
both gathered clients write to; `GiveUp` overwrites them, so the last failure is the
one that is reported.  `Responds` is what a query can come back with, `Raises` an
exception that is no SourceClientError (the gather passes it on and leaves the other
client running), `Cancel` the cancellation of the whole verification.  Every failure
of a co-primary stops the fallbacks, retries that ran out included; the comment over
that line names only `api_down` and `paywalled`.

### ClaimVerifier

`at[k]` is the await the `k`-th call of `verify` is suspended on, `claim[k]` and
`found[k]` its locals, `outcome[k]` its result; the three caches are `sources` (with the
age of the entry), `localities` and `entailments`.  A search is two steps, because a
body is fetched (`SearchHits`) before the gather it belongs to returns and stores it
(`SearchReturns`).  What verify does between two awaits is `GoOn`: it reads the caches
and stops at the first miss.  `Revise` changes the body a service has, `Tick` is time.
A quoted passage is abstracted to the set of bodies it occurs in.  `together` and
`outrun` are history: questions two calls had before a judge at once, and fetches
overtaken by another call's `put_source`.  They mark the two races the code allows,
and the properties say that nothing else goes wrong:

* two calls waiting for the judge with one question each cache and return their own
  answer, and these may differ;
* a call whose gather is slow may put an older body over a newer one, with a fresh
  timestamp, so that it is served for another day.

A consequence that follows from the code and not from a race: the entailment is cached
before its quote is checked, for ever; a claim whose quote is not in the refreshed body
is reported as hallucinated on every later call until the verifier version changes.

### Intake

The variables are the orchestrator's fields (`mode`, `values`, `declined`, `confirmed`,
`rescreen` for `_needs_rescreen2`), its two counters as far as they are ever compared
(`turns` up to the draft threshold, `quiet` up to the stability threshold) and the stored
versions (`briefs`).  There is one action per method: `DeclareMode`, `SubmitField`,
`EditField`, `IdleTurn`, `Decline`, `AllClaimsFailed` (`record_verification_summary`),
`Dispatch`, `EditConfirmedBrief`.  A field is unset, empty or a text, because the code
tells "submitted" from "truthy": a deep dive is complete when every field was submitted,
empty or not, an exploratory intake when certain fields are truthy.  `strayed` is
history: the fields that were changed in the conversation or in the store alone.

The mode is a field of the brief (`BriefFields`) but none of the conversation's: an edit of
a confirmed brief may change it in the store, and `EditConfirmedBrief` leaves `mode` as it
is (`intake.py:436-440` syncs only the keys of `INTAKE_FIELD_ORDER`), so Screen 1 and
`self_test_questions` go on with the old one (`intake.py:353-356`).

### Refinement

`Refinement` extends `Intake`, so that both editors work on one store.  `Propose` is
`refine_brief` (diff, classification of each run by `Triggering`), `Apply` is
`apply_invalidation` with any set the user may choose, and the saves of its caller;
`Discard` drops a proposal.  Between the two everything else may happen: runs saved
(`SaveRun`), a challenge asked and answered (`Ask`, `Answer`), the intake's own edit
(`EditBrief`).  A run holds the texts its material findings refer to and, as history, the
`basis` it was shown.  `excused` is history as well: runs the user spared, and runs
whose version was replaced under them.  The module says nothing of an excused run, nor
claims that no confirmed version is ever replaced, since the code does replace one
(section 6).

External in this module: a round that saves a run for a stored version, and the caller of
`apply_invalidation`, which is not in the repository.  It is taken to confirm the new
brief, to save it and every run of the result, and to pass the runs that were listed for
the proposal.

### Synthesis

`Judge` is one iteration of the pair loop of `cluster_findings` (similarity, adjudication,
`union` with path halving, in the order of `combinations`).  What `compute_structure` and
`render_synthesis` make of the clusters are operators on that state: `Agreements`,
`Contradictions`, `OpposingPairs`, `GapClusters`, `Tensions`, `Minor`, `Primary`,
`Severity`.  `NarrationAccepted`, `NarrationRejected` and `FallBack` are the two attempts
of `_run_narration`.  A narrator may echo the clusters as they are, without one, or with
two of them merged.

## 3. Runs

Passing runs:

| run | instance | what it shows |
|---|---|---|
| `dispatch` | 2 seats, 2 findings per run, hard limit 2 ticks, silence limit 1, 2 dispatches, fair | every interleaving of two watchdogs, timeouts of both kinds, late and raising lenses and a crash at every commit leave a consistent record; rounds settle and watchdogs end though lenses hang or only send heartbeats; the dispatch implements `RoundPromise` |
| `brief_verification` | 2 claims, 2 submits each, fair | which results can be stale; acceptances; every claim gets a result unless a verify raised |
| `two_rounds` | panel of 3 plus a mandatory lens outside the panel, 3 dispatches | halt and skip agree; what Round 2 rests on, who takes part and what it shows, with stragglers of raised rounds, repetitions and reopened stores |
| `challenge` | 2 original findings, 3 calls | winners, heirs and syntheses under overlap, refusal, failure and crash |
| `source_resolution` | default budgets (3 and 2), fair | what a miss, a failure and the winner of a search mean, and that it ends |
| `claim_verifier` | 1 source with 2 bodies, lifetime 1 tick, 1 text, one sourced and one design type, 3 calls | which results agree under overlap, expiry and revision; when a cached body goes back |
| `refinement` | eight fields, two texts, two edits, 3 versions, 3 runs of one lens | what the intake shows and calls ready, edits of the mode included; that reuse is sound across chains of edits, overrides, challenges in flight and a second editor |
| `synthesis` | any 4 findings of 5 kinds, any verdict on each pair | clusters and bands of what is rendered, what comes first, and what is kept of a narration |

Runs that find a disagreement between the code and what the repository says of it:

| run | statement | what happens |
|---|---|---|
| `reopen` | `store/sqlite.py:10-13`: the controllers never write mid-round state | each run is saved when its lens ends; a process that dies inside the round leaves runs of an event that does not exist |
| `stale_result` | `brief_verification.py:110-113`: resubmitting discards the prior task's result, the next `await_completion` reaps the new task | a claim resubmitted after its task ended but before the gather returned gets the old result, and the new task is never awaited |
| `replay` | `observability/replay.py:53-57`: the same construction the dispatcher does | the dispatcher shows the succeeded runs of one dispatch, the participant's own included; replay takes all Round 1 runs of the brief but the lens's own |
| `shown_synthesis` | `challenge.py:44-46`: the synthesis the researcher reads always reflects the winning set | among syntheses of one brief version `get_latest_synthesis` returns the one saved first, and a challenge does not bump the version |

### Bounds, and why they are enough

* Two seats give every order of two watchdogs and of a raising and a surviving
  sibling (the safety theorems hold for any number).  Two dispatches are what a crash
  and a repetition take.
* Hard limit 2 and silence limit 1 make each limit reachable without the other: a
  heartbeat resets `silent` only.  `ClockBound` stops `Tick` at the hard limit, where
  the watchdog fires anyway, so no behaviour after it is cut off.
* Three dispatches in `two_rounds` are a Round 1 that raises, Round 1 again and Round 2, or
  Round 1, a Round 2 that raises and its repetition, with a reopening between any two;
  a panel of three reaches the skip threshold exactly, and the fourth lens is a
  mandatory one that is not in the panel.  All failures have the same effect on the decisions, so one
  value is enough.
* Two submits are one resubmission; two claims are needed so that one keeps the
  gather waiting while the other is resubmitted.
* Three calls of `run_challenge` give two overlapping challenges of one finding and a
  response to a response.
* The four clients of `source_resolution` and its budgets are the code's own; nothing is
  cut off (`QueryBound` is one more query than the budgets allow, where `queries` stops
  counting).
* One source and one text are enough in `claim_verifier`, as cache entries of other keys
  do not meet; two bodies are an older and a newer one; three calls are two that overlap
  and one that reads what they left.
* `refinement`: three versions are two edits in a row, by either editor, and an edit that
  returns a field to its first text; three runs are two that a proposal covers and one it
  adds.  One lens is enough, as runs are classified one by one and only `SaveRun` looks
  at the lens at all.  Two constraints keep the run small: `AtRest` lets the conversation go
  on in every order until something rests on the first brief, and from then on in one
  state of the fields; `FewAtOnce` allows three runs over two versions or two over three.
* `synthesis`: four findings give clusters of one to four, a chain of three with an
  opposing pair at its ends, and two clusters side by side.  The five kinds are a
  contradicted one, an opposing and stronger one, a weak gap, a strong gap and a
  degenerate claim.  Four findings cannot lift a gap over an alarm, which takes more than
  70; the theorem `AlarmsFirst` covers every number.  DIFFERENT is left out of the verdicts, as the code treats it as
  UNCERTAIN; `FlagBound` 1 is a sibling-impact flag or none, and `FlaggedClaims` combines
  the flag with at most three claims, since all it does is add an item.
* The bounds on counters (`DispatchBound`, `SubmitBound`, `CallBound`, `ClockBound`, `BodyBound`,
  `VersionBound`, `RunBound`, `FlagBound`)
  are constants of the modules; the proofs hold for every value.

### Fairness

`dispatch` assumes that the loop serves every ready callback and that time
passes, that `persist_outcome` goes on, and that a *cancelled* lens ends:
`run_lens` and the clients it awaits never catch CancelledError.  It assumes nothing of a
lens that has not been cancelled.  Crashes are never forced.  Without the
assumption on cancelled lenses `DispatchSettles` does not hold: the drain at
`round1.py:127` has no timeout of its own.

`brief_verification` assumes that every verify ends (its retries are counted), that
the loop resumes a finished gather, and that the orchestrator calls
`await_completion` again while claims lack a result.  Nobody has to submit or accept.

`source_resolution` assumes that a query returns or raises, that a backoff (a sleep of
`backoff_seconds`) ends, and that the loop resumes what is ready.

`two_rounds`, `challenge`, `claim_verifier`, `refinement` and `synthesis` state no
fairness; they check safety only.
Deadlock is checked in every run but `synthesis`, which ends with its narration.  Where the
bounded caller ends, `Finished` is the one stuttering step; `BriefVerification` and
`Refinement` need none, their users may always go on.

## 4. What is proved

For all values of the constants, under the assumptions the modules name (a panel
has a seat, timeouts are positive, original findings are not call numbers, clean
and problem statuses are disjoint, the failures of `TwoRounds` are the terminal statuses
of `enums.py:90-97`):

**LensDispatchProofs** - `TypeOK`, `OneRunPerSeat`, `EventIsComplete`,
`RunsHaveTheirFindings`, `OrphanFindingMeansCrash`, `ArrivalsAreSaveOrder` and the
action property `AnswerInTimeIsKept`.  None of the store invariants is inductive:
that a seat has no second run needs to know that a seat which is still waiting has
none yet (`RunInv`), that an event is whole needs the positions `_run_one`
returned (`ReturnedInv`), that no findings leak needs that only the seat holding
the loop has findings without a run (`SavingInv`, `FindingInv`).  `IInv` is the
conjunction; one lemma per action shows that it is kept.  With it `PromiseKept` proves that
`LensDispatch` implements `RoundPromise`, one lemma per step of the promise; every step
without a lemma leaves what is promised alone (`QuietPromise`).

**BriefVerificationProofs** - `TypeOK`, `StaleOnlyIfOvertaken`,
`SettledMeansApplied` and the action property `AcceptedAsSeen`.  The invariant says
what a snapshot may hold: a gathered submit is never newer than the registered one,
and a claim whose gathered submit ended with a result and is no longer registered
was overtaken.

**TwoRoundsProofs** - all five safety properties of the run, for any panels and
mandatory lenses and any order of calls, repetitions and reopenings.
A dispatch with a stored event has no task left in the loop (`Numbered`), so its runs
do not change any more: what is held are all runs of its dispatch (`Held`), and what a
Round 2 was given still stands (`Promises`).
`HaltedIsNotCrossed` holds by arithmetic (`EnoughIsNoHalt`): with at most nine lenses,
three successes leave six failures of nine, which is not over 70 %.  With eleven
lenses it would be false.

`RoundsAreAsPromised` shows that the rounds of this module, in which a lens task is one
step, implement `RoundPromise` too.  That a seat is due or recorded and not both needs
that the tasks of a dispatch are all of one round (`OneRoundEach`).  TLC checked this
refinement for two dispatches; it is not in the run, which would no longer end in time.
`ReplayGap` says how far the disagreement of the run `replay` goes: replay leaves
out exactly the lens's own Round 1 run and adds exactly the peers' Round 1 runs that failed
or are of another dispatch; so for every lens that opted in it shows something else.

**ChallengeProofs** - `TypeOK`, `LastSynthesisIsCurrent`, `ReadIsChallengeable`,
`OneHeirUnlessOvertaken` and the action property `LostIsLost`, for any number of
overlapping calls.  The steps of a call after its await run alone (`Alone`), so
the winners the answer was judged against still stand when the response appears
(`StillWins`); from then until the next synthesis only the call with the newest
accepted run can be at work (`Newest`), which is why a stale synthesis (`Covered`)
is always that call's doing.  `ReaderIsLeftBehind` says how far the disagreement of the run
`shown_synthesis` goes: the reader sees the winners exactly as long as no response is
visible.  The first response supersedes a finding of the rounds (`FirstFell`), which the
first synthesis refers to, and a loser stays lost.

**SourceResolutionProofs** - all four safety properties of the run, and that both budgets
together bound the queries (`BudgetsHold`), for all budgets.  The invariant
ties the shared outcome to the clients: a failure of any client leaves a sub-reason,
an end is for good, and what a client has sent and has left of its two budgets adds up.
`SearchIsBounded` gives the variant of the search: every step lowers `Distance`, the
queries, answers and pauses the budgets leave.  So no behaviour runs on for ever; that the
search does not stop before its end is the part of `SearchEnds` left to TLC.

**ClaimVerifierProofs** - `TypeOK`, `SameQuestionSameResult` and the action property
`SourceAgesOnlyWhenOutrun`, for any sources, claims, lifetimes and number of calls.  A
call whose question nobody shares waits for an entry that is still empty (`Waiting`),
so an entry is written once and every result can be read off it (`Settled`); a cached
body is at least as new as every fetch that was not outrun (`Fetches`).

**RefinementProofs** - `TypeOK`, `ScreensAreHonest` and `ReuseIsSound`, for any contents, edits, panel, versions and runs, without the
constraints of the run.  The inductive invariant is `TypeOK /\ Begun /\ ProposalStands /\
ReuseIsSound /\ ScreensAgree`.  `ProposalStands` is what an open proposal needs: the runs it
would re-point refer to nothing its brief changes.  It holds when the proposal is made, since
reuse was sound then, and what happens before it is applied either leaves its runs alone
or excuses them.  `Begun` says that nobody stores a brief before the intake does, and that
the intake has a mode by then.

**SynthesisProofs** - all five properties of the run, for any number of findings and any
verdicts and answers of the narrator.  `NothingIsLost` and `AlarmsLead` are facts about
clusters and severities; the second rests on quiet tensions being small (`QuietTension`).
That pairs are judged in order (`InOrder`) and that every parent is a clustered finding of
the same half, which `Linked` gives for the roots, make up `TypeOK`.
`ProseNeedsTheEcho` needs that the clusters do not change under a narration, as the pairs
are judged before it (`NarratedLast`).

`ClustersAreComponents` is about the recursive root function.  The invariant says that
the parents are a forest: some function names each finding's root, some heights fall
along the parents (`Forest`, `RootIs`), and what was judged the same has one root
(`Linked`).  The recursive function is the root function because a least counterexample
would be a finding whose parent, lower down, is a counterexample too (`LeastNatural`,
from well-foundedness, for the one set at hand and not as an induction over operators).  A
union joins two trees (`JoinsForest`), path halving keeps the roots (`HalvedKeeps`),
and a set closed under the verdicts contains the tree of each of its members.
`ThirdFinding` follows: a pair that was not judged the same is in one cluster only with a
third finding.  It can be, and then the code does merge what was judged apart (section 6).

Each invariant was checked by TLC as an invariant of the same instance before it
was proved.

### Only model-checked

The three liveness properties `DispatchSettles`, `ClaimsGetResults` and `SearchEnds`: the
prover does not handle fairness and ENABLED.  Every other property of a passing run is
proved.

## 5. Not modelled, and why

* Prompts, narrative texts, wording of labels, network tools, the LLM client:
  pure input and output.
* The lens loop `run_lens` (turn limit, two strikes, tool grants): an arbitrary task that
  answers with any status, raises, hangs or sends heartbeats for ever.  The controllers
  rely on nothing else.
* The router: one prompt with one retry and a choice between two tuples; it keeps no
  state.  `TwoRounds` takes any panel without repetitions.
* Session status and iteration cap: a table of legal transitions and a counter, which
  nothing under `src/` calls, so there is no order of calls to model.
* Verdicts, evaluation, traces: pure readers and an append-only log.
* In `Intake`: the panel proposal and verification counts, which Screen 2 only repeats.  In
  `Synthesis`: descriptions, decorating markers, and zero-finding anomalies, which depend
  on no cluster.
* `ValueError`s that reject a call before it changes anything.
* Two processes on one SQLite file: the code opens one connection.
* Nothing under `src/` calls the round controllers or passes heartbeats to a lens; the
  models allow for both, because the controllers' interface does.

## 6. Observed beside the runs

Read off the code while it was modelled.  The properties of the passing runs allow
for these, and no run is there to refute the text quoted.

Synthesis:

* `_severity` (`synthesizer.py:487-489`) promises load-bearing gaps before opposing-pair
  tensions.  A load-bearing gap scores 30 plus its count, an opposing pair 52, a lone
  contradicted finding 51; so the gap comes first only if it has more than 22 findings.
  The count does not only break ties "within a band" either: a gap that eleven exploratory
  findings name ties with one that a single supporting finding names.  The count is of
  findings, not lenses.  `AlarmsLead` claims only the first band, "contradictions lead
  (alarming)", and how many findings it takes to break that too.
* Two findings judged DIFFERENT or UNCERTAIN end in one cluster when a chain of SAME
  verdicts leads around them, through a third finding.  The comment in the pair loop
  (`clusterer.py:226-228`) says both verdicts leave the pair "in separate components", and
  `synthesizer.py:22-24` and `360-362` say that a split is two clusters and is "never
  averaged into the cluster".  For an opposing pair the code then does both: it counts the
  two in one agreement and lists them as a tension.  `ClustersAreComponents` states what
  the union-find does; `ThirdFinding` says exactly when it disagrees with the comments.
* A lone contradicted finding is not alarming as a cluster, but the opposing pair it is
  part of is.  A contradicted gap named by one exploratory finding goes to the minor list.

Intake:

* `dispatch` does not ask for the stability `can_terminate` does (`intake.py:415`), and
  `edit_confirmed_brief` does not look at a decline.
* An exploratory intake whose eight fields were all given stays at Screen 1 also if the
  required ones are empty and it can never be dispatched.
* `edit_field` goes on working behind a confirmation and changes what the screens show,
  but not the stored brief.
* The other way round, `edit_confirmed_brief(mode=...)` changes the stored brief, but not
  what the screens show (`intake.py:436-440`).
* An edit that sets `panel_constraints` to `()` keeps `()` where `_build_brief` would make it
  None (`intake.py:386`), and the router then proposes an empty panel (`router.py:158`).

Refinement:

* A confirmed version that another edit stored meanwhile is replaced, under the runs
  listed for it, when the intake revises the version it confirmed last (`intake.py:429`), or
  when a proposal made before that edit is applied (`refinement.py:285`).
  `domain/brief_ops.py:3-6` says that a confirmed brief "can never be mutated in place",
  `intake.py:424-425` that an edit "never mutates the prior version", and
  `tests/test_intake_orchestrator.py:408-426` tests that a second `dispatch` leaves version 1
  alone.  It is true of the version an editor revises and of a second `dispatch`, not of a
  version that another editor has added since.
  `ReuseIsSound` makes an exception of the runs under a replaced version.
* `reused_from_version` names only the last step of a chain of edits, and the runs listed
  for an old version are no longer those that were made for it.
* A run that is dispatched again is saved PENDING and never completed: the dispatch mints
  its own.  The findings of the run it stands for stay in the winning set.
* A scoped run whose challenge spans a refinement is saved under the old version
  (`challenge.py:290`).
* Saving a run again moves its row (INSERT OR REPLACE), so the save order that
  `ArrivalsAreSaveOrder` is about holds until a refinement re-points runs.

Readers:

* The ablation comparison ignores challenge responses (`domain/eval_reader.py:263`).
* The iteration note is appended on every further cycle, not once
  (`domain/iteration_cap.py:92`).

## 7. What could come next

1. `RunLens`: turn limit, two strikes and tool grants, composed with `LensDispatch` as the
   implementation of its arbitrary task.
2. Winners across a refinement: `Challenge`'s winning set over the versions of
   `Refinement`.
