---------------------------- MODULE TwoRoundsProofs ----------------------------
(***************************************************************************)
(* What a Round 2 rests on, for any panels, mandatory lenses and number of  *)
(* dispatches.                                                              *)
(*                                                                          *)
(* The runs of a dispatch whose event is stored are all there (Numbered):   *)
(* no lens task of it is left in the loop, not even after its round raised. *)
(* So whoever takes up a recorded Round 1, when it ends or from a reopened  *)
(* store, holds the same runs (Held), and what a Round 2 was dispatched on  *)
(* still stands afterwards (Promises).  That a round halts or has enough    *)
(* successes, and not both, is arithmetic on at most nine lenses.           *)
(*                                                                          *)
(* A dispatch is of one round (OneRoundEach), so a seat of it has one task  *)
(* or one run and every step of a round is one of RoundPromise.             *)
(***************************************************************************)
EXTENDS TwoRounds, FiniteSetTheorems, TLAPS

\* TypeOK without the count, which follows from OneRunEach.
Types ==
  /\ phase \in {"idle", "round1", "round2"}
  /\ minted \in 0 .. DispatchBound
  /\ tasks \in SUBSET Tasks
  /\ held \in {0} \cup events
  /\ round1 \in SUBSET runs
  /\ runs \in SUBSET LensRuns
  /\ events \in SUBSET Dispatches
  /\ halted \in SUBSET events
  /\ basis \in [Dispatches -> {0} \cup events]
  /\ shown \in [Dispatches -> SUBSET runs]

\* Everything that is or was a lens task and has not been lost.
Work == tasks \cup {r.task : r \in runs}

Numbered ==
  /\ \A t \in Work : t.dispatch <= minted
  /\ \A e \in events : e <= minted
  /\ \A t \in tasks : t.dispatch \notin events

OneRunEach ==
  /\ \A r \in runs : r.task \notin tasks
  /\ \A r, s \in runs : r.task = s.task => r = s
  /\ \A r \in runs : r.optsIn => r.status = "succeeded"
  /\ \A r, s \in round1 : r.task.lens = s.task.lens => r = s

Phases ==
  /\ phase # "idle" => minted \in Dispatches /\ minted \notin events
  /\ phase = "round1" => \A t \in Work : t.dispatch = minted => t.round = 1

Held ==
  /\ held = 0 => round1 = {}
  /\ held # 0 => round1 = RunsOf(held) /\ \A r \in round1 : r.task.round = 1
  /\ \A e \in halted : Halts(RunsOf(e))

Backed(t) ==
  t.round = 2 =>
    /\ basis[t.dispatch] \in events
    /\ Cardinality(Successes(basis[t.dispatch])) >= 3
    /\ t.lens \notin Mandatory =>
         \E s \in Successes(basis[t.dispatch]) : s.task.lens = t.lens /\ s.optsIn

Promises ==
  /\ \A t \in Work : Backed(t)
  /\ PeersAreOneRound
  /\ HaltedIsNotCrossed

IInv ==
  /\ Types
  /\ Numbered
  /\ OneRunEach
  /\ Phases
  /\ Held
  /\ Promises

USE DispatchAssumption DEF Dispatches

\* A result with one run per lens is as large as its set of lenses.
LEMMA OnePerLens ==
  ASSUME Types, OneRunEach
  PROVE  /\ IsFiniteSet(round1)
         /\ Cardinality(round1) <= 9
         /\ Cardinality(round1) = Cardinality(LensesOf(round1))
<1> DEFINE lens == [r \in round1 |-> r.task.lens]
<1>1. \A r \in round1 : r.task.lens \in Lenses
  BY DEF Types, LensRuns, Tasks
<1>2. LensesOf(round1) \subseteq Lenses
  BY <1>1 DEF LensesOf
<1>3. IsFiniteSet(LensesOf(round1)) /\ Cardinality(LensesOf(round1)) <= Cardinality(Lenses)
  BY <1>2, LensAssumption, FS_Subset
<1>4. lens \in Bijection(round1, LensesOf(round1))
  BY DEF OneRunEach, LensesOf, Bijection, Injection, Surjection, IsInjective
<1>5. lens \in Injection(round1, LensesOf(round1)) /\ lens \in Surjection(round1, LensesOf(round1))
  BY <1>4 DEF Bijection
<1> HIDE DEF lens
<1>6. IsFiniteSet(round1) /\ Cardinality(round1) = Cardinality(LensesOf(round1))
  BY <1>3, <1>5, FS_Injection
<1>7. Cardinality(Lenses) \in Nat /\ Cardinality(LensesOf(round1)) \in Nat
  BY <1>3, LensAssumption, FS_CardinalityType
<1> QED
  BY <1>3, <1>6, <1>7, LensAssumption

\* Three successes among at most nine runs are not over 70% failures.
LEMMA EnoughIsNoHalt ==
  ASSUME Types, OneRunEach, Enough
  PROVE  ~ Halts(round1)
<1> DEFINE good == Succeeded(round1)
           bad == Failed(round1)
<1>1. IsFiniteSet(round1) /\ Cardinality(round1) <= 9 /\ Cardinality(round1) \in Nat
  BY OnePerLens, FS_CardinalityType
<1>2. good \subseteq round1 /\ bad = round1 \ good /\ round1 \cap good = good
  BY DEF Succeeded, Failed
<1>3. IsFiniteSet(good) /\ Cardinality(good) \in Nat
  BY <1>1, <1>2, FS_Subset, FS_CardinalityType
<1>4. IsFiniteSet(bad) /\ Cardinality(bad) = Cardinality(round1) - Cardinality(good)
  BY <1>1, <1>2, FS_Difference
<1>5. Cardinality(good) >= 3
  BY DEF Enough
<1> HIDE DEF good, bad
<1>6. ~ (10 * Cardinality(bad) > 7 * Cardinality(round1))
  BY <1>1, <1>3, <1>4, <1>5, SMT
<1> QED
  BY <1>6 DEF Halts, bad

LEMMA IInvInit == Init => IInv
<1> SUFFICES ASSUME Init PROVE IInv
  OBVIOUS
<1>1. Types
  BY DEF Init, Types
<1>2. Numbered /\ OneRunEach /\ Phases /\ Held
  BY DEF Init, Numbered, OneRunEach, Phases, Held, Work
<1>3. Work = {}
  BY DEF Init, Work
<1>4. Promises
  BY <1>3 DEF Init, Promises, HaltedIsNotCrossed, PeersAreOneRound
<1> QED
  BY <1>1, <1>2, <1>4 DEF IInv

\* What rests on recorded dispatches stands while their runs do.
LEMMA Stands ==
  ASSUME Types, Promises,
         \A e \in events : e \in events' /\ RunsOf(e)' = RunsOf(e)
  PROVE  /\ \A t \in Work : basis'[t.dispatch] = basis[t.dispatch] => Backed(t)'
         /\ \A d \in Dispatches :
              shown[d] # {} => basis[d] \in events' /\ shown[d] = {s \in runs' :
                s.task.dispatch = basis[d] /\ s.task.round = 1 /\ s.status = "succeeded"}
<1>1. \A e \in events : Successes(e)' = Successes(e)
  BY DEF Successes
<1>2. ASSUME NEW t \in Work, basis'[t.dispatch] = basis[t.dispatch] PROVE Backed(t)'
  <2>1. Backed(t)
    BY DEF Promises
  <2> QED
    BY <1>1, <1>2, <2>1 DEF Backed
<1>3. ASSUME NEW d \in Dispatches, shown[d] # {}
      PROVE  basis[d] \in events' /\ shown[d] = {s \in runs' :
               s.task.dispatch = basis[d] /\ s.task.round = 1 /\ s.status = "succeeded"}
  <2>1. PICK e \in events : e = basis[d] /\ shown[d] = Successes(e)
    BY <1>3 DEF Promises, PeersAreOneRound
  <2>2. e \in events' /\ shown[d] = Successes(e)'
    BY <1>1, <2>1
  <2> QED
    BY <2>1, <2>2 DEF Successes, RunsOf
<1> QED
  BY <1>2, <1>3

\* So it does over every step that dispatches no Round 2 and halts no round.
LEMMA StandsStill ==
  ASSUME IInv, Types', UNCHANGED <<basis, shown>>,
         \A e \in events : e \in events' /\ RunsOf(e)' = RunsOf(e),
         \A t \in Work' : t \in Work \/ t.round = 1,
         \A e \in halted' : e \in halted \/ e \notin events
  PROVE  Promises'
<1>1. Types /\ Promises
  BY DEF IInv
<1>2. \A t \in Work' : Backed(t)'
  BY <1>1, Stands DEF Backed
<1>3. PeersAreOneRound'
  BY <1>1, Stands DEF PeersAreOneRound, Successes, RunsOf
<1>4. HaltedIsNotCrossed'
  <2>1. \A d \in Dispatches : basis[d] = 0 \/ basis[d] \in events
    BY <1>1 DEF Types
  <2>2. 0 \notin halted'
    BY DEF Types
  <2> QED
    BY <1>1, <2>1, <2>2 DEF Promises, HaltedIsNotCrossed
<1> QED
  BY <1>2, <1>3, <1>4 DEF Promises

\* A dispatch starts: its tasks are new.
LEMMA StartStep ==
  ASSUME IInv, NEW round \in {1, 2}, NEW lenses \in SUBSET Lenses,
         Start(round, lenses), UNCHANGED <<runs, events>>
  PROVE  /\ minted' = minted + 1 /\ minted' \in Dispatches /\ minted' \notin events
         /\ tasks' \in SUBSET Tasks
         /\ Numbered'
         /\ \A t \in Work' : t \in Work \/ (t.dispatch = minted' /\ t.round = round /\ t.lens \in lenses)
         /\ \A t \in Work : t.dispatch # minted'
         /\ \A r \in runs : r.task \notin tasks'
<1> USE DEF IInv
<1>1. /\ minted' = minted + 1 /\ minted \in Nat
      /\ minted' \in Dispatches
  BY DEF Start, Types
<1>2. \A e \in events : e <= minted /\ e \in Nat
  BY DEF Numbered, Types
<1>3. minted' \notin events
  BY <1>1, <1>2
<1> DEFINE new == {[round |-> round, dispatch |-> minted + 1, lens |-> l] : l \in lenses}
<1>4. \A t \in new : t \in Tasks /\ t.dispatch = minted' /\ t.round = round /\ t.lens \in lenses
  BY <1>1 DEF Tasks
<1>5. tasks' = tasks \cup new
  BY DEF Start
<1> HIDE DEF new
<1>6. tasks' \in SUBSET Tasks
  BY <1>4, <1>5 DEF Types
<1>7. \A t \in Work : t.dispatch <= minted /\ t.dispatch \in Nat
  BY DEF Numbered, Work, Types, LensRuns, Tasks
<1>8. Work' = Work \cup new
  BY <1>5 DEF Work
<1>9. \A t \in Work : t.dispatch # minted'
  BY <1>1, <1>7
<1>10. Numbered'
  BY <1>1, <1>2, <1>3, <1>4, <1>5, <1>7, <1>8 DEF Numbered
<1>11. \A r \in runs : r.task \notin tasks'
  BY <1>4, <1>5, <1>9 DEF OneRunEach, Work
<1> QED
  BY <1>1, <1>3, <1>4, <1>6, <1>8, <1>9, <1>10, <1>11

LEMMA DispatchRound1Step == ASSUME IInv, NEW panel \in Panels, DispatchRound1(panel) PROVE IInv'
<1> USE DEF IInv
<1>1. /\ phase' = "round1" /\ held' = 0 /\ round1' = {}
      /\ Start(1, panel) /\ UNCHANGED <<runs, events, halted, basis, shown>>
  BY DEF DispatchRound1, history
<1>2. /\ minted' = minted + 1 /\ minted' \in Dispatches /\ minted' \notin events
      /\ tasks' \in SUBSET Tasks
      /\ Numbered'
      /\ \A t \in Work' : t \in Work \/ (t.dispatch = minted' /\ t.round = 1)
      /\ \A t \in Work : t.dispatch # minted'
      /\ \A r \in runs : r.task \notin tasks'
  BY <1>1, LensAssumption, StartStep
<1>3. Types'
  BY <1>1, <1>2 DEF Types
<1>4. OneRunEach'
  BY <1>1, <1>2 DEF OneRunEach
<1>5. Phases'
  BY <1>1, <1>2 DEF Phases
<1>6. \A e \in events : RunsOf(e)' = RunsOf(e)
  BY <1>1 DEF RunsOf
<1>7. Held'
  BY <1>1, <1>6 DEF Held, Types, Halts, Failed, Succeeded
<1>8. Promises'
  BY <1>1, <1>2, <1>3, <1>6, StandsStill
<1> QED
  BY <1>2, <1>3, <1>4, <1>5, <1>7, <1>8

\* Steps that only lose tasks and the orchestrator's state.
LEMMA LessStep ==
  ASSUME IInv, tasks' \subseteq tasks, UNCHANGED <<minted, runs, events, halted, basis, shown>>,
         phase' \in {phase, "idle"},
         UNCHANGED <<held, round1>> \/ (held' = 0 /\ round1' = {})
  PROVE  IInv'
<1> USE DEF IInv
<1>1. Types'
  BY DEF Types
<1>2. Work' \subseteq Work
  BY DEF Work
<1>3. Numbered'
  BY <1>2 DEF Numbered
<1>4. OneRunEach'
  BY DEF OneRunEach
<1>5. Phases'
  BY <1>2 DEF Phases
<1>6. \A e : RunsOf(e)' = RunsOf(e)
  BY DEF RunsOf
<1>7. Held'
  BY <1>6 DEF Held, Halts, Failed, Succeeded
<1>8. Promises'
  BY <1>1, <1>2, <1>6, StandsStill
<1> QED
  BY <1>1, <1>3, <1>4, <1>5, <1>7, <1>8

\* A saved run belongs to a dispatch that has not been recorded.
LEMMA LensReturnsStep == ASSUME IInv, NEW t \in tasks, LensReturns(t) PROVE IInv'
<1> USE DEF IInv
<1>1. PICK run \in [task : {t}, status : Statuses, optsIn : BOOLEAN] :
        runs' = runs \cup {run} /\ (run.optsIn => run.status = "succeeded")
  <2>1. PICK status \in Statuses, optsIn \in BOOLEAN :
          /\ optsIn => status = "succeeded" /\ t.round = 1
          /\ runs' = runs \cup {[task |-> t, status |-> status, optsIn |-> optsIn]}
    BY DEF LensReturns
  <2> WITNESS [task |-> t, status |-> status, optsIn |-> optsIn]
                \in [task : {t}, status : Statuses, optsIn : BOOLEAN]
  <2> QED
    BY <2>1
<1>2. /\ tasks' = tasks \ {t}
      /\ UNCHANGED <<phase, minted, held, round1, events, halted, basis, shown>>
  BY DEF LensReturns, history
<1>3. run.task = t /\ t \in Tasks /\ run \in LensRuns
  BY DEF Types, LensRuns
<1>4. Types'
  BY <1>1, <1>2, <1>3 DEF Types
<1>5. Work' \subseteq Work
  BY <1>1, <1>2, <1>3 DEF Work
<1>6. Numbered'
  BY <1>2, <1>5 DEF Numbered
<1>7. OneRunEach'
  BY <1>1, <1>2, <1>3 DEF OneRunEach
<1>8. \A e \in events : RunsOf(e)' = RunsOf(e)
  BY <1>1, <1>3 DEF RunsOf, Numbered
<1>9. Phases'
  BY <1>2, <1>5 DEF Phases
<1>10. Held'
  BY <1>2, <1>8 DEF Held, Types, Halts, Failed, Succeeded
<1>11. Promises'
  BY <1>2, <1>4, <1>5, <1>8, StandsStill
<1> QED
  BY <1>4, <1>6, <1>7, <1>9, <1>10, <1>11

\* A dispatch has one run per lens, if it has one per task and is of one round.
LEMMA OnePerSeat ==
  ASSUME IInv, NEW e \in Dispatches, \A r \in RunsOf(e) : r.task.round = 1
  PROVE  \A r, s \in RunsOf(e) : r.task.lens = s.task.lens => r = s
<1>1. \A r \in RunsOf(e) : r \in runs /\ r.task \in Tasks /\ r.task.dispatch = e
  BY DEF RunsOf, IInv, Types, LensRuns
<1>2. \A r, s \in RunsOf(e) : r.task.lens = s.task.lens => r.task = s.task
  BY <1>1 DEF Tasks
<1> QED
  BY <1>1, <1>2 DEF IInv, OneRunEach

LEMMA EndRound1Step == ASSUME IInv, EndRound1 PROVE IInv'
<1> USE DEF IInv
<1>1. /\ phase = "round1" /\ phase' = "idle"
      /\ events' = events \cup {minted}
      /\ held' = minted /\ round1' = RunsOf(minted)
      /\ halted' = IF Halts(round1') THEN halted \cup {minted} ELSE halted
      /\ UNCHANGED <<minted, tasks, runs, basis, shown>>
      /\ \A t \in tasks : t.dispatch # minted
  BY DEF EndRound1, Gathered
<1>2. minted \in Dispatches /\ minted \notin events
  BY <1>1 DEF Phases
<1>3. \A r \in RunsOf(minted) : r \in runs /\ r.task.round = 1
  BY <1>1 DEF Phases, RunsOf, Work
<1>4. Types'
  BY <1>1, <1>2, <1>3 DEF Types
<1>5. Work' = Work
  BY <1>1 DEF Work
<1>6. Numbered'
  BY <1>1, <1>2, <1>5 DEF Numbered
<1>7. OneRunEach'
  BY <1>1, <1>2, <1>3, OnePerSeat DEF OneRunEach
<1>8. Phases'
  BY <1>1 DEF Phases
<1>9. \A e : RunsOf(e)' = RunsOf(e)
  BY <1>1 DEF RunsOf
<1>10. Held'
  <2>1. \A e \in halted' : Halts(RunsOf(e))'
    <3>1. \A e \in halted : Halts(RunsOf(e))'
      BY <1>9 DEF Held, Halts, Failed, Succeeded
    <3>2. Halts(round1') => Halts(RunsOf(minted))'
      BY <1>1, <1>9 DEF Halts, Failed, Succeeded
    <3> QED
      BY <1>1, <3>1, <3>2
  <2> QED
    BY <1>1, <1>2, <1>3, <1>9, <2>1 DEF Held
<1>11. Promises'
  BY <1>1, <1>2, <1>4, <1>5, <1>9, StandsStill
<1> QED
  BY <1>4, <1>6, <1>7, <1>8, <1>10, <1>11

\* What is taken up again is a recorded Round 1, all of it.
LEMMA ResumeStep == ASSUME IInv, NEW e \in events, Resume(e) PROVE IInv'
<1> USE DEF IInv
<1>1. /\ \A r \in RunsOf(e) : r.task.round = 1
      /\ held' = e /\ round1' = RunsOf(e)
      /\ UNCHANGED <<phase, minted, tasks, runs, events, halted, basis, shown>>
  BY DEF Resume, history
<1>2. e \in Dispatches /\ e # 0
  BY DEF Types
<1>3. Types'
  <2>1. RunsOf(e) \subseteq runs
    BY DEF RunsOf
  <2> QED
    BY <1>1, <2>1 DEF Types
<1>4. Work' = Work
  BY <1>1 DEF Work
<1>5. Numbered' /\ Phases'
  BY <1>1, <1>4 DEF Numbered, Phases
<1>6. OneRunEach'
  BY <1>1, <1>2, OnePerSeat DEF OneRunEach
<1>7. \A d : RunsOf(d)' = RunsOf(d)
  BY <1>1 DEF RunsOf
<1>8. Held'
  BY <1>1, <1>2, <1>7 DEF Held, Halts, Failed, Succeeded
<1>9. Promises'
  BY <1>1, <1>3, <1>4, <1>7, StandsStill
<1> QED
  BY <1>3, <1>5, <1>6, <1>8, <1>9

LEMMA EndRound2Step == ASSUME IInv, EndRound2 PROVE IInv'
<1> USE DEF IInv
<1>1. /\ phase = "round2" /\ phase' = "idle"
      /\ events' = events \cup {minted}
      /\ UNCHANGED <<minted, tasks, held, round1, runs, halted, basis, shown>>
      /\ \A t \in tasks : t.dispatch # minted
  BY DEF EndRound2, Gathered, history
<1>2. minted \in Dispatches
  BY <1>1 DEF Phases
<1>3. Types'
  BY <1>1, <1>2 DEF Types
<1>4. Work' = Work
  BY <1>1 DEF Work
<1>5. Numbered'
  BY <1>1, <1>2, <1>4 DEF Numbered
<1>6. OneRunEach'
  BY <1>1 DEF OneRunEach
<1>7. Phases'
  BY <1>1 DEF Phases
<1>8. \A e : RunsOf(e)' = RunsOf(e)
  BY <1>1 DEF RunsOf
<1>9. Held'
  BY <1>1, <1>8 DEF Held, Halts, Failed, Succeeded
<1>10. Promises'
  BY <1>1, <1>3, <1>4, <1>8, StandsStill
<1> QED
  BY <1>3, <1>5, <1>6, <1>7, <1>9, <1>10

\* What Round 2 is dispatched on is a recorded round, all of it.
LEMMA DispatchRound2Step == ASSUME IInv, DispatchRound2 PROVE IInv'
<1> USE DEF IInv
<1>1. /\ held # 0 /\ Enough /\ Start(2, Participants)
      /\ shown' = [shown EXCEPT ![minted + 1] = Peers]
      /\ basis' = [basis EXCEPT ![minted + 1] = held]
      /\ phase' = "round2"
      /\ UNCHANGED <<held, round1, runs, events, halted>>
  BY DEF DispatchRound2
<1>2. /\ held \in events /\ round1 = RunsOf(held)
      /\ \A r \in round1 : r.task.round = 1
  BY <1>1 DEF Held, Types
<1>3. Participants \in SUBSET Lenses
  BY LensAssumption DEF Participants, LensesOf, Types, LensRuns, Tasks
<1>4. /\ minted' = minted + 1 /\ minted' \in Dispatches /\ minted' \notin events
      /\ tasks' \in SUBSET Tasks
      /\ Numbered'
      /\ \A t \in Work' : t \in Work \/ (t.dispatch = minted' /\ t.round = 2 /\ t.lens \in Participants)
      /\ \A t \in Work : t.dispatch # minted'
      /\ \A r \in runs : r.task \notin tasks'
  BY <1>1, <1>3, StartStep
<1>5. \A d \in Dispatches :
        /\ shown'[d] = IF d = minted' THEN Peers ELSE shown[d]
        /\ basis'[d] = IF d = minted' THEN held ELSE basis[d]
  BY <1>1, <1>4 DEF Types
<1>6. Types'
  <2>1. Peers \in SUBSET runs
    BY DEF Peers, Succeeded, Types
  <2>2. shown' \in [Dispatches -> SUBSET runs'] /\ basis' \in [Dispatches -> {0} \cup events']
    BY <1>1, <1>2, <2>1 DEF Types
  <2> QED
    BY <1>1, <1>4, <2>2 DEF Types
<1>7. OneRunEach'
  BY <1>1, <1>4 DEF OneRunEach
<1>8. Phases'
  BY <1>1, <1>4 DEF Phases
<1>9. \A e : RunsOf(e)' = RunsOf(e)
  BY <1>1 DEF RunsOf
<1>10. Held'
  BY <1>1, <1>9 DEF Held, Halts, Failed, Succeeded
<1> PICK base \in events : base = held
  BY <1>2
<1>11. Peers = Successes(base) /\ Successes(base)' = Successes(base)
  BY <1>2, <1>9 DEF Peers, Succeeded, Successes
<1>12. ASSUME NEW t \in Work', t.dispatch = minted', t.round = 2, t.lens \in Participants
       PROVE  Backed(t)'
  <2>1. basis'[t.dispatch] = base
    BY <1>4, <1>5, <1>12
  <2>2. base \in events' /\ Cardinality(Successes(base)') >= 3
    BY <1>1, <1>11 DEF Enough, Peers
  <2>3. t.lens \notin Mandatory =>
          \E s \in Successes(base) : s.task.lens = t.lens /\ s.optsIn
    <3> SUFFICES ASSUME t.lens \notin Mandatory
                 PROVE  \E s \in Successes(base) : s.task.lens = t.lens /\ s.optsIn
      OBVIOUS
    <3>1. PICK s \in round1 : s.optsIn /\ s.task.lens = t.lens
      BY <1>12 DEF Participants, LensesOf
    <3>2. s.status = "succeeded"
      BY <3>1 DEF OneRunEach, Types
    <3> QED
      BY <1>2, <3>1, <3>2 DEF Successes
  <2> QED
    BY <1>11, <2>1, <2>2, <2>3 DEF Backed
<1>13. Promises'
  <2>1. \A t \in Work : t.dispatch \in Dispatches
    BY DEF Work, Types, LensRuns, Tasks
  <2>2. /\ \A t \in Work : Backed(t)'
        /\ \A d \in Dispatches :
              shown[d] # {} => basis[d] \in events' /\ shown[d] = {s \in runs' :
                s.task.dispatch = basis[d] /\ s.task.round = 1 /\ s.status = "succeeded"}
    BY <1>1, <1>4, <1>5, <1>9, <2>1, Stands
  <2>3. \A t \in Work' : Backed(t)'
    BY <1>4, <1>12, <2>2
  <2>4. ASSUME NEW d \in Dispatches, shown'[d] # {}
        PROVE  basis'[d] \in events' /\ shown'[d] = Successes(basis[d])'
    <3>1. CASE d = minted'
      <4>1. shown'[d] = Peers /\ basis'[d] = base
        BY <1>5, <3>1
      <4> QED
        BY <1>1, <1>11, <4>1
    <3>2. CASE d # minted'
      <4>1. shown'[d] = shown[d] /\ basis'[d] = basis[d]
        BY <1>5, <3>2
      <4> QED
        BY <2>2, <2>4, <4>1 DEF Successes, RunsOf
    <3> QED
      BY <3>1, <3>2
  <2>5. HaltedIsNotCrossed'
    <3>1. base \notin halted
      BY <1>1, <1>2, EnoughIsNoHalt DEF Held
    <3> QED
      BY <1>1, <1>5, <3>1 DEF Promises, HaltedIsNotCrossed
  <2> QED
    BY <2>3, <2>4, <2>5 DEF Promises, PeersAreOneRound
<1> QED
  BY <1>4, <1>6, <1>7, <1>8, <1>10, <1>13

LEMMA IInvNext == IInv /\ [Next]_vars => IInv'
<1> SUFFICES ASSUME IInv, [Next]_vars PROVE IInv'
  OBVIOUS
<1>1. ASSUME NEW panel \in Panels, DispatchRound1(panel) PROVE IInv'
  BY <1>1, DispatchRound1Step
<1>2. ASSUME NEW t \in tasks, LensReturns(t) PROVE IInv'
  BY <1>2, LensReturnsStep
<1>3. ASSUME NEW t \in tasks, LensRaises(t) PROVE IInv'
  BY <1>3, LessStep DEF LensRaises, history
<1>4. CASE EndRound1
  BY <1>4, EndRound1Step
<1>5. ASSUME NEW e \in events, Resume(e) PROVE IInv'
  BY <1>5, ResumeStep
<1>6. CASE DispatchRound2
  BY <1>6, DispatchRound2Step
<1>7. CASE EndRound2
  BY <1>7, EndRound2Step
<1>8. CASE Crash
  BY <1>8, LessStep DEF Crash, history
<1>9. CASE UNCHANGED vars
  BY <1>9, LessStep DEF vars, memory, history
<1> QED
  BY <1>1, <1>2, <1>3, <1>4, <1>5, <1>6, <1>7, <1>8, <1>9 DEF Next, SkipRound2, Finished

THEOREM IInvHolds == Spec => []IInv
BY IInvInit, IInvNext, PTL DEF Spec

(* Every variable keeps its type: the runs the orchestrator holds are a        *)
(* recorded round's, one per lens.                                           *)
THEOREM TypeCorrect == Spec => []TypeOK
<1>1. IInv => TypeOK
  BY OnePerLens DEF IInv, Types, TypeOK
<1> QED
  BY <1>1, IInvHolds, PTL

(* No panel that halts gets a Round 2, because there are at most nine lenses. *)
THEOREM HaltsAreNotCrossed == Spec => []HaltedIsNotCrossed
<1>1. IInv => HaltedIsNotCrossed
  BY DEF IInv, Promises
<1> QED
  BY <1>1, IInvHolds, PTL

(* Every Round 2 run in the store rests on a recorded, successful Round 1,     *)
(* through any raised Round 2, repetition, crash and reopened store.         *)
THEOREM Round2IsBacked == Spec => []Round2RestsOnRound1
<1>1. IInv => Round2RestsOnRound1
  BY DEF IInv, Promises, Backed, Work, Round2RestsOnRound1
<1> QED
  BY <1>1, IInvHolds, PTL

(* Who is in Round 2 without being mandatory has asked for it in the Round 1  *)
(* it rests on.                                                              *)
THEOREM OthersOptedIn == Spec => []OptInsOnly
<1>1. IInv => OptInsOnly
  BY DEF IInv, Promises, Backed, Work, OptInsOnly
<1> QED
  BY <1>1, IInvHolds, PTL

(* A Round 2 shows the succeeded runs of one recorded Round 1, and these never *)
(* become others.                                                            *)
THEOREM PeersAreOfOneRound == Spec => []PeersAreOneRound
<1>1. IInv => PeersAreOneRound
  BY DEF IInv, Promises
<1> QED
  BY <1>1, IInvHolds, PTL

-----------------------------------------------------------------------------
\* Every Round 2 lens was shown peers.
ShownPeers == \A t \in Work : t.round = 2 => shown[t.dispatch] # {}

(* What replay rebuilds for a Round 2 run (replay.py:53-57) lacks the lens's   *)
(* own Round 1 run and adds the Round 1 runs that failed or are of a dispatch  *)
(* it does not rest on, and nothing else; for a lens that opted in it is       *)
(* always wrong.                                                             *)
ReplayIsOffBy ==
  \A r \in runs : r.task.round = 2 =>
    LET d == r.task.dispatch
    IN  /\ shown[d] \ ReplayPeers(r) =
             {s \in Successes(basis[d]) : s.task.lens = r.task.lens}
        /\ ReplayPeers(r) \ shown[d] =
             {s \in runs : /\ s.task.round = 1 /\ s.task.lens # r.task.lens
                           /\ s.status # "succeeded" \/ s.task.dispatch # basis[d]}
        /\ r.task.lens \notin Mandatory => ReplayPeers(r) # shown[d]

LEMMA ShownPeersNext == IInv /\ ShownPeers /\ [Next]_vars => ShownPeers'
<1> SUFFICES ASSUME IInv, ShownPeers, [Next]_vars PROVE ShownPeers'
  OBVIOUS
<1>1. ASSUME UNCHANGED shown,
             \A t \in Work' : t \in Work \/ t.round = 1
      PROVE  ShownPeers'
  BY <1>1 DEF ShownPeers
<1>2. CASE DispatchRound2
  <2>1. /\ minted + 1 \in Dispatches
        /\ \A d \in Dispatches :
             shown'[d] = IF d = minted + 1 THEN Succeeded(round1) ELSE shown[d]
    BY <1>2 DEF DispatchRound2, Start, IInv, Types, Peers
  <2>2. \A t \in Work : t.dispatch # minted + 1 /\ t.dispatch \in Dispatches
    BY DEF IInv, Numbered, Types, Work, Tasks, LensRuns
  <2>3. \A t \in Work' : t \in Work \/ t.dispatch = minted + 1
    BY <1>2 DEF DispatchRound2, Start, Work
  <2>4. Succeeded(round1) # {}
    <3>1. Cardinality(Succeeded(round1)) >= 3
      BY <1>2 DEF DispatchRound2, Enough
    <3> QED
      BY <3>1, FS_EmptySet
  <2> QED
    BY <2>1, <2>2, <2>3, <2>4 DEF ShownPeers
<1>3. ASSUME NEW panel \in Panels, DispatchRound1(panel) PROVE ShownPeers'
  BY <1>1, <1>3 DEF DispatchRound1, Start, Work, history
<1>4. ASSUME NEW t \in tasks, LensReturns(t) PROVE ShownPeers'
  BY <1>1, <1>4 DEF LensReturns, Work, history
<1>5. ASSUME NEW t \in tasks, LensRaises(t) PROVE ShownPeers'
  BY <1>1, <1>5 DEF LensRaises, Work, history
<1>6. CASE Crash
  BY <1>1, <1>6 DEF Crash, Work, history
<1>7. ASSUME UNCHANGED <<shown, tasks, runs>> PROVE ShownPeers'
  BY <1>1, <1>7 DEF Work
<1> QED
  BY <1>2, <1>3, <1>4, <1>5, <1>6, <1>7
  DEF Next, EndRound1, Resume, SkipRound2, EndRound2, Finished, vars, memory, history

(* How far the peers that replay rebuilds are from those a Round 2 was shown,   *)
(* whatever rounds and stragglers the store holds.                              *)
THEOREM ReplayGap == Spec => []ReplayIsOffBy
<1>1. Init => ShownPeers
  BY DEF Init, ShownPeers, Work
<1>2. IInv /\ ShownPeers => ReplayIsOffBy
  <2> SUFFICES ASSUME IInv, ShownPeers, NEW r \in runs, r.task.round = 2,
                      NEW d, d = r.task.dispatch
               PROVE  /\ shown[d] \ ReplayPeers(r) =
                           {s \in Successes(basis[d]) : s.task.lens = r.task.lens}
                      /\ ReplayPeers(r) \ shown[d] =
                           {s \in runs : /\ s.task.round = 1 /\ s.task.lens # r.task.lens
                                         /\ s.status # "succeeded" \/ s.task.dispatch # basis[d]}
                      /\ r.task.lens \notin Mandatory => ReplayPeers(r) # shown[d]
    BY DEF ReplayIsOffBy
  <2>1. r.task \in Work /\ d \in Dispatches
    BY DEF Work, IInv, Types, LensRuns, Tasks
  <2>2. shown[d] = Successes(basis[d])
    BY <2>1 DEF ShownPeers, IInv, Promises, PeersAreOneRound
  <2>3. shown[d] = {s \in runs : /\ s.task.dispatch = basis[d] /\ s.task.round = 1
                                 /\ s.status = "succeeded"}
    BY <2>2 DEF Successes, RunsOf
  <2>4. ASSUME r.task.lens \notin Mandatory
        PROVE  \E s \in shown[d] : s.task.lens = r.task.lens
    BY <2>1, <2>2, <2>4 DEF IInv, Promises, Backed
  <2> QED
    BY <2>2, <2>3, <2>4 DEF ReplayPeers
<1> QED
  BY <1>1, <1>2, ShownPeersNext, IInvHolds, PTL DEF Spec

-----------------------------------------------------------------------------
\* A dispatch is of one round, so a seat has one task in it.
OneRoundEach == \A t, u \in Work : t.dispatch = u.dispatch => t.round = u.round

LEMMA OneRoundEachNext == IInv /\ OneRoundEach /\ [Next]_vars => OneRoundEach'
<1> SUFFICES ASSUME IInv, OneRoundEach, [Next]_vars PROVE OneRoundEach'
  OBVIOUS
<1>1. ASSUME Work' \subseteq Work PROVE OneRoundEach'
  BY <1>1 DEF OneRoundEach
<1>2. ASSUME NEW round \in {1, 2}, NEW lenses \in SUBSET Lenses,
             Start(round, lenses), UNCHANGED <<runs, events>>
      PROVE  OneRoundEach'
  <2>1. /\ \A t \in Work' : t \in Work \/ (t.dispatch = minted' /\ t.round = round)
        /\ \A t \in Work : t.dispatch # minted'
    BY <1>2, StartStep
  <2> QED
    BY <2>1 DEF OneRoundEach
<1>3. ASSUME NEW panel \in Panels, DispatchRound1(panel) PROVE OneRoundEach'
  BY <1>2, <1>3, LensAssumption DEF DispatchRound1
<1>4. CASE DispatchRound2
  <2>1. Participants \in SUBSET Lenses
    BY LensAssumption DEF Participants, LensesOf, IInv, Types, LensRuns, Tasks
  <2> QED
    BY <1>2, <1>4, <2>1 DEF DispatchRound2
<1>5. ASSUME NEW t \in tasks, LensReturns(t) PROVE OneRoundEach'
  <2>1. PICK run \in [task : {t}, status : Statuses, optsIn : BOOLEAN] : runs' = runs \cup {run}
    <3>1. PICK status \in Statuses, optsIn \in BOOLEAN :
            runs' = runs \cup {[task |-> t, status |-> status, optsIn |-> optsIn]}
      BY <1>5 DEF LensReturns
    <3> WITNESS [task |-> t, status |-> status, optsIn |-> optsIn]
                  \in [task : {t}, status : Statuses, optsIn : BOOLEAN]
    <3> QED
      BY <3>1
  <2>2. run.task = t /\ tasks' \subseteq tasks
    BY <1>5 DEF LensReturns
  <2>3. Work' \subseteq Work
    BY <2>1, <2>2 DEF Work
  <2> QED
    BY <1>1, <2>3
<1>6. ASSUME tasks' \subseteq tasks, runs' = runs PROVE OneRoundEach'
  BY <1>1, <1>6 DEF Work
<1> QED
  BY <1>3, <1>4, <1>5, <1>6
     DEF Next, Finished, vars, memory, LensRaises, EndRound1, Resume, SkipRound2, EndRound2, Crash

Promised == [d \in Dispatches |-> [l \in Lenses |-> RecordedStatus(d, l)]]
Stood == [d \in Dispatches |-> Standing(d)]

\* The recorded status by cases: due, absent, or that of the seat's one run.
LEMMA StatusByCases ==
  ASSUME NEW d, NEW l
  PROVE  /\ Due(d, l) => RecordedStatus(d, l) = "due"
         /\ ~ Due(d, l) /\ RunsOfSeat(d, l) = {} => RecordedStatus(d, l) = "absent"
         /\ \A r : ~ Due(d, l) /\ RunsOfSeat(d, l) = {r} => RecordedStatus(d, l) = r.status
         /\ ~ Due(d, l) /\ RunsOfSeat(d, l) # {} =>
              \E r \in RunsOfSeat(d, l) : RecordedStatus(d, l) = r.status
BY DEF RecordedStatus

\* A seat is due or recorded, not both, and what is recorded is a status.
LEMMA DueByTask ==
  ASSUME IInv, OneRoundEach, NEW d \in Dispatches, NEW l \in Lenses
  PROVE  /\ Due(d, l) <=> RecordedStatus(d, l) = "due"
         /\ Due(d, l) => RunsOfSeat(d, l) = {}
<1>1. \A r \in RunsOfSeat(d, l) : r \in runs /\ r.status # "due" /\ r.task.dispatch = d /\ r.task.lens = l
  <2>1. \A r \in runs : r.status \in Statuses
    BY DEF IInv, Types, LensRuns
  <2>2. "due" \notin Statuses
    BY FailureAssumption DEF Statuses
  <2> QED
    BY <2>1, <2>2 DEF RunsOfSeat, RunsOf
<1>2. ASSUME Due(d, l), NEW r \in RunsOfSeat(d, l) PROVE FALSE
  <2>1. PICK t \in tasks : t.dispatch = d /\ t.lens = l
    BY <1>2 DEF Due
  <2>2. t \in Work /\ r.task \in Work /\ r.task.round = t.round
    BY <1>1, <2>1 DEF Work, OneRoundEach
  <2>3. t \in Tasks /\ r.task \in Tasks
    BY <1>1 DEF IInv, Types, LensRuns
  <2>4. r.task = t
    BY <1>1, <2>1, <2>2, <2>3 DEF Tasks
  <2> QED
    BY <1>1, <2>4 DEF IInv, OneRunEach
<1>3. ~ Due(d, l) => RecordedStatus(d, l) # "due"
  BY <1>1, StatusByCases
<1> QED
  BY <1>2, <1>3, StatusByCases

LEMMA PromisedInit == Init => Promise!Init
<1> SUFFICES ASSUME Init PROVE Promise!Init
  OBVIOUS
<1>1. ASSUME NEW d \in Dispatches, NEW l \in Lenses PROVE RecordedStatus(d, l) = "absent"
  <2>1. ~ Due(d, l) /\ RunsOfSeat(d, l) = {}
    BY DEF Init, Due, RunsOfSeat, RunsOf
  <2> QED
    BY <2>1, StatusByCases
<1>2. ASSUME NEW d \in Dispatches PROVE Standing(d) = "unborn"
  BY DEF Init, Standing
<1>3. Promised = [d \in Dispatches |-> [l \in Lenses |-> "absent"]]
  BY <1>1 DEF Promised
<1>4. Stood = [d \in Dispatches |-> "unborn"]
  BY <1>2 DEF Stood
<1> QED
  BY <1>3, <1>4 DEF Promise!Init, Promised, Stood

\* Where neither a seat's task nor its runs change, nor does what is recorded.
LEMMA StatusKept ==
  ASSUME NEW d, NEW l, Due(d, l)' <=> Due(d, l), RunsOfSeat(d, l)' = RunsOfSeat(d, l)
  PROVE  RecordedStatus(d, l)' = RecordedStatus(d, l)
BY DEF RecordedStatus

LEMMA OpenRound ==
  ASSUME IInv, IInv', NEW round \in {1, 2}, NEW lenses \in SUBSET Lenses,
         Start(round, lenses), UNCHANGED <<runs, events>>,
         phase = "idle", phase' \in {"round1", "round2"}
  PROVE  Promise!Next
<1>1. PICK d \in Dispatches :
        /\ d = minted + 1 /\ d = minted' /\ d \notin events
        /\ \A t \in Work : t.dispatch # d
  <2>1. minted' = minted + 1 /\ minted' \in Dispatches
    BY StartStep
  <2> QED
    BY <2>1, StartStep
<1>2. minted \in Nat
  BY DEF IInv, Types
<1> DEFINE new == {[round |-> round, dispatch |-> d, lens |-> l] : l \in lenses}
<1>3. tasks' = tasks \cup new
  BY <1>1 DEF Start
<1>4. /\ \A t \in new : t.dispatch = d /\ t.lens \in lenses
      /\ \A l \in lenses : \E t \in new : t.dispatch = d /\ t.lens = l
  <2>1. ASSUME NEW t \in new PROVE t.dispatch = d /\ t.lens \in lenses
    OBVIOUS
  <2>2. ASSUME NEW l \in lenses PROVE \E t \in new : t.dispatch = d /\ t.lens = l
    <3>1. [round |-> round, dispatch |-> d, lens |-> l] \in new
      OBVIOUS
    <3> QED
      BY <3>1
  <2> QED
    BY <2>1, <2>2
<1> HIDE DEF new
<1>5. ASSUME NEW l \in Lenses
      PROVE RecordedStatus(d, l)' = IF l \in lenses THEN "due" ELSE "absent"
  <2>1. Due(d, l)' <=> l \in lenses
    <3>1. \A t \in tasks : t.dispatch # d
      BY <1>1 DEF Work
    <3> QED
      BY <1>3, <1>4, <3>1 DEF Due
  <2>2. RunsOfSeat(d, l)' = {}
    <3>1. \A r \in runs' : r.task.dispatch # d
      BY <1>1 DEF Work
    <3> QED
      BY <3>1 DEF RunsOfSeat, RunsOf
  <2>3. /\ Due(d, l)' => RecordedStatus(d, l)' = "due"
        /\ ~ Due(d, l)' /\ RunsOfSeat(d, l)' = {} => RecordedStatus(d, l)' = "absent"
    BY DEF RecordedStatus
  <2> QED
    BY <2>1, <2>2, <2>3
<1>6. ASSUME NEW e \in Dispatches, e # d, NEW l \in Lenses
      PROVE RecordedStatus(e, l)' = RecordedStatus(e, l)
  <2>1. Due(e, l)' <=> Due(e, l)
    BY <1>3, <1>4, <1>6 DEF Due
  <2>2. RunsOfSeat(e, l)' = RunsOfSeat(e, l)
    BY DEF RunsOfSeat, RunsOf
  <2> QED
    BY <2>1, <2>2, StatusKept
<1>7. Standing(d) = "unborn" /\ Standing(d)' = "open"
  <2>1. d > minted /\ ~ (d <= minted) /\ d = minted' /\ ~ (d > minted') /\ d <= minted' /\ d \notin events'
    BY <1>1, <1>2
  <2> QED
    <3>1. Standing(d) = "unborn"
      BY <2>1 DEF Standing
    <3>2. Standing(d)' = "open"
      BY <1>1, <2>1 DEF Standing
    <3> QED
      BY <3>1, <3>2
<1>8. ASSUME NEW e \in Dispatches, e # d PROVE Standing(e)' = Standing(e)
  <2>1. e <= minted' <=> e <= minted
    BY <1>1, <1>2, <1>8
  <2> QED
    BY <1>1, <1>2, <1>8, <2>1 DEF Standing
<1>9. Promised' = [Promised EXCEPT ![d] = [l \in Lenses |-> IF l \in lenses THEN "due" ELSE "absent"]]
  BY <1>1, <1>5, <1>6 DEF Promised
<1>10. Stood' = [Stood EXCEPT ![d] = "open"] /\ Stood[d] = "unborn"
  BY <1>1, <1>7, <1>8 DEF Stood
<1>11. Promise!Open(d)
  BY <1>9, <1>10 DEF Promise!Open, Promised, Stood
<1> QED
  BY <1>1, <1>11 DEF Promise!Next

LEMMA RecordRun ==
  ASSUME IInv, OneRoundEach, IInv', NEW t \in tasks, LensReturns(t)
  PROVE  Promise!Next
<1> DEFINE d == t.dispatch
           s == t.lens
<1>1. t \in Tasks /\ d \in Dispatches /\ s \in Lenses
  BY DEF IInv, Types, Tasks
<1>2. PICK status \in Statuses, optsIn \in BOOLEAN :
        runs' = runs \cup {[task |-> t, status |-> status, optsIn |-> optsIn]}
  BY DEF LensReturns
<1>3. tasks' = tasks \ {t} /\ UNCHANGED <<phase, minted, events>>
  BY DEF LensReturns
<1> DEFINE run == [task |-> t, status |-> status, optsIn |-> optsIn]
<1>4. run.task = t /\ run.status = status /\ runs' = runs \cup {run}
  BY <1>2
<1> HIDE DEF run
<1>5. \A u \in tasks : u.dispatch = d /\ u.lens = s => u = t
  BY <1>1 DEF OneRoundEach, Work, IInv, Types, Tasks
<1>6. Due(d, s) /\ RunsOfSeat(d, s) = {} /\ RecordedStatus(d, s) = "due"
  <2>1. Due(d, s)
    BY DEF Due
  <2> QED
    BY <1>1, <2>1, DueByTask
<1>7. RecordedStatus(d, s)' = status
  <2>1. ~ Due(d, s)'
    BY <1>3, <1>5 DEF Due
  <2>2. RunsOfSeat(d, s)' = {run}
    BY <1>4, <1>6 DEF RunsOfSeat, RunsOf
  <2>3. \A r : ~ Due(d, s)' /\ RunsOfSeat(d, s)' = {r} => RecordedStatus(d, s)' = r.status
    BY DEF RecordedStatus
  <2> QED
    BY <1>4, <2>1, <2>2, <2>3
<1>8. ASSUME NEW e \in Dispatches, NEW l \in Lenses, e # d \/ l # s
      PROVE  RecordedStatus(e, l)' = RecordedStatus(e, l)
  <2>1. Due(e, l)' <=> Due(e, l)
    BY <1>3, <1>8 DEF Due
  <2>2. RunsOfSeat(e, l)' = RunsOfSeat(e, l)
    BY <1>4, <1>8 DEF RunsOfSeat, RunsOf
  <2> QED
    BY <2>1, <2>2, StatusKept
<1>9. Stood' = Stood
  BY <1>3 DEF Stood, Standing
<1> HIDE DEF d, s
<1>10. Promised' = [Promised EXCEPT ![d][s] = status] /\ Promised[d][s] = "due"
  BY <1>1, <1>6, <1>7, <1>8 DEF Promised
<1>11. Promise!Record(d, s)
  BY <1>9, <1>10 DEF Promise!Record, Promised, Stood
<1> QED
  BY <1>1, <1>11 DEF Promise!Next

LEMMA LoseSeat ==
  ASSUME IInv, OneRoundEach, IInv', NEW t \in tasks, LensRaises(t)
  PROVE  Promise!Next
<1> DEFINE d == t.dispatch
           s == t.lens
<1>1. t \in Tasks /\ d \in Dispatches /\ s \in Lenses
  BY DEF IInv, Types, Tasks
<1>2. /\ tasks' = tasks \ {t} /\ UNCHANGED <<minted, runs, events>>
      /\ phase' = IF d = minted THEN "idle" ELSE phase
  BY DEF LensRaises
<1>3. \A u \in tasks : u.dispatch = d /\ u.lens = s => u = t
  BY <1>1 DEF OneRoundEach, Work, IInv, Types, Tasks
<1>4. Due(d, s) /\ RunsOfSeat(d, s) = {} /\ RecordedStatus(d, s) = "due"
  <2>1. Due(d, s)
    BY DEF Due
  <2> QED
    BY <1>1, <2>1, DueByTask
<1>5. RecordedStatus(d, s)' = "absent"
  <2>1. ~ Due(d, s)'
    BY <1>2, <1>3 DEF Due
  <2>2. RunsOfSeat(d, s)' = {}
    BY <1>2, <1>4 DEF RunsOfSeat, RunsOf
  <2>3. ~ Due(d, s)' /\ RunsOfSeat(d, s)' = {} => RecordedStatus(d, s)' = "absent"
    BY DEF RecordedStatus
  <2> QED
    BY <2>1, <2>2, <2>3
<1>6. ASSUME NEW e \in Dispatches, NEW l \in Lenses, e # d \/ l # s
      PROVE  RecordedStatus(e, l)' = RecordedStatus(e, l)
  <2>1. Due(e, l)' <=> Due(e, l)
    BY <1>2, <1>6 DEF Due
  <2>2. RunsOfSeat(e, l)' = RunsOfSeat(e, l)
    BY <1>2 DEF RunsOfSeat, RunsOf
  <2> QED
    BY <2>1, <2>2, StatusKept
<1>7. d \notin events /\ d <= minted
  BY DEF IInv, Numbered, Work
<1>8. Standing(d)' = Promise!Breaks(Standing(d))
  <2>1. Standing(d)' = "broken"
    BY <1>2, <1>7 DEF Standing
  <2>2. Standing(d) \in {"open", "broken"}
    BY <1>7 DEF Standing
  <2> QED
    BY <2>1, <2>2 DEF Promise!Breaks
<1>9. ASSUME NEW e \in Dispatches, e # d PROVE Standing(e)' = Standing(e)
  BY <1>2, <1>9 DEF Standing
<1> HIDE DEF d, s
<1>10. Promised' = [Promised EXCEPT ![d][s] = "absent"] /\ Promised[d][s] = "due"
  BY <1>1, <1>4, <1>5, <1>6 DEF Promised
<1>11. Stood' = [Stood EXCEPT ![d] = Promise!Breaks(@)]
  BY <1>1, <1>8, <1>9 DEF Stood
<1>12. Promise!Lose(d, s)
  BY <1>10, <1>11 DEF Promise!Lose, Promised, Stood
<1> QED
  BY <1>1, <1>12 DEF Promise!Next

LEMMA CompleteRound ==
  ASSUME IInv, OneRoundEach, phase \in {"round1", "round2"}, Gathered,
         events' = events \cup {minted}, phase' = "idle",
         UNCHANGED <<minted, tasks, runs>>
  PROVE  Promise!Next
<1>1. minted \in Dispatches /\ minted \notin events
  BY DEF IInv, Phases
<1>2. ASSUME NEW l \in Lenses PROVE RecordedStatus(minted, l) # "due"
  <2>1. ~ Due(minted, l)
    BY DEF Gathered, Due
  <2> QED
    BY <1>1, <2>1, DueByTask
<1>3. ASSUME NEW e \in Dispatches, NEW l \in Lenses
      PROVE RecordedStatus(e, l)' = RecordedStatus(e, l)
  BY StatusKept DEF Due, RunsOfSeat, RunsOf
<1>4. Standing(minted) = "open" /\ Standing(minted)' = "complete"
  BY <1>1 DEF Standing
<1>5. ASSUME NEW e \in Dispatches, e # minted PROVE Standing(e)' = Standing(e)
  BY <1>5 DEF Standing
<1>6. Promised' = Promised /\ \A l \in Lenses : Promised[minted][l] # "due"
  BY <1>1, <1>2, <1>3 DEF Promised
<1>7. Stood' = [Stood EXCEPT ![minted] = "complete"] /\ Stood[minted] = "open"
  BY <1>1, <1>4, <1>5 DEF Stood
<1>8. Promise!Complete(minted)
  BY <1>6, <1>7 DEF Promise!Complete, Promised, Stood
<1> QED
  BY <1>1, <1>8 DEF Promise!Next

LEMMA DieWithIt == ASSUME IInv, OneRoundEach, Crash PROVE Promise!Next
<1>1. phase' = "idle" /\ tasks' = {} /\ UNCHANGED <<minted, runs, events>>
  BY DEF Crash
<1>2. ASSUME NEW e \in Dispatches, NEW l \in Lenses
      PROVE RecordedStatus(e, l)' =
              IF RecordedStatus(e, l) = "due" THEN "absent" ELSE RecordedStatus(e, l)
  <2>1. ~ Due(e, l)' /\ RunsOfSeat(e, l)' = RunsOfSeat(e, l)
    BY <1>1 DEF Due, RunsOfSeat, RunsOf
  <2>2. CASE Due(e, l)
    <3>1. RecordedStatus(e, l) = "due" /\ RunsOfSeat(e, l)' = {}
      BY <2>1, <2>2, DueByTask
    <3>2. ~ Due(e, l)' /\ RunsOfSeat(e, l)' = {} => RecordedStatus(e, l)' = "absent"
      BY DEF RecordedStatus
    <3> QED
      BY <2>1, <3>1, <3>2
  <2>3. CASE ~ Due(e, l)
    BY <2>1, <2>3, DueByTask, StatusKept
  <2> QED
    BY <2>2, <2>3
<1>3. ASSUME NEW e \in Dispatches PROVE Standing(e)' = Promise!Breaks(Standing(e))
  <2>1. minted \in Nat /\ e \in Nat
    BY DEF IInv, Types
  <2>2. Standing(e)' = IF e > minted THEN "unborn" ELSE IF e \in events THEN "complete" ELSE "broken"
    BY <1>1, <2>1 DEF Standing
  <2>3. Standing(e) = IF e > minted THEN "unborn" ELSE IF e \in events THEN "complete"
                      ELSE IF e = minted /\ phase \in {"round1", "round2"} THEN "open" ELSE "broken"
    BY <2>1 DEF Standing
  <2> QED
    BY <2>2, <2>3 DEF Promise!Breaks
<1>4. Promised' = [e \in Dispatches |-> [l \in Lenses |->
                     IF Promised[e][l] = "due" THEN "absent" ELSE Promised[e][l]]]
  BY <1>2 DEF Promised
<1>5. Stood' = [e \in Dispatches |-> Promise!Breaks(Stood[e])]
  BY <1>3 DEF Stood
<1>6. Promise!Die
  BY <1>4, <1>5 DEF Promise!Die, Promised, Stood
<1> QED
  BY <1>6 DEF Promise!Next

\* Steps that leave rounds and seats as they are.
LEMMA QuietRound ==
  ASSUME IInv, UNCHANGED <<phase, minted, tasks, runs, events>>
  PROVE  UNCHANGED Promise!promiseVars
<1>1. ASSUME NEW e \in Dispatches, NEW l \in Lenses
      PROVE RecordedStatus(e, l)' = RecordedStatus(e, l)
  BY StatusKept DEF Due, RunsOfSeat, RunsOf
<1>2. ASSUME NEW e \in Dispatches PROVE Standing(e)' = Standing(e)
  BY DEF Standing
<1> QED
  BY <1>1, <1>2 DEF Promise!promiseVars

LEMMA RoundStep ==
  ASSUME IInv, OneRoundEach, IInv', [Next]_vars
  PROVE  [Promise!Next]_(Promise!promiseVars)
<1>1. ASSUME NEW panel \in Panels, DispatchRound1(panel) PROVE Promise!Next
  BY <1>1, OpenRound, LensAssumption DEF DispatchRound1
<1>2. CASE DispatchRound2
  <2>1. Participants \in SUBSET Lenses
    BY LensAssumption DEF Participants, LensesOf, IInv, Types, LensRuns, Tasks
  <2> QED
    BY <1>2, <2>1, OpenRound DEF DispatchRound2
<1>3. ASSUME NEW t \in tasks, LensReturns(t) PROVE Promise!Next
  BY <1>3, RecordRun
<1>4. ASSUME NEW t \in tasks, LensRaises(t) PROVE Promise!Next
  BY <1>4, LoseSeat
<1>5. CASE EndRound1 \/ EndRound2
  BY <1>5, CompleteRound DEF EndRound1, EndRound2
<1>6. CASE Crash
  BY <1>6, DieWithIt
<1>7. ASSUME NEW e \in events, Resume(e) PROVE UNCHANGED Promise!promiseVars
  BY <1>7, QuietRound DEF Resume
<1>8. CASE UNCHANGED vars
  BY <1>8, QuietRound DEF vars, memory
<1> QED
  BY <1>1, <1>2, <1>3, <1>4, <1>5, <1>6, <1>7, <1>8 DEF Next, SkipRound2, Finished

(* The rounds the orchestrator is built of are the ones LensDispatch shows a  *)
(* dispatch to be: every step opens, records, loses, completes or dies as    *)
(* RoundPromise has it, or leaves the rounds alone.                          *)
THEOREM RoundsAreAsPromised == Spec => RoundsKeepPromise
<1>1. Init => OneRoundEach
  BY DEF Init, OneRoundEach, Work
<1>2. Spec => []OneRoundEach
  BY <1>1, OneRoundEachNext, IInvHolds, PTL DEF Spec
<1>3. IInv /\ OneRoundEach /\ IInv' /\ [Next]_vars => [Promise!Next]_(Promise!promiseVars)
  BY RoundStep
<1> QED
  BY <1>2, <1>3, PromisedInit, IInvHolds, PTL DEF Spec, RoundsKeepPromise, Promise!Spec
=============================================================================
