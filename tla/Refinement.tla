------------------------------ MODULE Refinement ------------------------------
(***************************************************************************)
(* The refinement loop (refinement.py) over the briefs of Intake and the    *)
(* LensRuns of the store: an edit of the brief is proposed with a           *)
(* disposition for every run, the user confirms or overrides it, reused     *)
(* runs are re-pointed to the new version and the others dispatched again.  *)
(* A challenge (runtime/challenge.py) and the intake's own                  *)
(* edit_confirmed_brief go on meanwhile, over the same store.               *)
(*                                                                          *)
(* A run carries the contents its load_bearing and supporting findings      *)
(* refer to; exploratory findings never count.  That a claim refers to a    *)
(* content is what a ReferenceDetector answers.  refinement.py is pure: the *)
(* caller that saves its results is not in the repository and is taken to   *)
(* save the confirmed brief and every run of the result.                    *)
(***************************************************************************)
EXTENDS Intake, FiniteSets

CONSTANTS
  Lenses,    \* the panel
  RunBound   \* bound: LensRuns in the store

ASSUME RunAssumption == RunBound \in Nat

VARIABLES
  runs,      \* store: the LensRuns in the order they were first saved
  proposal,  \* an InvalidationProposal the user has not confirmed yet
  asked,     \* the ScopedChallengeInput of a challenge whose runner is awaited
  excused    \* history: runs spared by the user, or whose brief was replaced

refinementVars == <<runs, proposal, asked, excused>>
vars == <<intakeVars, refinementVars>>

CONTENT_FIELDS ==
  {"problem_statement", "researcher_context", "success_criteria_for_deliberation",
   "scope_and_non_scope", "proposed_solution"}

NoProposal == [old |-> 0, runs |-> {}]
NotAsked == [run |-> 0]

\* "from" is reused_from_version; "texts" the contents its material findings
\* refer to; "basis" the brief its lens was shown (history).
Runs == [lens : Lenses, version : 1 .. VersionBound, from : 0 .. VersionBound,
         status : {"pending", "succeeded"}, texts : SUBSET Texts, basis : Briefs]
RunIds == 1 .. RunBound

Init ==
  /\ IntakeInit
  /\ runs = <<>>
  /\ proposal = NoProposal
  /\ asked = NotAsked
  /\ excused = {}

-----------------------------------------------------------------------------
\* list_lens_runs_for_brief.
RunsFor(version) == {i \in DOMAIN runs : runs[i].version = version}

\* The runs whose brief a save under this version would replace.
Undermined(version, brief) ==
  IF version \in DOMAIN briefs /\ briefs[version] # brief THEN RunsFor(version) ELSE {}

\* diff_briefs: the content fields in which two versions differ.
Diff(old, new) == {f \in CONTENT_FIELDS : old[f] # new[f]}

\* Mutant: the claim is held against the new text.
ReferredToTheNew(run, old, new) == {f \in Diff(old, new) : new[f] \in run.texts}

\* _classify_run's triggering fields: the edit replaced a text that the run's
\* material findings refer to.
Triggering(run, old, new) == {f \in Diff(old, new) : old[f] \in run.texts}

\* A run made for a brief that was shown to its lens.
NewRun(lens, version, brief, texts) ==
  [lens |-> lens, version |-> version, from |-> 0, status |-> "succeeded",
   texts |-> texts, basis |-> brief]

\* _redispatch: a fresh run of the same lens, which nothing completes: the
\* dispatch mints a run of its own (persist_outcome).
Redispatched(run, version, brief) ==
  [NewRun(run.lens, version, brief, {}) EXCEPT !.status = "pending"]

\* Mutant: the two versions are swapped.
RepointedBack(run, version, old) == [run EXCEPT !.version = old, !.from = version]

\* reused_from_version names the last version only.
Repointed(run, version, old) == [run EXCEPT !.version = version, !.from = old]

\* What a lens may have referred to.
Referable(brief) == {brief[f] : f \in CONTENT_FIELDS} \cap Texts

-----------------------------------------------------------------------------
\* A round controller persists a lens's run for a stored brief.
SaveRun(lens, version) ==
  /\ version \in DOMAIN briefs
  /\ \A i \in RunsFor(version) : runs[i].lens # lens \/ runs[i].status = "pending"
  /\ Len(runs) < RunBound
  /\ \E texts \in SUBSET Referable(briefs[version]) :
       runs' = Append(runs, NewRun(lens, version, briefs[version], texts))
  /\ UNCHANGED <<proposal, asked, excused>>
  /\ UNCHANGED intakeVars

\* refine_brief: revises the latest brief and classifies its runs.
Propose(e) ==
  LET old == Len(briefs)
      new == Revised(briefs[old], e)
  IN /\ proposal = NoProposal
     /\ old \in 1 .. VersionBound - 1
     /\ proposal' = [old |-> old, brief |-> new, runs |-> RunsFor(old),
                     rerun |-> {i \in RunsFor(old) : Triggering(runs[i], briefs[old], new) # {}}]
     /\ UNCHANGED <<runs, asked, excused>>
     /\ UNCHANGED intakeVars

\* apply_invalidation with the user's set, and the saves of its caller: reused
\* runs are re-pointed where they are, the others dispatched again in their order.
Apply(target) ==
  LET version == NextVersion(proposal.old)
      fresh == Cardinality(target)
  IN /\ proposal # NoProposal
     /\ target \subseteq proposal.runs
     /\ Len(runs) + fresh <= RunBound
     /\ briefs' = Saved(version, proposal.brief)
     /\ \E again \in [1 .. fresh -> target] :
          /\ \A j, k \in 1 .. fresh : j < k => again[j] < again[k]
          /\ runs' = [i \in 1 .. Len(runs) + fresh |->
               IF i > Len(runs)
               THEN Redispatched(runs[again[i - Len(runs)]], version, proposal.brief)
               ELSE IF i \in proposal.runs \ target
                    THEN Repointed(runs[i], version, proposal.old)
                    ELSE runs[i]]
     /\ excused' = excused \cup (proposal.rerun \ target)
                           \cup Undermined(version, proposal.brief)
     /\ strayed' = IF version = confirmed
                   THEN strayed \cup {f \in BriefFields : briefs[version][f] # proposal.brief[f]}
                   ELSE strayed
     /\ proposal' = NoProposal
     /\ UNCHANGED <<mode, values, turns, quiet, declined, confirmed, rescreen, asked>>

\* The user drops the proposal.
Discard ==
  /\ proposal # NoProposal
  /\ proposal' = NoProposal
  /\ UNCHANGED <<runs, asked, excused>>
  /\ UNCHANGED intakeVars

\* run_challenge reads the emitting run and its brief, of the version the caller
\* keeps in the session, here any, and awaits the runner.
Ask(i) ==
  /\ asked = NotAsked
  /\ i \in DOMAIN runs
  /\ runs[i].status = "succeeded"
  /\ asked' = [run |-> i, version |-> runs[i].version, brief |-> briefs[runs[i].version]]
  /\ UNCHANGED <<runs, proposal, excused>>
  /\ UNCHANGED intakeVars

\* The runner answers: the scoped run is saved under the version read before
\* the await.
Answer ==
  /\ asked # NotAsked
  /\ Len(runs) < RunBound
  /\ \E texts \in SUBSET Referable(asked.brief) :
       runs' = Append(runs, NewRun(runs[asked.run].lens, asked.version, asked.brief, texts))
  /\ excused' = IF briefs[asked.version] = asked.brief THEN excused
                ELSE excused \cup {Len(runs) + 1}
  /\ asked' = NotAsked
  /\ UNCHANGED proposal
  /\ UNCHANGED intakeVars

\* edit_confirmed_brief knows nothing of runs: they stay with their version.
EditBrief(e) ==
  /\ EditConfirmedBrief(e)
  /\ excused' = excused \cup
       Undermined(NextVersion(confirmed), Revised(briefs[confirmed], e))
  /\ UNCHANGED <<runs, proposal, asked>>

Next ==
  \/ Converse /\ UNCHANGED refinementVars
  \/ Dispatch /\ UNCHANGED refinementVars
  \/ \E e \in Edits : EditBrief(e) \/ Propose(e)
  \/ \E lens \in Lenses, version \in DOMAIN briefs : SaveRun(lens, version)
  \/ \E target \in SUBSET proposal.runs : Apply(target)
  \/ Discard
  \/ \E i \in DOMAIN runs : Ask(i)
  \/ Answer

Spec == Init /\ [][Next]_vars

-----------------------------------------------------------------------------
Proposals ==
  [old : 1 .. VersionBound, brief : Briefs, runs : SUBSET RunIds, rerun : SUBSET RunIds]
Questions == [run : RunIds, version : 1 .. VersionBound, brief : Briefs]

(* Every variable has its type; in particular no run, proposal or question    *)
(* names a version of the brief that is not in the store.                    *)
TypeOK ==
  /\ IntakeTypeOK
  /\ Len(briefs) <= VersionBound
  /\ runs \in Seq(Runs)
  /\ Len(runs) <= RunBound
  /\ proposal = NoProposal \/ proposal \in Proposals
  /\ proposal.old <= Len(briefs)
  /\ asked = NotAsked \/ asked \in Questions
  /\ asked.run <= Len(runs)
  /\ asked # NotAsked => asked.version <= Len(briefs)
  /\ excused \in SUBSET RunIds
  /\ \A i \in DOMAIN runs : runs[i].version <= Len(briefs) /\ runs[i].from < runs[i].version

(* Whatever chain of edits a run was reused across, each text of the brief    *)
(* that its material findings refer to is still where its lens read it, in    *)
(* the version the run is listed for; unless the user spared the run or that  *)
(* version was replaced under it (refinement.py:11-15 and 311-349).          *)
ReuseIsSound ==
  \A i \in DOMAIN runs \ excused :
    \A f \in CONTENT_FIELDS :
      runs[i].basis[f] \in runs[i].texts => briefs[runs[i].version][f] = runs[i].basis[f]
=============================================================================
