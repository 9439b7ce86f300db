---------------------------- MODULE RefinementProofs ---------------------------
(***************************************************************************)
(* Theorems about Intake and Refinement, for any fields' contents, edits,   *)
(* panel, and any number of versions and runs.                              *)
(*                                                                          *)
(* That reuse is sound needs a fact about a proposal that is still open     *)
(* (ProposalStands): the runs it would re-point refer to nothing its brief   *)
(* changes.  It holds when the proposal is made, because reuse was sound     *)
(* then, and nothing that happens to the runs or the briefs until it is      *)
(* applied can break it.  That the screens show the confirmed version needs  *)
(* that the intake is the first to store a brief and that it has a mode by   *)
(* then (Begun).                                                             *)
(***************************************************************************)
EXTENDS Refinement, FiniteSetTheorems, TLAPS

\* Nothing is stored or proposed before the first dispatch, and a proposal is
\* about stored runs and a version that can have a successor.
Begun ==
  /\ confirmed = 0 => briefs = <<>> /\ ~ rescreen
  /\ mode = "none" => confirmed = 0
  /\ proposal.runs \subseteq DOMAIN runs
  /\ proposal # NoProposal => proposal.old \in 1 .. VersionBound - 1

ProposalStands ==
  proposal # NoProposal =>
    \A i \in proposal.runs \ (proposal.rerun \cup excused) :
      \A f \in CONTENT_FIELDS :
        runs[i].basis[f] \in runs[i].texts => proposal.brief[f] = runs[i].basis[f]

\* The screens show the version that was confirmed.
ScreensAgree ==
  confirmed # 0 => \A f \in BriefFields \ strayed : BuiltBrief[f] = briefs[confirmed][f]

IInv == TypeOK /\ Begun /\ ProposalStands /\ ReuseIsSound /\ ScreensAgree

-----------------------------------------------------------------------------
LEMMA FieldsOfBrief == CONTENT_FIELDS \subseteq Fields /\ "mode" \notin Fields
<1>1. Fields = {"problem_statement", "proposed_solution", "researcher_context",
                "background_claims", "success_criteria_for_deliberation",
                "scope_and_non_scope", "panel_constraints", "prior_panel_consultations"}
  <2>1. 1 .. 8 = {1, 2, 3, 4, 5, 6, 7, 8}
    OBVIOUS
  <2>2. Fields = {INTAKE_FIELD_ORDER[1], INTAKE_FIELD_ORDER[2], INTAKE_FIELD_ORDER[3],
                  INTAKE_FIELD_ORDER[4], INTAKE_FIELD_ORDER[5], INTAKE_FIELD_ORDER[6],
                  INTAKE_FIELD_ORDER[7], INTAKE_FIELD_ORDER[8]}
    BY <2>1 DEF Fields
  <2> QED
    BY <2>2 DEF INTAKE_FIELD_ORDER
<1> QED
  BY <1>1 DEF CONTENT_FIELDS

(* A save under the next free version, or under one that is taken.            *)
LEMMA SavedBrief ==
  ASSUME briefs \in Seq(Briefs), NEW version \in 1 .. Len(briefs) + 1, NEW brief \in Briefs
  PROVE  /\ Saved(version, brief) \in Seq(Briefs)
         /\ Len(Saved(version, brief)) \in {Len(briefs), Len(briefs) + 1}
         /\ version <= Len(Saved(version, brief))
         /\ version \in DOMAIN briefs => Len(Saved(version, brief)) = Len(briefs)
         /\ version \notin DOMAIN briefs => Len(Saved(version, brief)) = Len(briefs) + 1
         /\ Saved(version, brief)[version] = brief
         /\ \A v \in DOMAIN briefs \ {version} : Saved(version, brief)[v] = briefs[v]
<1>1. CASE version \in DOMAIN briefs
  BY <1>1 DEF Saved
<1>2. CASE version \notin DOMAIN briefs
  <2>1. version = Len(briefs) + 1
    BY <1>2
  <2> QED
    BY <1>2, <2>1 DEF Saved
<1> QED
  BY <1>1, <1>2

LEMMA RevisedBrief ==
  ASSUME NEW brief \in Briefs, NEW e \in Edits
  PROVE  Revised(brief, e) \in Briefs
<1>1. \A f \in BriefFields : Revised(brief, e)[f] \in Allowed(f)
  BY EditsAssumption DEF Revised, Briefs
<1> QED
  BY <1>1 DEF Revised, Briefs, Allowed

LEMMA BuiltBriefType ==
  ASSUME IntakeTypeOK, mode # "none"
  PROVE  BuiltBrief \in Briefs
<1>1. \A f \in BriefFields : BuiltBrief[f] \in Allowed(f)
  BY FieldsOfBrief DEF IntakeTypeOK, BuiltBrief, BriefFields, Given, Allowed, Contents
<1> QED
  BY <1>1 DEF BuiltBrief, Briefs, Allowed

-----------------------------------------------------------------------------
LEMMA InitInv == Init => IInv
<1> SUFFICES ASSUME Init PROVE IInv
  OBVIOUS
<1>1. /\ briefs = <<>> /\ briefs \in Seq(Briefs) /\ Len(briefs) = 0
      /\ runs = <<>> /\ runs \in Seq(Runs) /\ Len(runs) = 0
      /\ DOMAIN runs = {}
  BY DEF Init, IntakeInit
<1>2. IntakeTypeOK
  <2>1. values \in [Fields -> Contents \cup {Unset}]
    BY DEF Init, IntakeInit
  <2>2. turns \in 0 .. DRAFT_AFTER_TURN /\ quiet \in 0 .. STABILITY_TURNS_REQUIRED
    BY DEF Init, IntakeInit, DRAFT_AFTER_TURN, STABILITY_TURNS_REQUIRED
  <2>3. confirmed \in 0 .. Len(briefs) /\ strayed \in SUBSET BriefFields
    BY <1>1 DEF Init, IntakeInit
  <2>4. rescreen \in BOOLEAN
    BY DEF Init, IntakeInit
  <2> QED
    BY <1>1, <2>1, <2>2, <2>3, <2>4 DEF Init, IntakeInit, IntakeTypeOK
<1>3. TypeOK
  BY <1>1, <1>2, VersionAssumption, RunAssumption DEF Init, TypeOK, NoProposal, NotAsked
<1> QED
  BY <1>1, <1>3 DEF Init, IntakeInit, IInv, Begun, ProposalStands, ReuseIsSound, ScreensAgree,
       NoProposal

-----------------------------------------------------------------------------
(* The steps of the conversation.                                             *)
LEMMA ConverseStep ==
  ASSUME IntakeTypeOK, Begun, ScreensAgree, Converse
  PROVE  /\ IntakeTypeOK' /\ ScreensAgree'
         /\ mode' = "none" => mode = "none"
         /\ UNCHANGED <<confirmed, rescreen, briefs>>
<1>1. ASSUME NEW m \in Modes, DeclareMode(m)
      PROVE  /\ IntakeTypeOK' /\ ScreensAgree' /\ mode' # "none"
             /\ UNCHANGED <<confirmed, rescreen, briefs>>
  <2>1. confirmed = 0
    BY <1>1 DEF DeclareMode, Begun
  <2> QED
    BY <1>1, <2>1 DEF DeclareMode, IntakeTypeOK, ScreensAgree, Modes
<1>2. ASSUME NEW f \in Fields, NEW content \in Contents, RecordChange(f, content)
      PROVE  IntakeTypeOK' /\ ScreensAgree' /\ UNCHANGED <<mode, confirmed, rescreen, briefs>>
  <2>1. UNCHANGED <<confirmed, rescreen, briefs, mode, declined>>
    BY <1>2 DEF RecordChange
  <2>2. values' \in [Fields -> Contents \cup {Unset}] /\ strayed' \in SUBSET BriefFields
    BY <1>2 DEF RecordChange, IntakeTypeOK, BriefFields
  <2>3. turns' \in 0 .. DRAFT_AFTER_TURN /\ quiet' \in 0 .. STABILITY_TURNS_REQUIRED
    BY <1>2 DEF RecordChange, IntakeTypeOK, Tick, DRAFT_AFTER_TURN, STABILITY_TURNS_REQUIRED
  <2>4. IntakeTypeOK'
    BY <2>1, <2>2, <2>3 DEF IntakeTypeOK
  <2>5. ASSUME confirmed # 0, NEW g \in BriefFields \ strayed'
        PROVE  BuiltBrief'[g] = briefs[confirmed][g]
    <3>1. g \notin strayed /\ (g \in Fields => values'[g] = values[g])
      BY <1>2, <2>5 DEF RecordChange, IntakeTypeOK
    <3>2. BuiltBrief[g] = briefs[confirmed][g]
      BY <2>5, <3>1 DEF ScreensAgree
    <3> QED
      BY <2>1, <3>1, <3>2 DEF BuiltBrief, BriefFields, Given
  <2> QED
    BY <2>1, <2>4, <2>5 DEF ScreensAgree
<1>3. ASSUME NEW f \in Fields, SubmitField(f) \/ EditField(f)
      PROVE  \E content \in Contents : RecordChange(f, content)
  BY <1>3, OfferedAssumption DEF SubmitField, EditField
<1>4. CASE IdleTurn
  <2>1. turns' \in 0 .. DRAFT_AFTER_TURN /\ quiet' \in 0 .. STABILITY_TURNS_REQUIRED
    BY <1>4 DEF IdleTurn, IntakeTypeOK, Tick, DRAFT_AFTER_TURN, STABILITY_TURNS_REQUIRED
  <2> QED
    BY <1>4, <2>1 DEF IdleTurn, IntakeTypeOK, ScreensAgree, BuiltBrief, Given
<1>5. CASE Decline
  BY <1>5 DEF Decline, IntakeTypeOK, ScreensAgree, BuiltBrief, Given
<1>6. CASE AllClaimsFailed
  BY <1>6 DEF AllClaimsFailed, IntakeTypeOK, ScreensAgree, BuiltBrief, Given
<1> QED
  BY <1>1, <1>2, <1>3, <1>4, <1>5, <1>6 DEF Converse

(* The first dispatch stores what the screens show.                           *)
LEMMA DispatchStep ==
  ASSUME IntakeTypeOK, Begun, Dispatch
  PROVE  /\ IntakeTypeOK' /\ ScreensAgree' /\ mode' # "none"
         /\ briefs = <<>> /\ Len(briefs') = 1 /\ confirmed' = 1
<1>1. confirmed = 0 /\ briefs = <<>> /\ Len(briefs) = 0 /\ DOMAIN briefs = {}
  BY DEF Dispatch, Dispatchable, Begun
<1>2. mode # "none" /\ BuiltBrief \in Briefs
  BY BuiltBriefType DEF Dispatch, Dispatchable, AllRequiredPresent
<1>3. briefs' \in Seq(Briefs) /\ Len(briefs') = 1 /\ briefs'[1] = BuiltBrief
  BY <1>1, <1>2, SavedBrief DEF Dispatch, IntakeTypeOK
<1>4. IntakeTypeOK'
  <2>1. confirmed' \in 0 .. Len(briefs')
    BY <1>3 DEF Dispatch
  <2>2. rescreen' \in BOOLEAN
    BY DEF Dispatch
  <2> QED
    BY <1>3, <2>1, <2>2 DEF Dispatch, IntakeTypeOK
<1>5. ScreensAgree'
  BY <1>3 DEF Dispatch, ScreensAgree, BuiltBrief, Given
<1> QED
  BY <1>1, <1>2, <1>3, <1>4, <1>5 DEF Dispatch

(* An edit behind the confirmation stores what the screens show from then on.  *)
LEMMA EditStep ==
  ASSUME IntakeTypeOK, Begun, ScreensAgree, NEW e \in Edits, EditConfirmedBrief(e)
  PROVE  /\ IntakeTypeOK' /\ ScreensAgree'
         /\ confirmed' = confirmed + 1 /\ confirmed # 0 /\ confirmed' \in 1 .. Len(briefs) + 1
         /\ briefs' = Saved(confirmed', Revised(briefs[confirmed], e))
         /\ Revised(briefs[confirmed], e) \in Briefs
         /\ confirmed' <= VersionBound
<1> DEFINE brief == Revised(briefs[confirmed], e)
<1>1. /\ confirmed \in 1 .. Len(briefs) /\ confirmed' = confirmed + 1
      /\ confirmed' <= VersionBound /\ briefs' = Saved(confirmed', brief)
  BY DEF EditConfirmedBrief, NextVersion, IntakeTypeOK
<1>2. brief \in Briefs
  BY <1>1, RevisedBrief DEF IntakeTypeOK
<1>3. /\ briefs' \in Seq(Briefs) /\ confirmed' <= Len(briefs')
      /\ briefs'[confirmed'] = brief
  <2>1. briefs \in Seq(Briefs) /\ confirmed + 1 \in 1 .. Len(briefs) + 1
    BY <1>1 DEF IntakeTypeOK
  <2> HIDE DEF brief
  <2>2. /\ Saved(confirmed + 1, brief) \in Seq(Briefs)
        /\ confirmed + 1 <= Len(Saved(confirmed + 1, brief))
        /\ Saved(confirmed + 1, brief)[confirmed + 1] = brief
    BY <1>2, <2>1, SavedBrief
  <2> QED
    BY <1>1, <2>2
<1>4. \A f \in DOMAIN e : f \in BriefFields /\ (f \in Fields => e[f] \in Contents)
  BY EditsAssumption, FieldsOfBrief DEF Allowed
<1>5. values' \in [Fields -> Contents \cup {Unset}] /\ strayed' \in SUBSET BriefFields
  BY <1>4 DEF EditConfirmedBrief, IntakeTypeOK
<1>6. IntakeTypeOK'
  <2>1. rescreen' \in BOOLEAN
    BY DEF EditConfirmedBrief
  <2>2. confirmed' \in 0 .. Len(briefs')
    BY <1>1, <1>3
  <2> QED
    BY <1>3, <1>5, <2>1, <2>2 DEF EditConfirmedBrief, IntakeTypeOK
<1>7. ASSUME NEW f \in BriefFields \ strayed'
      PROVE  BuiltBrief'[f] = briefs'[confirmed'][f]
  <2>1. CASE f \in DOMAIN e /\ f \in Fields
    <3>1. values'[f] = e[f] /\ e[f] # Unset
      <4>1. Unset \notin Contents
        BY TextsAssumption DEF Contents, Unset, Empty
      <4> QED
        BY <1>4, <2>1, <4>1 DEF EditConfirmedBrief, IntakeTypeOK
    <3> QED
      BY <1>3, <2>1, <3>1, FieldsOfBrief DEF BuiltBrief, Given, Revised
  <2>2. CASE f \notin DOMAIN e
    <3>1. f \notin strayed /\ mode' = mode /\ (f \in Fields => values'[f] = values[f])
      BY <2>2 DEF EditConfirmedBrief
    <3>2. BuiltBrief[f] = briefs[confirmed][f]
      BY <1>1, <3>1 DEF ScreensAgree
    <3> QED
      BY <1>3, <2>2, <3>1, <3>2 DEF BuiltBrief, BriefFields, Given, Revised
  <2>3. CASE f \in DOMAIN e /\ f \notin Fields
    <3>1. f = "mode" /\ e[f] = mode /\ mode' = mode
      BY <2>3 DEF EditConfirmedBrief, BriefFields
    <3> QED
      BY <1>3, <2>3, <3>1 DEF BuiltBrief, Revised
  <2> QED
    BY <2>1, <2>2, <2>3
<1> QED
  BY <1>1, <1>2, <1>6, <1>7 DEF ScreensAgree

-----------------------------------------------------------------------------
LEMMA RunIdsOfStore ==
  ASSUME TypeOK
  PROVE  /\ DOMAIN runs = 1 .. Len(runs) /\ DOMAIN runs \subseteq RunIds
         /\ \A i \in DOMAIN runs : /\ runs[i] \in Runs
                                   /\ runs[i].version \in DOMAIN briefs
                                   /\ runs[i].version \in 1 .. Len(briefs)
         /\ \A version, brief : Undermined(version, brief) \subseteq RunIds
<1>1. DOMAIN runs = 1 .. Len(runs) /\ Len(runs) \in Nat /\ Len(runs) <= RunBound
  BY DEF TypeOK
<1>2. DOMAIN runs \subseteq RunIds
  BY <1>1, RunAssumption DEF RunIds
<1>3. ASSUME NEW i \in DOMAIN runs
      PROVE  /\ runs[i] \in Runs
             /\ runs[i].version \in DOMAIN briefs /\ runs[i].version \in 1 .. Len(briefs)
  <2>1. runs[i] \in Runs /\ runs[i].version <= Len(briefs)
    BY DEF TypeOK
  <2>2. runs[i].version \in Nat /\ runs[i].version >= 1
    BY <2>1, VersionAssumption DEF Runs
  <2>3. DOMAIN briefs = 1 .. Len(briefs) /\ Len(briefs) \in Nat
    BY DEF TypeOK, IntakeTypeOK
  <2> QED
    BY <2>1, <2>2, <2>3
<1>4. \A version, brief : Undermined(version, brief) \subseteq RunIds
  BY <1>2 DEF Undermined, RunsFor
<1> QED
  BY <1>1, <1>2, <1>3, <1>4

(* The steps that leave runs, proposals and questions alone keep their types.  *)
LEMMA StoreGrows ==
  ASSUME TypeOK, IntakeTypeOK', UNCHANGED <<runs, proposal, asked>>,
         excused' \in SUBSET RunIds,
         Len(briefs) <= Len(briefs'), Len(briefs') <= VersionBound
  PROVE  TypeOK'
<1>1. Len(briefs) \in Nat /\ Len(briefs') \in Nat
  BY DEF TypeOK, IntakeTypeOK
<1>2. proposal'.old <= Len(briefs')
  <2>1. proposal.old \in Nat
    BY VersionAssumption DEF TypeOK, NoProposal, Proposals
  <2> QED
    BY <1>1, <2>1 DEF TypeOK
<1>3. \A i \in DOMAIN runs' : runs'[i].version <= Len(briefs') /\ runs'[i].from < runs'[i].version
  <2>1. ASSUME NEW i \in DOMAIN runs
        PROVE  runs[i].version <= Len(briefs') /\ runs[i].from < runs[i].version
    <3>1. runs[i].version \in 1 .. Len(briefs) /\ runs[i].from < runs[i].version
      BY RunIdsOfStore DEF TypeOK
    <3> QED
      BY <1>1, <3>1
  <2> QED
    BY <2>1
<1>4. asked' # NotAsked => asked'.version <= Len(briefs')
  BY <1>1 DEF TypeOK, Questions
<1> QED
  BY <1>2, <1>3, <1>4 DEF TypeOK

(* The briefs of the runs that a save does not undermine stay as they are.     *)
LEMMA NotUndermined ==
  ASSUME TypeOK, NEW version \in 1 .. Len(briefs) + 1, NEW brief \in Briefs,
         NEW i \in DOMAIN runs \ Undermined(version, brief)
  PROVE  Saved(version, brief)[runs[i].version] = briefs[runs[i].version]
<1>1. briefs \in Seq(Briefs) /\ runs[i].version \in DOMAIN briefs
  BY RunIdsOfStore DEF TypeOK, IntakeTypeOK
<1>2. CASE runs[i].version = version
  <2>1. i \in RunsFor(version) /\ version \in DOMAIN briefs
    BY <1>1, <1>2 DEF RunsFor
  <2>2. briefs[version] = brief
    BY <2>1 DEF Undermined
  <2> QED
    BY <1>1, <1>2, <2>2, SavedBrief
<1>3. CASE runs[i].version # version
  <2>1. \A v \in DOMAIN briefs \ {version} : Saved(version, brief)[v] = briefs[v]
    BY <1>1, SavedBrief
  <2> QED
    BY <1>1, <1>3, <2>1
<1> QED
  BY <1>2, <1>3

(* A run made for a stored or remembered brief.                               *)
LEMMA NewRunType ==
  ASSUME NEW lens \in Lenses, NEW version \in 1 .. VersionBound, NEW brief \in Briefs,
         NEW texts \in SUBSET Texts
  PROVE  /\ NewRun(lens, version, brief, texts) \in Runs
         /\ [NewRun(lens, version, brief, texts) EXCEPT !.status = "pending"] \in Runs
BY VersionAssumption DEF NewRun, Runs

-----------------------------------------------------------------------------
LEMMA ConverseInv ==
  ASSUME IInv, Converse, UNCHANGED refinementVars
  PROVE  IInv'
<1>1. /\ IntakeTypeOK' /\ ScreensAgree' /\ UNCHANGED <<confirmed, rescreen, briefs>>
      /\ mode' = "none" => mode = "none"
  BY ConverseStep DEF IInv, TypeOK
<1>2. TypeOK'
  BY <1>1 DEF IInv, TypeOK, refinementVars
<1> QED
  BY <1>1, <1>2 DEF IInv, Begun, ProposalStands, ReuseIsSound, refinementVars

LEMMA DispatchInv ==
  ASSUME IInv, Dispatch, UNCHANGED refinementVars
  PROVE  IInv'
<1>1. /\ IntakeTypeOK' /\ ScreensAgree' /\ mode' # "none"
      /\ briefs = <<>> /\ Len(briefs') = 1 /\ confirmed' = 1
  BY DispatchStep DEF IInv, TypeOK
<1>2. TypeOK'
  <2>1. Len(briefs) = 0
    BY <1>1
  <2> QED
    BY <1>1, <2>1, StoreGrows, VersionAssumption DEF IInv, TypeOK, refinementVars
<1>3. DOMAIN runs = {}
  <2>1. Len(briefs) = 0
    BY <1>1
  <2>2. \A i \in DOMAIN runs : runs[i].version \in 1 .. Len(briefs)
    BY RunIdsOfStore DEF IInv
  <2> QED
    BY <2>1, <2>2
<1> QED
  BY <1>1, <1>2, <1>3 DEF IInv, Begun, ProposalStands, ReuseIsSound, refinementVars

LEMMA EditInv ==
  ASSUME IInv, NEW e \in Edits, EditBrief(e)
  PROVE  IInv'
<1> DEFINE brief == Revised(briefs[confirmed], e)
<1>1. /\ IntakeTypeOK' /\ ScreensAgree'
      /\ confirmed' = confirmed + 1 /\ confirmed # 0 /\ confirmed' \in 1 .. Len(briefs) + 1
      /\ briefs' = Saved(confirmed', brief) /\ brief \in Briefs
      /\ confirmed' <= VersionBound
  BY EditStep DEF IInv, TypeOK, EditBrief
<1>2. /\ excused' = excused \cup Undermined(confirmed', brief)
      /\ UNCHANGED <<runs, proposal, asked, mode>>
  BY <1>1 DEF EditBrief, EditConfirmedBrief, NextVersion
<1> HIDE DEF brief
<1>3. briefs \in Seq(Briefs) /\ Len(briefs) \in Nat /\ Len(briefs) <= VersionBound
  BY DEF IInv, TypeOK, IntakeTypeOK
<1>4. /\ Len(briefs') \in {Len(briefs), Len(briefs) + 1}
      /\ confirmed' \notin DOMAIN briefs => Len(briefs') = Len(briefs) + 1
      /\ confirmed' \in DOMAIN briefs => Len(briefs') = Len(briefs)
  BY <1>1, <1>3, SavedBrief
<1>5. Len(briefs) <= Len(briefs') /\ Len(briefs') <= VersionBound
  BY <1>1, <1>3, <1>4, VersionAssumption
<1>6. excused' \in SUBSET RunIds
  BY <1>2, RunIdsOfStore DEF IInv, TypeOK
<1>7. TypeOK'
  BY <1>1, <1>2, <1>5, <1>6, StoreGrows DEF IInv
<1>8. Begun' /\ ProposalStands'
  BY <1>1, <1>2 DEF IInv, Begun, ProposalStands, TypeOK, IntakeTypeOK
<1>9. ReuseIsSound'
  <2> SUFFICES ASSUME NEW i \in DOMAIN runs \ excused', NEW f \in CONTENT_FIELDS,
                      runs[i].basis[f] \in runs[i].texts
               PROVE  briefs'[runs[i].version][f] = runs[i].basis[f]
    BY <1>2 DEF ReuseIsSound
  <2>1. briefs'[runs[i].version] = briefs[runs[i].version]
    BY <1>1, <1>2, NotUndermined DEF IInv
  <2> QED
    BY <1>2, <2>1 DEF IInv, ReuseIsSound
<1> QED
  BY <1>1, <1>7, <1>8, <1>9 DEF IInv

(* A proposal spares only runs that refer to nothing it changes.               *)
LEMMA ProposeInv ==
  ASSUME IInv, NEW e \in Edits, Propose(e)
  PROVE  IInv'
<1> DEFINE old == Len(briefs)
           new == Revised(briefs[old], e)
<1>1. /\ old \in 1 .. VersionBound - 1
      /\ proposal' = [old |-> old, brief |-> new, runs |-> RunsFor(old),
                      rerun |-> {i \in RunsFor(old) : Triggering(runs[i], briefs[old], new) # {}}]
      /\ UNCHANGED <<runs, asked, excused, intakeVars>>
  BY DEF Propose
<1>2. briefs[old] \in Briefs /\ new \in Briefs
  BY <1>1, RevisedBrief DEF IInv, TypeOK, IntakeTypeOK
<1>3. RunsFor(old) \subseteq RunIds /\ RunsFor(old) \subseteq DOMAIN runs
  BY RunIdsOfStore DEF IInv, RunsFor
<1> HIDE DEF old, new
<1>4. proposal' \in Proposals
  <2>1. old \in 1 .. VersionBound
    BY <1>1, VersionAssumption
  <2> QED
    BY <1>1, <1>2, <1>3, <2>1 DEF Proposals
<1>5. proposal'.old <= Len(briefs')
  BY <1>1 DEF old, IInv, TypeOK, IntakeTypeOK, intakeVars
<1>6. TypeOK'
  <2>1. IntakeTypeOK'
    BY <1>1 DEF IInv, TypeOK, IntakeTypeOK, intakeVars
  <2> QED
    BY <1>1, <1>4, <1>5, <2>1 DEF IInv, TypeOK, intakeVars
<1>7. Begun'
  <2>1. proposal'.old \in 1 .. VersionBound - 1
    BY <1>1
  <2> QED
    BY <1>1, <1>3, <2>1 DEF IInv, Begun, intakeVars
<1>8. ProposalStands'
  <2> SUFFICES ASSUME NEW i \in RunsFor(old), i \notin proposal'.rerun, i \notin excused,
                      NEW f \in CONTENT_FIELDS, runs[i].basis[f] \in runs[i].texts
               PROVE  new[f] = runs[i].basis[f]
    BY <1>1, <1>3 DEF ProposalStands
  <2>1. i \in DOMAIN runs /\ runs[i].version = old
    BY DEF RunsFor
  <2>2. briefs[old][f] = runs[i].basis[f]
    BY <2>1 DEF IInv, ReuseIsSound
  <2>3. Triggering(runs[i], briefs[old], new) = {}
    BY <1>1
  <2>4. briefs[old][f] \in runs[i].texts => f \notin Diff(briefs[old], new)
    BY <2>3 DEF Triggering
  <2> QED
    BY <2>2, <2>4 DEF Diff
<1>9. ReuseIsSound' /\ ScreensAgree'
  BY <1>1 DEF IInv, ReuseIsSound, ScreensAgree, BuiltBrief, Given, intakeVars
<1> QED
  BY <1>6, <1>7, <1>8, <1>9 DEF IInv

(* A run is added at the end, under a version of the store.                    *)
LEMMA RunAdded ==
  ASSUME IInv, UNCHANGED <<intakeVars, proposal>>, NEW run \in Runs,
         Len(runs) < RunBound, runs' = Append(runs, run),
         run.version <= Len(briefs), run.from = 0,
         asked' = asked \/ asked' = NotAsked,
         excused' \in SUBSET RunIds, excused \subseteq excused',
         \/ Len(runs) + 1 \in excused'
         \/ \A f \in CONTENT_FIELDS :
              run.basis[f] \in run.texts => briefs[run.version][f] = run.basis[f]
  PROVE  IInv'
<1>1. /\ runs \in Seq(Runs) /\ Len(runs) \in Nat
      /\ runs' \in Seq(Runs) /\ Len(runs') = Len(runs) + 1
      /\ DOMAIN runs' = 1 .. Len(runs) + 1 /\ DOMAIN runs = 1 .. Len(runs)
      /\ \A i \in DOMAIN runs : runs'[i] = runs[i]
      /\ runs'[Len(runs) + 1] = run
  BY DEF IInv, TypeOK
<1>2. run.version \in Nat /\ run.version > 0
  BY VersionAssumption DEF Runs
<1>3. \A i \in DOMAIN runs' : i \in DOMAIN runs \/ i = Len(runs) + 1
  BY <1>1
<1>4. IntakeTypeOK'
  BY DEF IInv, TypeOK, IntakeTypeOK, intakeVars
<1>5. \A i \in DOMAIN runs' : runs'[i].version <= Len(briefs') /\ runs'[i].from < runs'[i].version
  BY <1>1, <1>2, <1>3 DEF IInv, TypeOK, intakeVars
<1>6. /\ asked' = NotAsked \/ asked' \in Questions
      /\ asked'.run <= Len(runs')
      /\ asked' # NotAsked => asked'.version <= Len(briefs')
  <2>1. asked' = NotAsked \/ (asked' = asked /\ asked \in Questions)
    BY DEF IInv, TypeOK
  <2>2. asked' = NotAsked => asked'.run <= Len(runs')
    BY <1>1 DEF NotAsked
  <2>3. asked \in Questions => asked.run \in Nat /\ asked.run <= Len(runs)
    BY RunAssumption DEF Questions, RunIds, IInv, TypeOK
  <2> QED
    BY <1>1, <2>1, <2>2, <2>3 DEF IInv, TypeOK, intakeVars
<1>7. TypeOK'
  BY <1>1, <1>4, <1>5, <1>6, RunAssumption DEF IInv, TypeOK, intakeVars
<1>8. ReuseIsSound'
  BY <1>1, <1>3 DEF IInv, ReuseIsSound, intakeVars
<1>9. ProposalStands'
  BY <1>1 DEF IInv, Begun, ProposalStands
<1>10. Begun' /\ ScreensAgree'
  BY <1>1 DEF IInv, Begun, ScreensAgree, BuiltBrief, Given, intakeVars
<1> QED
  BY <1>7, <1>8, <1>9, <1>10 DEF IInv
LEMMA SaveRunInv ==
  ASSUME IInv, NEW lens \in Lenses, NEW version \in DOMAIN briefs, SaveRun(lens, version)
  PROVE  IInv'
<1>1. PICK texts \in SUBSET Referable(briefs[version]) :
        runs' = Append(runs, NewRun(lens, version, briefs[version], texts))
  BY DEF SaveRun
<1> DEFINE run == NewRun(lens, version, briefs[version], texts)
<1>2. /\ version \in 1 .. Len(briefs) /\ version \in 1 .. VersionBound
      /\ briefs[version] \in Briefs
  BY VersionAssumption DEF IInv, TypeOK, IntakeTypeOK
<1>3. run \in Runs
  BY <1>2, NewRunType DEF Referable
<1>4. run.version = version /\ run.from = 0 /\ run.basis = briefs[version]
  BY DEF NewRun
<1> HIDE DEF run
<1>5. /\ Len(runs) < RunBound /\ UNCHANGED <<proposal, asked, excused, intakeVars>>
      /\ runs' = Append(runs, run)
  BY <1>1 DEF SaveRun, run
<1>6. excused' \in SUBSET RunIds
  BY <1>5 DEF IInv, TypeOK
<1> QED
  BY <1>2, <1>3, <1>4, <1>5, <1>6, RunAdded

LEMMA AnswerInv ==
  ASSUME IInv, Answer
  PROVE  IInv'
<1>1. PICK texts \in SUBSET Referable(asked.brief) :
        runs' = Append(runs, NewRun(runs[asked.run].lens, asked.version, asked.brief, texts))
  BY DEF Answer
<1> DEFINE run == NewRun(runs[asked.run].lens, asked.version, asked.brief, texts)
<1>2. asked \in Questions /\ asked.run \in DOMAIN runs
  BY DEF Answer, IInv, TypeOK, Questions, RunIds
<1>3. runs[asked.run].lens \in Lenses
  BY <1>2, RunIdsOfStore DEF IInv, Runs
<1>4. run \in Runs
  BY <1>2, <1>3, NewRunType DEF Referable, Questions
<1>5. run.version = asked.version /\ run.from = 0 /\ run.basis = asked.brief
  BY DEF NewRun
<1> HIDE DEF run
<1>6. /\ Len(runs) < RunBound /\ UNCHANGED <<proposal, intakeVars>> /\ asked' = NotAsked
      /\ runs' = Append(runs, run)
      /\ excused' = IF briefs[asked.version] = asked.brief THEN excused
                    ELSE excused \cup {Len(runs) + 1}
  BY <1>1 DEF Answer, run
<1>7. excused' \in SUBSET RunIds /\ excused \subseteq excused'
  <2>1. Len(runs) + 1 \in RunIds
    BY <1>6, RunAssumption DEF IInv, TypeOK, RunIds
  <2> QED
    BY <1>6, <2>1 DEF IInv, TypeOK
<1>8. run.version <= Len(briefs)
  BY <1>5 DEF IInv, TypeOK, Answer
<1> QED
  BY <1>4, <1>5, <1>6, <1>7, <1>8, RunAdded
LEMMA AskInv ==
  ASSUME IInv, NEW i \in DOMAIN runs, Ask(i)
  PROVE  IInv'
<1>1. /\ asked' = [run |-> i, version |-> runs[i].version, brief |-> briefs[runs[i].version]]
      /\ UNCHANGED <<runs, proposal, excused, intakeVars>>
  BY DEF Ask
<1>2. /\ i \in RunIds /\ runs[i].version \in 1 .. VersionBound
      /\ briefs[runs[i].version] \in Briefs /\ runs[i].version <= Len(briefs)
      /\ i <= Len(runs)
  BY RunIdsOfStore DEF IInv, Runs, TypeOK, IntakeTypeOK
<1>3. asked' \in Questions /\ asked'.run <= Len(runs') /\ asked'.version <= Len(briefs')
  BY <1>1, <1>2 DEF Questions, intakeVars
<1>4. IntakeTypeOK'
  BY <1>1 DEF IInv, TypeOK, IntakeTypeOK, intakeVars
<1>5. TypeOK'
  BY <1>1, <1>3, <1>4 DEF IInv, TypeOK, intakeVars
<1> QED
  BY <1>1, <1>5
     DEF IInv, Begun, ProposalStands, ReuseIsSound, ScreensAgree, BuiltBrief, Given, intakeVars

LEMMA DiscardInv ==
  ASSUME IInv, Discard
  PROVE  IInv'
<1>1. proposal' = NoProposal /\ UNCHANGED <<runs, asked, excused, intakeVars>>
  BY DEF Discard
<1>2. IntakeTypeOK'
  BY <1>1 DEF IInv, TypeOK, IntakeTypeOK, intakeVars
<1>3. proposal'.old <= Len(briefs')
  BY <1>1 DEF NoProposal, IInv, TypeOK, IntakeTypeOK, intakeVars
<1>4. TypeOK'
  BY <1>1, <1>2, <1>3 DEF IInv, TypeOK, intakeVars
<1>5. Begun' /\ ProposalStands'
  BY <1>1 DEF IInv, Begun, ProposalStands, NoProposal, intakeVars
<1> QED
  BY <1>1, <1>4, <1>5 DEF IInv, ReuseIsSound, ScreensAgree, BuiltBrief, Given, intakeVars

(* The runs after a proposal was applied: each is the run it was, or re-pointed*)
(* and then spared by the proposal or by the user, or a fresh one.            *)
LEMMA ApplyInv ==
  ASSUME IInv, NEW target \in SUBSET proposal.runs, Apply(target)
  PROVE  IInv'
<1> DEFINE version == NextVersion(proposal.old)
           fresh == Cardinality(target)
           brief == proposal.brief
<1>1. PICK again \in [1 .. fresh -> target] :
        runs' = [i \in 1 .. Len(runs) + fresh |->
                   IF i > Len(runs)
                   THEN Redispatched(runs[again[i - Len(runs)]], version, brief)
                   ELSE IF i \in proposal.runs \ target
                        THEN Repointed(runs[i], version, proposal.old)
                        ELSE runs[i]]
  BY DEF Apply
<1>2. /\ proposal # NoProposal /\ Len(runs) + fresh <= RunBound
      /\ briefs' = Saved(version, brief)
      /\ excused' = excused \cup (proposal.rerun \ target) \cup Undermined(version, brief)
      /\ strayed' = IF version = confirmed
                    THEN strayed \cup {f \in BriefFields : briefs[version][f] # brief[f]}
                    ELSE strayed
      /\ proposal' = NoProposal
      /\ UNCHANGED <<mode, values, turns, quiet, declined, confirmed, rescreen, asked>>
  BY DEF Apply
<1>3. /\ proposal \in Proposals /\ brief \in Briefs /\ proposal.old \in 1 .. VersionBound
      /\ proposal.runs \subseteq DOMAIN runs
  BY <1>2 DEF IInv, TypeOK, Begun, Proposals
<1>4. /\ version = proposal.old + 1 /\ version \in 1 .. VersionBound
      /\ version \in 1 .. Len(briefs) + 1 /\ Len(briefs) \in Nat
      /\ briefs \in Seq(Briefs) /\ Len(briefs) <= VersionBound
  <2>1. proposal.old \in 1 .. VersionBound - 1 /\ proposal.old <= Len(briefs)
    BY <1>2 DEF IInv, TypeOK, Begun
  <2> QED
    BY <2>1, VersionAssumption DEF NextVersion, IInv, TypeOK, IntakeTypeOK
<1>5. fresh \in Nat
  <2>1. IsFiniteSet(1 .. Len(runs)) /\ target \subseteq 1 .. Len(runs)
    BY <1>3, RunIdsOfStore, FS_Interval DEF IInv, TypeOK
  <2> QED
    BY <2>1, FS_Subset, FS_CardinalityType
<1> HIDE DEF version, fresh, brief
<1>6. /\ briefs' \in Seq(Briefs) /\ Len(briefs') \in {Len(briefs), Len(briefs) + 1}
      /\ version <= Len(briefs') /\ briefs'[version] = brief
      /\ version \in DOMAIN briefs => Len(briefs') = Len(briefs)
      /\ version \notin DOMAIN briefs => Len(briefs') = Len(briefs) + 1
      /\ \A v \in DOMAIN briefs \ {version} : briefs'[v] = briefs[v]
  BY <1>2, <1>3, <1>4, SavedBrief
<1>7. Len(briefs) <= Len(briefs') /\ Len(briefs') <= VersionBound
  BY <1>4, <1>6, VersionAssumption
<1>8. /\ Len(runs) \in Nat /\ DOMAIN runs = 1 .. Len(runs)
      /\ DOMAIN runs' = 1 .. Len(runs) + fresh /\ Len(runs) <= Len(runs) + fresh
      /\ \A i \in DOMAIN runs : i <= Len(runs)
  BY <1>1, <1>5 DEF IInv, TypeOK
\* The three kinds of run.
<1>9. ASSUME NEW i \in DOMAIN runs, i \in proposal.runs \ target
      PROVE  /\ runs'[i] \in Runs /\ runs'[i].version = version
             /\ runs'[i].basis = runs[i].basis /\ runs'[i].texts = runs[i].texts
             /\ runs'[i].from = proposal.old
  <2>1. runs'[i] = Repointed(runs[i], version, proposal.old) /\ runs[i] \in Runs
    BY <1>1, <1>5, <1>8, <1>9, RunIdsOfStore DEF IInv
  <2> QED
    <3>1. version \in 1 .. VersionBound /\ proposal.old \in 0 .. VersionBound
      BY <1>3, <1>4, VersionAssumption
    <3> QED
      BY <2>1, <3>1 DEF Repointed, Runs
<1>10. ASSUME NEW i \in DOMAIN runs, i \notin proposal.runs \ target
       PROVE  runs'[i] = runs[i]
  BY <1>1, <1>5, <1>8, <1>10
<1>11. ASSUME NEW i \in DOMAIN runs', i \notin DOMAIN runs
       PROVE  /\ runs'[i] \in Runs /\ runs'[i].version = version
              /\ runs'[i].texts = {} /\ runs'[i].from = 0
  <2>1. i > Len(runs) /\ i - Len(runs) \in 1 .. fresh
    BY <1>5, <1>8, <1>11
  <2>2. again[i - Len(runs)] \in DOMAIN runs
    BY <1>3, <2>1
  <2> DEFINE run == runs[again[i - Len(runs)]]
  <2>3. run.lens \in Lenses
    BY <2>2, RunIdsOfStore DEF IInv, Runs
  <2>4. runs'[i] = Redispatched(run, version, brief)
    BY <1>1, <1>8, <2>1
  <2> HIDE DEF run
  <2>5. Redispatched(run, version, brief) \in Runs
    BY <1>3, <1>4, <2>3, NewRunType DEF Redispatched
  <2> QED
    BY <2>4, <2>5 DEF Redispatched, NewRun
\* Types.
<1>12. runs' \in Seq(Runs) /\ Len(runs') = Len(runs) + fresh
  <2>1. \A i \in 1 .. Len(runs) + fresh : runs'[i] \in Runs
    BY <1>8, <1>9, <1>10, <1>11, RunIdsOfStore DEF IInv
  <2> QED
    BY <1>1, <1>5, <1>8, <2>1
<1>13. \A i \in DOMAIN runs' : runs'[i].version <= Len(briefs') /\ runs'[i].from < runs'[i].version
  <2> SUFFICES ASSUME NEW i \in DOMAIN runs'
               PROVE  runs'[i].version <= Len(briefs') /\ runs'[i].from < runs'[i].version
    OBVIOUS
  <2>1. CASE i \in DOMAIN runs /\ i \in proposal.runs \ target
    BY <1>4, <1>6, <1>9, <1>3, <2>1
  <2>2. CASE i \in DOMAIN runs /\ i \notin proposal.runs \ target
    <3>1. runs[i].version \in 1 .. Len(briefs) /\ runs[i].from < runs[i].version
      BY <2>2, RunIdsOfStore DEF IInv, TypeOK
    <3> QED
      BY <1>4, <1>7, <1>10, <2>2, <3>1, <1>6
  <2>3. CASE i \notin DOMAIN runs
    BY <1>4, <1>6, <1>11, <2>3
  <2> QED
    BY <2>1, <2>2, <2>3
<1>14. IntakeTypeOK'
  <2>1. confirmed' \in 0 .. Len(briefs')
    BY <1>2, <1>4, <1>6, <1>7 DEF IInv, TypeOK, IntakeTypeOK
  <2>2. strayed' \in SUBSET BriefFields
    BY <1>2 DEF IInv, TypeOK, IntakeTypeOK
  <2> QED
    BY <1>2, <1>6, <2>1, <2>2 DEF IInv, TypeOK, IntakeTypeOK
<1>15. excused' \in SUBSET RunIds
  BY <1>2, <1>3, RunIdsOfStore DEF IInv, TypeOK, Proposals
<1>16. /\ asked' = NotAsked \/ asked' \in Questions
       /\ asked'.run <= Len(runs')
       /\ asked' # NotAsked => asked'.version <= Len(briefs')
  <2>1. asked = NotAsked \/ asked \in Questions
    BY DEF IInv, TypeOK
  <2>2. asked.run \in Nat /\ asked.run <= Len(runs)
    BY <2>1, RunAssumption DEF NotAsked, Questions, RunIds, IInv, TypeOK
  <2>3. asked # NotAsked => asked.version \in Nat /\ asked.version <= Len(briefs)
    BY <2>1, VersionAssumption DEF Questions, IInv, TypeOK
  <2> QED
    BY <1>2, <1>4, <1>5, <1>6, <1>7, <1>8, <1>12, <2>1, <2>2, <2>3
<1>17. proposal'.old <= Len(briefs')
  BY <1>2, <1>4, <1>6 DEF NoProposal
<1>18. TypeOK'
  BY <1>2, <1>7, <1>12, <1>13, <1>14, <1>15, <1>16, <1>17 DEF TypeOK
\* Reuse and screens.
<1>19. ReuseIsSound'
  <2> SUFFICES ASSUME NEW i \in DOMAIN runs' \ excused', NEW f \in CONTENT_FIELDS,
                      runs'[i].basis[f] \in runs'[i].texts
               PROVE  briefs'[runs'[i].version][f] = runs'[i].basis[f]
    BY DEF ReuseIsSound
  <2>1. CASE i \in DOMAIN runs /\ i \in proposal.runs \ target
    <3>1. i \in proposal.runs \ (proposal.rerun \cup excused)
      BY <1>2, <2>1
    <3>2. brief[f] = runs[i].basis[f]
      BY <1>2, <1>9, <2>1, <3>1 DEF IInv, ProposalStands, brief
    <3> QED
      BY <1>6, <1>9, <2>1, <3>2
  <2>2. CASE i \in DOMAIN runs /\ i \notin proposal.runs \ target
    <3>1. briefs'[runs[i].version] = briefs[runs[i].version]
      BY <1>2, <1>3, <1>4, <2>2, NotUndermined DEF IInv
    <3> QED
      BY <1>2, <1>10, <2>2, <3>1 DEF IInv, ReuseIsSound
  <2>3. CASE i \notin DOMAIN runs
    BY <1>11, <2>3
  <2> QED
    BY <2>1, <2>2, <2>3
<1>20. ScreensAgree'
  <2> SUFFICES ASSUME confirmed # 0, NEW f \in BriefFields \ strayed'
               PROVE  BuiltBrief'[f] = briefs'[confirmed][f]
    BY <1>2 DEF ScreensAgree
  <2>1. BuiltBrief'[f] = briefs[confirmed][f]
    BY <1>2 DEF IInv, ScreensAgree, BuiltBrief, Given
  <2>2. confirmed \in DOMAIN briefs
    BY DEF IInv, TypeOK, IntakeTypeOK
  <2>3. CASE version = confirmed
    BY <1>2, <1>6, <2>1, <2>3
  <2>4. CASE version # confirmed
    BY <1>6, <2>1, <2>2, <2>4
  <2> QED
    BY <2>3, <2>4
<1>21. Begun' /\ ProposalStands'
  <2>1. confirmed # 0
    <3>1. confirmed = 0 => Len(briefs) = 0
      <4>1. confirmed = 0 => briefs = <<>>
        BY DEF IInv, Begun
      <4> QED
        BY <4>1
    <3>2. proposal.old <= Len(briefs) /\ proposal.old \in Nat /\ proposal.old > 0
      BY <1>3, VersionAssumption DEF IInv, TypeOK
    <3> QED
      BY <3>1, <3>2
  <2> QED
    BY <1>2, <2>1 DEF IInv, Begun, ProposalStands, NoProposal
<1> QED
  BY <1>18, <1>19, <1>20, <1>21 DEF IInv

-----------------------------------------------------------------------------
LEMMA NextInv == IInv /\ [Next]_vars => IInv'
<1> SUFFICES ASSUME IInv, [Next]_vars PROVE IInv'
  OBVIOUS
<1>1. CASE UNCHANGED vars
  BY <1>1 DEF vars, intakeVars, refinementVars, IInv, TypeOK, IntakeTypeOK, Begun,
       ProposalStands, ReuseIsSound, ScreensAgree, BuiltBrief, Given
<1>2. CASE Next
  BY <1>2, ConverseInv, DispatchInv, EditInv, ProposeInv, SaveRunInv, ApplyInv, DiscardInv,
     AskInv, AnswerInv DEF Next
<1> QED
  BY <1>1, <1>2

LEMMA Invariant == Spec => []IInv
BY InitInv, NextInv, PTL DEF Spec

(* Types: no run, proposal or challenge names a version that is not stored.    *)
THEOREM TypeCorrect == Spec => []TypeOK
<1>1. IInv => TypeOK
  BY DEF IInv
<1> QED
  BY <1>1, Invariant, PTL

(* However often a run is reused, what it refers to is where its lens read it  *)
(* (refinement.py:11-15, 311-349).                                            *)
THEOREM ReuseSound == Spec => []ReuseIsSound
<1>1. IInv => ReuseIsSound
  BY DEF IInv
<1> QED
  BY <1>1, Invariant, PTL

(* What the intake shows is so (intake.py:266-271, 294-318, 353-369).          *)
THEOREM ScreensHonest == Spec => []ScreensAreHonest
<1>1. IInv => ScreensAreHonest
  <2> SUFFICES ASSUME IInv PROVE ScreensAreHonest
    OBVIOUS
  <2>1. CanTerminate /\ confirmed = 0 => Dispatchable
    BY DEF CanTerminate, Dispatchable
  <2>2. NextPrompt = "screen1" /\ mode = "deep_dive" => AllRequiredPresent
    BY DEF NextPrompt, AllRequiredPresent
  <2>3. NextPrompt = "screen2" => confirmed # 0
    BY DEF NextPrompt, IInv, Begun
  <2> QED
    BY <2>1, <2>2, <2>3 DEF ScreensAreHonest, IInv, ScreensAgree
<1> QED
  BY <1>1, Invariant, PTL
=============================================================================
