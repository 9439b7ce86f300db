-------------------------------- MODULE Intake --------------------------------
(***************************************************************************)
(* The intake conversation (domain/intake.py, IntakeOrchestrator) and the   *)
(* versions of the brief it writes (domain/brief_ops.py, the briefs table   *)
(* of the store).  The orchestrator keeps the fields as the user gave them, *)
(* apart from the stored briefs: dispatch() turns them into version 1, and  *)
(* edit_confirmed_brief() revises the version it believes to be current.    *)
(*                                                                          *)
(* A field's content is a text or empty; None, "" and () are all empty.  The *)
(* mode is a field of the brief too, but not one of the conversation's:      *)
(* edit_confirmed_brief() can change it in the store alone.                  *)
(* turn_count and last_change_turn are only ever compared with              *)
(* DRAFT_AFTER_TURN and STABILITY_TURNS_REQUIRED and are kept up to there.  *)
(* The panel proposal and the verification counts that Screen 2 repeats are *)
(* left out, and so are the wordings of prompts and declines.               *)
(***************************************************************************)
EXTENDS Integers, Sequences

CONSTANTS
  Texts,        \* contents a field can have
  Offered,      \* Offered[f]: the answers the user may give for field f
  Edits,        \* edits of a confirmed brief: functions from its fields
  VersionBound  \* bound: versions of the brief

Empty == "empty"    \* present, but falsy
Unset == "unset"    \* not a key of _values

INTAKE_FIELD_ORDER ==
  << "problem_statement", "proposed_solution", "researcher_context",
     "background_claims", "success_criteria_for_deliberation",
     "scope_and_non_scope", "panel_constraints", "prior_panel_consultations" >>
Fields == {INTAKE_FIELD_ORDER[k] : k \in 1 .. 8}
NEVER_DRAFT == {"success_criteria_for_deliberation"}
DRAFT_AFTER_TURN == 3
STABILITY_TURNS_REQUIRED == 2

Contents == Texts \cup {Empty}
Modes == {"exploratory", "deep_dive"}
BriefFields == Fields \cup {"mode"}
Allowed(f) == IF f = "mode" THEN Modes ELSE Contents
Briefs == {b \in [BriefFields -> Contents \cup Modes] : \A f \in BriefFields : b[f] \in Allowed(f)}

ASSUME TextsAssumption == {Empty, Unset} \cap Texts = {}
ASSUME OfferedAssumption == Offered \in [Fields -> SUBSET Contents]
ASSUME EditsAssumption ==
  \A e \in Edits : DOMAIN e \subseteq BriefFields /\ \A f \in DOMAIN e : e[f] \in Allowed(f)
ASSUME VersionAssumption == VersionBound \in Nat \ {0}

VARIABLES
  mode,       \* _mode, or "none"
  values,     \* _values
  turns,      \* _turn_count, up to DRAFT_AFTER_TURN
  quiet,      \* turns since _last_change_turn, up to STABILITY_TURNS_REQUIRED
  declined,   \* category of _decline, or "none"
  confirmed,  \* _confirmed_version, or 0
  rescreen,   \* _needs_rescreen2
  briefs,     \* store: the content of each version of the brief
  strayed     \* history: fields changed in _values or in the store alone

intakeVars == <<mode, values, turns, quiet, declined, confirmed, rescreen, briefs, strayed>>

IntakeInit ==
  /\ mode = "none"
  /\ values = [f \in Fields |-> Unset]
  /\ turns = 0
  /\ quiet = 0
  /\ declined = "none"
  /\ confirmed = 0
  /\ rescreen = FALSE
  /\ briefs = <<>>
  /\ strayed = {}

-----------------------------------------------------------------------------
Given == {f \in Fields : values[f] # Unset}
Filled == {f \in Fields : values[f] \in Texts}

\* _next_field_in_order: the first field that has not been submitted.
IsNext(f) ==
  \E k \in 1 .. 8 :
    /\ f = INTAKE_FIELD_ORDER[k]
    /\ f \notin Given
    /\ \A j \in 1 .. k - 1 : INTAKE_FIELD_ORDER[j] \in Given

AllRequiredPresent ==
  \/ mode = "deep_dive" /\ Given = Fields
  \/ /\ mode = "exploratory"
     /\ "problem_statement" \in Given
     /\ {"proposed_solution", "researcher_context"} \cap Filled # {}
     /\ {"success_criteria_for_deliberation", "scope_and_non_scope"} \subseteq Filled

IsStable == quiet = STABILITY_TURNS_REQUIRED

CanTerminate == declined = "none" /\ AllRequiredPresent /\ IsStable

ShouldDraft(f) == f \notin NEVER_DRAFT /\ turns = DRAFT_AFTER_TURN

\* next_prompt: what the user is shown.
NextPrompt ==
  CASE declined # "none" -> "decline"
    [] declined = "none" /\ mode = "none" -> "ask_mode"
    [] declined = "none" /\ mode # "none" /\ rescreen -> "screen2"
    [] declined = "none" /\ mode # "none" /\ ~ rescreen /\ Given = Fields -> "screen1"
    [] OTHER -> IF \E f \in Fields : IsNext(f) /\ ShouldDraft(f) THEN "draft" ELSE "ask_open"

\* _build_brief: a field that was never submitted is empty in the brief.
BuiltBrief ==
  [f \in BriefFields |-> IF f = "mode" THEN mode ELSE IF f \in Given THEN values[f] ELSE Empty]

\* revise_brief numbers the revision after the brief it was made from ...
NextVersion(version) == version + 1

\* ... and changes the edited fields only.
Revised(brief, e) == [f \in BriefFields |-> IF f \in DOMAIN e THEN e[f] ELSE brief[f]]

\* save_brief: INSERT OR REPLACE under (session, version).
Saved(version, brief) ==
  IF version \in DOMAIN briefs THEN [briefs EXCEPT ![version] = brief]
  ELSE Append(briefs, brief)

-----------------------------------------------------------------------------
Tick(n, bound) == IF n < bound THEN n + 1 ELSE bound

DeclareMode(m) ==
  /\ mode = "none"
  /\ mode' = m
  /\ UNCHANGED <<values, turns, quiet, declined, confirmed, rescreen, briefs, strayed>>

\* _record_change.  Nothing here looks at a confirmed version.
RecordChange(f, content) ==
  /\ values' = [values EXCEPT ![f] = content]
  /\ turns' = Tick(turns, DRAFT_AFTER_TURN)
  /\ quiet' = 0
  /\ strayed' = IF confirmed = 0 \/ values[f] = content THEN strayed ELSE strayed \cup {f}
  /\ UNCHANGED <<mode, declined, confirmed, rescreen, briefs>>

SubmitField(f) ==
  /\ mode # "none"
  /\ IsNext(f)
  /\ \E content \in Offered[f] : RecordChange(f, content)

EditField(f) ==
  /\ mode # "none"
  /\ f \in Given
  /\ \E content \in Offered[f] : RecordChange(f, content)

IdleTurn ==
  /\ mode # "none"
  /\ turns' = Tick(turns, DRAFT_AFTER_TURN)
  /\ quiet' = IF Given = {} THEN 0 ELSE Tick(quiet, STABILITY_TURNS_REQUIRED)
  /\ UNCHANGED <<mode, values, declined, confirmed, rescreen, briefs, strayed>>

\* decline, by the master's judgement; a later one replaces an earlier one.
Decline ==
  /\ declined' \in {"not_a_research_question", "insufficient_specificity"}
  /\ UNCHANGED <<mode, values, turns, quiet, confirmed, rescreen, briefs, strayed>>

\* record_verification_summary with more than three claims unverified and none
\* verified; with any other counts it only stores them.
AllClaimsFailed ==
  /\ declined' = "all_claims_failed_verification"
  /\ UNCHANGED <<mode, values, turns, quiet, confirmed, rescreen, briefs, strayed>>

Dispatchable == declined = "none" /\ confirmed = 0 /\ AllRequiredPresent

\* dispatch: confirms and stores version 1.
Dispatch ==
  /\ Dispatchable
  /\ briefs' = Saved(1, BuiltBrief)
  /\ confirmed' = 1
  /\ rescreen' = FALSE
  /\ UNCHANGED <<mode, values, turns, quiet, declined, strayed>>

\* Mutant: the orchestrator's own fields are not brought up to date.
EditConfirmedOnly(e) ==
  LET version == NextVersion(confirmed)
  IN /\ confirmed # 0
     /\ version <= VersionBound
     /\ briefs' = Saved(version, Revised(briefs[confirmed], e))
     /\ confirmed' = version
     /\ rescreen' = TRUE
     /\ UNCHANGED <<mode, values, turns, quiet, declined, strayed>>

\* edit_confirmed_brief: revises the version this orchestrator confirmed last,
\* also if the store has a later one by now, and after a decline as before it.
\* Its own fields follow the edit; its mode does not.
EditConfirmedBrief(e) ==
  LET version == NextVersion(confirmed)
  IN /\ confirmed # 0
     /\ version <= VersionBound
     /\ briefs' = Saved(version, Revised(briefs[confirmed], e))
     /\ values' = [f \in Fields |-> IF f \in DOMAIN e THEN e[f] ELSE values[f]]
     /\ confirmed' = version
     /\ rescreen' = TRUE
     /\ strayed' = (strayed \ DOMAIN e) \cup {f \in DOMAIN e \ Fields : e[f] # mode}
     /\ UNCHANGED <<mode, turns, quiet, declined>>

\* The steps of the conversation that leave the stored briefs alone.
Converse ==
  \/ \E m \in Modes : DeclareMode(m)
  \/ \E f \in Fields : SubmitField(f) \/ EditField(f)
  \/ IdleTurn
  \/ Decline
  \/ AllClaimsFailed

-----------------------------------------------------------------------------
IntakeTypeOK ==
  /\ mode \in Modes \cup {"none"}
  /\ values \in [Fields -> Contents \cup {Unset}]
  /\ turns \in 0 .. DRAFT_AFTER_TURN
  /\ quiet \in 0 .. STABILITY_TURNS_REQUIRED
  /\ declined \in {"none", "not_a_research_question", "insufficient_specificity",
                   "all_claims_failed_verification"}
  /\ briefs \in Seq(Briefs)
  /\ confirmed \in 0 .. Len(briefs)
  /\ rescreen \in BOOLEAN
  /\ strayed \in SUBSET BriefFields

(* What the intake tells the user is so (intake.py:266-271, 294-318 and       *)
(* 353-369): a brief it calls ready can be dispatched; a deep dive that has   *)
(* come to Screen 1 lacks no required field; and the fields and the mode it   *)
(* shows on the screens after a confirmation are those of the version it      *)
(* confirmed, but for what was changed on one side alone: by edit_field or    *)
(* submit_field behind the confirmation, by an edit of the confirmed brief's  *)
(* mode, or by a refinement that replaced the stored version.                *)
ScreensAreHonest ==
  /\ CanTerminate /\ confirmed = 0 => Dispatchable
  /\ NextPrompt = "screen1" /\ mode = "deep_dive" => AllRequiredPresent
  /\ NextPrompt = "screen2" => confirmed # 0
  /\ confirmed # 0 => \A f \in BriefFields \ strayed : BuiltBrief[f] = briefs[confirmed][f]
=============================================================================
