----------------------------- MODULE RefinementMC -----------------------------
(* Instance: what the user of the intake may answer, and edit later.          *)
EXTENDS Refinement, TLC

MCOffered ==
  [f \in Fields |->
     CASE f \in {"problem_statement", "scope_and_non_scope"} -> {"a"}
       [] f = "proposed_solution" -> {"b"}
       [] f \in {"success_criteria_for_deliberation", "panel_constraints"} -> {"a", Empty}
       [] OTHER -> {Empty}]

MCEdits ==
  { "problem_statement" :> "b",
    ("problem_statement" :> "a") @@ ("proposed_solution" :> Empty) @@ ("mode" :> "exploratory") }

\* Bounds: once there is more than a first brief, the conversation has come to
\* rest in one state; three runs over two versions, or two runs over three.
AtRest ==
  runs # <<>> \/ Len(briefs) > 1 =>
    /\ mode = "deep_dive"
    /\ declined = "none"
    /\ quiet = STABILITY_TURNS_REQUIRED
    /\ values["success_criteria_for_deliberation"] = "a"
    /\ values["panel_constraints"] = Empty
    /\ {"success_criteria_for_deliberation", "panel_constraints"} \cap strayed = {}
FewAtOnce == Len(runs) + Len(briefs) <= 5
=============================================================================
