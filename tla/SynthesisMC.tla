----------------------------- MODULE SynthesisMC ------------------------------
(* Instance: five kinds of finding.  DIFFERENT is left out of the judgements,   *)
(* since the code never tells it from UNCERTAIN.                              *)
EXTENDS Synthesis

Kind(type, confidence, verification, text) ==
  [type |-> type, confidence |-> confidence, verification |-> verification, text |-> text]

MCKinds ==
  { Kind("failure_mode", "supporting", "contradicted", "claim"),
    Kind("mechanism_hypothesis", "load_bearing", "verified", "claim"),
    Kind("gap", "exploratory", "verified", "claim"),
    Kind("gap", "load_bearing", "verified", "claim"),
    Kind("gap", "supporting", "verified", "degenerate") }

\* Bound: a sibling-impact flag, which only adds an item, is combined with at
\* most three claims.
FlaggedClaims == flags > 0 => Valid # Findings
=============================================================================
