SPECIFICATION Spec
CONSTANTS
  Lenses = {adversarial, prior_art, first_principles, architecture}
  Mandatory = {adversarial, prior_art}
  Panels = {{adversarial, prior_art, architecture, first_principles}}
  Failures = {"timeout"}
  DispatchBound = 2
INVARIANTS
  ReplayShowsTheSamePeers
