SPECIFICATION Spec
CONSTANTS
  Lenses = {adversarial, prior_art, first_principles, architecture}
  Mandatory = {adversarial, prior_art}
  Panels = {{adversarial, architecture, first_principles}}
  Failures = {"timeout"}
  DispatchBound = 3
INVARIANTS
  TypeOK
  HaltedIsNotCrossed
  Round2RestsOnRound1
  OptInsOnly
  PeersAreOneRound
