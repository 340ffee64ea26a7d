SPECIFICATION Spec
CONSTANTS
  Runs <- FailingFinally
  Tiers = {"browser", "server"}
  Start = "browser"
  MaxChoices = 5
INVARIANT FinallyOnce
