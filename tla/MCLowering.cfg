SPECIFICATION Spec
CONSTANTS
  Runs <- AllRuns
  Tiers = {"browser", "server"}
  Start = "browser"
  MaxChoices = 5
INVARIANTS TypeOK Faithful
