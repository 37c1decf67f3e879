SPECIFICATION FairSpec
CONSTANTS
  Requests = {1, 2}
  Pages = {1, 2, 3, 4}
  Rows = {1, 2}
  Slots = {1}
  SnapshotPages = 3
  None = None
  Role = "P"
  Mixed = FALSE
  HasHostPool = TRUE
  OverlapDepth = 1
  MaxScheduledTokens = 2
  SafeSteps = 1
  MaxRestoreAttempts = 4
  WindowAt = {}
  WindowLookback = 0
  PromptSizes = {1, 3}
  Budgets = {1}
  MaxGenerated = 2
  AbortStates = {}
  NaNs = TRUE
  Pick <- MCPick
INVARIANTS
  HandOffHasItsToken
PROPERTIES
  EveryRequestEnds
