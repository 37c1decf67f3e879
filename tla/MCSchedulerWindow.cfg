SPECIFICATION FairSpec
CONSTANTS
  Requests = {1, 2, 3}
  Pages = {1, 2, 3, 4, 5, 6, 7, 8, 9, 10}
  Rows = {1, 2}
  Slots = {1}
  SnapshotPages = 3
  None = None
  Role = "Fused"
  Mixed = FALSE
  HasHostPool = FALSE
  OverlapDepth = 1
  MaxScheduledTokens = 2
  SafeSteps = 3
  MaxRestoreAttempts = 4
  WindowAt = {1, 3, 5}
  WindowLookback = 4
  PromptSizes = {1, 3}
  Budgets = {2, 3}
  MaxGenerated = 2
  AbortStates = {}
  NaNs = FALSE
  Pick <- MCPick
INVARIANTS
  ForwardsKeepTheirPages
PROPERTIES
  EveryRequestEnds
