SPECIFICATION Spec
CONSTANTS
  Requests = {1, 2, 3}
  Pages = {1, 2, 3, 4, 5}
  Rows = {1, 2}
  Slots = {1}
  SnapshotPages = 3
  None = None
  Role = "Fused"
  Mixed = FALSE
  HasHostPool = FALSE
  OverlapDepth = 1
  MaxScheduledTokens = 2
  SafeSteps = 1
  MaxRestoreAttempts = 4
  WindowAt = {}
  WindowLookback = 0
  PromptSizes = {1, 3}
  Budgets = {0, 2}
  MaxGenerated = 2
  AbortStates = {}
  NaNs = FALSE
  Pick <- MCPick
INVARIANTS
  NeverStalled
