SPECIFICATION Spec
CONSTANTS
  Requests = {1, 2, 3}
  Pages = {1, 2, 3, 4, 5}
  Rows = {1, 2, 3}
  Slots = {1, 2}
  SnapshotPages = 2
  None = None
  Role = "Fused"
  Mixed = TRUE
  HasHostPool = TRUE
  OverlapDepth = 1
  MaxScheduledTokens = 2
  SafeSteps = 1
  MaxRestoreAttempts = 4
  WindowAt = {}
  WindowLookback = 0
  PromptSizes = {1, 2}
  Budgets = {3}
  MaxGenerated = 2
  AbortStates = {"Prefilling", "PrefillDone", "Retracted", "Restoring"}
  NaNs = TRUE
  Pick <- MCPick
INVARIANTS
  TypeOK
  ResultsInFlightExact
  RowsOwnedOnce
  NoFailure
  CoveredRunsOnItsReserve
  PagesOwnedOnce
  SlotsOwnedOnce
  SnapshotPoolBalanced
  RestoresLandedImages
