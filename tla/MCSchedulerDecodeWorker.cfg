SPECIFICATION FairSpec
CONSTANTS
  Requests = {1, 2, 3}
  Pages = {1, 2, 3, 4, 5, 6}
  Rows = {1, 2}
  Slots = {1}
  SnapshotPages = 3
  None = None
  Role = "D"
  Mixed = FALSE
  HasHostPool = FALSE
  OverlapDepth = 1
  MaxScheduledTokens = 2
  SafeSteps = 1
  MaxRestoreAttempts = 4
  WindowAt = {}
  WindowLookback = 0
  PromptSizes = {2}
  Budgets = {4}
  MaxGenerated = 2
  AbortStates = {"Bootstrapping", "Submitted", "Prefilling", "RemotePrefilling", "PrefillAwaitingResult", "PrefillDone", "Decoding", "Retracted", "Restoring", "Finishing"}
  NaNs = TRUE
  Pick <- MCPick
PROPERTIES
  EveryRequestEnds
