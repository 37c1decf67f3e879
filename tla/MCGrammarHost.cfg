SPECIFICATION FairSpec
CONSTANTS
    short = short
    long = long
    NoGrammar = NoGrammar
    Requests = {short, long}
    Ends <- GrammarEnds
    Width = 2
    MaxBs = 2
    Batches <- PlannedBatches
    Setups <- EngineSetups
INVARIANTS
    TypeOK
    MasksAreCurrent
    MatchersAdvanceOnce
    OutputEndsWithItsGrammar
    ForwardsFindTheirMatchers
    RetireNeverAllocates
PROPERTIES
    NodeFreesNothing
    EveryForwardCommits
