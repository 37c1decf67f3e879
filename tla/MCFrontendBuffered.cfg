SPECIFICATION Spec
CONSTANTS
    stream = stream
    group = group
    rl = rl
    Tasks <- AllTasks
    Clients <- TwoClients
    Trainer = rl
    Mixes <- AllMixes
    Streams <- OnlyStream
    PauseModes = {"wait", "abort", "keep"}
    PausesFail = FALSE
    MaxPauses = 1
    MaxVersion = 1
    Overtakes = FALSE
CHECK_DEADLOCK FALSE
INVARIANT
    BufferedHoldsNoReader
