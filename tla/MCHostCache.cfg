SPECIFICATION Spec
CONSTANTS
    p1 = p1
    p2 = p2
    s1 = s1
    h1 = h1
    b1 = b1
    Unknown = Unknown
    Pages = {p1, p2}
    Slots = {s1}
    L2Blocks = {h1}
    PoolBlocks = {b1}
    NumLayers = 2
    EventSets <- OneEventSet
    MaxPlans <- PlansByTransport
    MaxPlanOps = 2
    MaxOps = 3
    BringsOvertake = FALSE
INVARIANTS TypeOK ProgramOrder NoTicketLost
PROPERTIES ImplementsCopyService
SYMMETRY PageSymmetry
