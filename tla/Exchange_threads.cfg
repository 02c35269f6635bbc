SPECIFICATION ThreadsSpec
CONSTANTS
    n1 = n1  n2 = n2  r0 = r0  r1 = r1  w0 = w0  x1 = x1
    Nbr <- TwoNbrs
    HigherNbr <- FirstNbr
    RouterKeys <- TwoRouters
    NetworkKeys <- OwnNet
    SummaryKeys = {}
    OtherKeys <- OneOther
    OwnRouter = r0
    OwnNetwork = w0
    LsId <- Distinct
    MaxHdr = 1
    SeqSpace = 2
    Options = {0}
    Packets <- SomeDDs
    Asks <- JustR1
    Updates <- MixedUpdates
    MaxInst = 1
    MaxRequest = 1
    MaxSummary = 2
CONSTRAINT OneNeighbor
INVARIANTS ThreadsTypeOK Covered
CHECK_DEADLOCK FALSE
