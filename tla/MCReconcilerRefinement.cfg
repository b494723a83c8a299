CONSTANTS
    u1 = u1
    gna = gna
    f1 = f1
    b1 = b1
    b2 = b2
    d1 = d1
    None = None
    Unit <- MCUnit
    GNA <- gna
    File <- MCFile
    Body <- MCBody
    Data <- MCData
    MaxPublishes = 2
    MaxCrashes = 1
    MaxFailures = 1
    RemoveAgentUnit = TRUE

SPECIFICATION Spec
PROPERTY AbstractSpec
\* The agent that stopped itself stays stopped.
CHECK_DEADLOCK FALSE
