CONSTANTS
    Key <- MCKey
    Handler <- MCHandler
    Extensions <- MCExtensions
    HugrTypes <- MCHugrTypes
    Depth <- MCDepth
    Requests <- MCRequests
    MaxAdded = 3
SPECIFICATION Spec
INVARIANTS
    TypeOK
    LastRegistrationWins
    ConstantsAreTyped
    OpsAreTyped
    EquippedLowers
