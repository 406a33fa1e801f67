SPECIFICATION FairSpec
CONSTANTS
    NoNode = NoNode
    Foreign = Foreign
    Node <- MCNode
    Token <- MCToken
    Type <- MCType
    Suffix = {"1", "2", "3", "4"}
    Hugrs <- MCHugrs
    Modules <- MCModules
INVARIANTS
    TypeOK
    CallsReachTheirTarget
    NoSpuriousFailure
    OutputDetermined
    WholeModuleLinked
PROPERTIES
    SymbolsAreStable
    KeepsContract
    CallsReturn
