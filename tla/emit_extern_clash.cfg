SPECIFICATION Spec
CONSTANTS
    NoNode = NoNode
    Foreign = Foreign
    Node <- MCNode
    Token <- MCToken
    Type <- MCType
    Suffix = {"1", "2", "3", "4"}
    Hugrs <- ClashHugrs
    Modules <- FreshModule
INVARIANT SameExternSameFunction
