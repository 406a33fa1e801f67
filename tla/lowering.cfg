SPECIFICATION FairRunSpec
CONSTANTS
    Hugrs <- MCHugrs
    Arguments <- MCArguments
    Meaning <- MCMeaning
INVARIANTS
    TypeOK
    NothingAfterATerminator
    BlocksAreClosed
    VerifiesAsLlvm
    ScopedFuncsHandedOn
    ComputesTheHugr
    NothingUndefinedIsUsed
PROPERTY
    CallReturns
