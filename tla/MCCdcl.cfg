SPECIFICATION Spec
CONSTANTS
    Vars <- MCVars
    InputClauses <- MCInputClauses
    AssumptionLists <- MCAssumptionLists
INVARIANTS
    IInv
    UnsatIsProof
    SatIsModel
    LearntsImplied
    ProbeRight
    CoreRight
