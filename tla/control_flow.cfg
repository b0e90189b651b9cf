SPECIFICATION Spec
CONSTANTS
    Programs <- MCPrograms
INVARIANTS
    TypeOK
    FollowsProgram
    ReadsFresh
    RefusesExactly
    NothingLeftBehind
    RegistersReturned
