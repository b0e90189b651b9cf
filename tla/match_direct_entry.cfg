SPECIFICATION Spec
CONSTANTS
    Programs <- MCPrograms
INVARIANTS
    CasesRunAlone
