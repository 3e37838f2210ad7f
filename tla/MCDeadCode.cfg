SPECIFICATION Spec
CONSTANTS
    MaxCycles = 6
    Var <- MCVar
    Oracles <- MCOracles
    Sources <- MCPrograms
INVARIANTS
    EffectsKept
    AssertsHold
    NothingUnread
    Settles
