SPECIFICATION Spec
CONSTANTS
    IntMax = 1000
    MaxCycles = 8
    Impure <- MCImpure
    Envs <- MCEnvs
    Returns <- MCReturns
    Sources <- ConstantSums
INVARIANT
    NoUnexpectedOverflow
