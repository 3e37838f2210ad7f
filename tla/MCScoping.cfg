SPECIFICATION FairSpec
CONSTANTS
    r = r
    f = f
    g = g
    a = a
    b = b
    for0 = for0
    Root = r
    Scope <- MCScope
    Name <- MCName
    ForName <- MCForName
    Programs <- MCPrograms
INVARIANTS
    TypeOK
    NamesQualified
    FinalNamesResolve
    ErrorsExact
PROPERTIES
    EntriesStable
    ImplementsLexicalScope
