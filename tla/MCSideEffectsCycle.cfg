SPECIFICATION Spec
CONSTANTS
    f1 = f1
    f2 = f2
    f3 = f3
    putc = putc
    NoFun = NoFun
    Fun <- MCFun
    Extern <- MCExtern
    Bodies <- AllGraphs
INVARIANT
    NoMeansNone
