SPECIFICATION Spec
CONSTANT
    Loops <- MCLoops
PROPERTY
    ImplementsForLoop
INVARIANTS
    StackBalanced
