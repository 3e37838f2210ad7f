SPECIFICATION Spec
CONSTANT
    Loops <- CountedLoops
PROPERTY
    ImplementsForLoop
