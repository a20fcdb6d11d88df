CONSTANTS
    Disks <- MCDisks
SPECIFICATION Spec
INVARIANTS
    TypeOK
    OutputsInStep
