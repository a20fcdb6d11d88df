CONSTANTS
    Disks <- MCFormatDisks
SPECIFICATION Spec
INVARIANTS
    PlacedAsFormatDefines
