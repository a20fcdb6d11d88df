CONSTANTS
    Files <- MCFiles
    BasePages <- MCBasePages
SPECIFICATION Spec
INVARIANT TypeOK
INVARIANT RelocatedAsFormatDefines
