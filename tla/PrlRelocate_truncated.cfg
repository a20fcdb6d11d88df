CONSTANTS
    Files <- MCFilesTrunc
    BasePages <- MCBasePages
SPECIFICATION Spec
INVARIANT LoadRejectsMissingBitmap
