CONSTANTS
    Imds <- MCImds
SPECIFICATION Spec
INVARIANT TypeOK
INVARIANT CHSLayout
