CONSTANTS
    Configs <- MCXiosShapeConfigs
SPECIFICATION Spec
INVARIANT CrossReferencesResolved
