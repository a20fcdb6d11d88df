CONSTANTS
    Configs <- MCGenSysConfigs
SPECIFICATION Spec
INVARIANT TypeOK
 
INVARIANT ForegroundListWellFormed
INVARIANT CompanionListWellFormed
INVARIANT StackPointerHandOff
INVARIANT CrossReferencesResolved
