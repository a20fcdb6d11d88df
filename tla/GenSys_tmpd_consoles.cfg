CONSTANTS
    Configs <- MCManyConsoleConfigs
SPECIFICATION Spec
INVARIANT LayoutDisjoint
