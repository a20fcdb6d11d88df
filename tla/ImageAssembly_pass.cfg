CONSTANTS
    Argvs <- MCArgvs
    Json <- MCJson
    BadJson <- MCBadJson
    Paths <- MCPaths
    Layouts <- MCLayouts
SPECIFICATION Spec
INVARIANTS
    TypeOK
    ModulesIntactInImage
    ExitStatusHonest
PROPERTIES
    ImplementsMemoryImage
