CONSTANTS
    Argvs <- MCArgvs
    Json <- MCJson
    BadJson <- MCBadJson
    Paths <- MCPaths
    Layouts <- MCShortXiosLayouts
SPECIFICATION Spec
PROPERTIES
    ImplementsMemoryImage
