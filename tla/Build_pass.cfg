CONSTANTS
    Targets <- MCTargets
    Kind <- MCKind
    Layouts <- MCLayouts
    MainArgs <- MCMainArgs
    LinkLens = {23, 25}
    DriLen = 45
    PartLens = {8}
    Org = 2
    LdrAt = 26
    LdrSize = 21
    MaxMains = 2
    MaxFaults = 2
    Invocations <- MCInvocations
    CliFiles <- MCCliFiles
SPECIFICATION Spec
INVARIANT TypeOK
INVARIANT OutputIsOverlay
INVARIANT BuildStatusHonest
