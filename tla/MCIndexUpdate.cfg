CONSTANTS
    Release = Release
    InRelease = InRelease
    DiffIndex = DiffIndex
    xz = xz
    gz = gz
    plain = plain
    Variants = {xz, gz, plain}
    Order <- MCOrder
    BySuffix <- MCBySuffix
    ByKind <- MCByKind
    Compressed = {xz, gz}
    Dir <- MCDir
    Base <- MCBase
    HashOf = xz
    Alternative <- MCAlternative
    Deprecated = {gz}
    Current = 1
    None = None
    Starts <- MCStarts
    Follow404 = TRUE
    MaxFaults = 1
    MaxClients = 1
SPECIFICATION Spec
CHECK_DEADLOCK FALSE
INVARIANTS
    GroupHeard
    CoverKept
