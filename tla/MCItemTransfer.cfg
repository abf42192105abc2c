CONSTANTS
    Readers = {r1, r2}
    Items = {i1}
    Inodes = {n1, n2}
    NoItem = NoItem
    NoInode = NoInode
    Lengths <- Short
    Interrupts = TRUE
SYMMETRY Symmetry
SPECIFICATION Spec
CHECK_DEADLOCK FALSE
INVARIANTS
    OneWriter
    WaitingHasDownloader
    AnnouncedLengthStays
    DiskSound
    CheckedIsReadable
    DeliveredWhole
PROPERTY
    SizeCheckedGrows
