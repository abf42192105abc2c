CONSTANTS
    file1 = file1
    file2 = file2
    NoFile = NoFile
    Files = {file1, file2}
    MaxSize = 2
    MaxRequests = 2
    MaxData = 12
    Starts <- MCStarts
SPECIFICATION Spec
CHECK_DEADLOCK FALSE
INVARIANTS
    Framed
    Accounted
PROPERTIES
    Served
