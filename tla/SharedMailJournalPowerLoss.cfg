SPECIFICATION Spec
CONSTANTS
    Records = {emailFile, waitFile, matchFile}
    Contents = {absent, v1, v2}
    Absent = absent
    MaxWrites = 2
    MaxUnsynced = 2
    None = none

PROPERTIES ImplementsAtomicStore
