SPECIFICATION Spec
CONSTANTS
    Last = 2
    Length = 1
    MaxActs = 2
    MaxOps = 2
    Books <- MCBooks
INVARIANTS
    PageSound ChangesOver ListSettles
PROPERTIES
     NobodyInterrupted
CHECK_DEADLOCK FALSE
