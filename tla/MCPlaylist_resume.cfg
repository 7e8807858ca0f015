SPECIFICATION Spec
CONSTANTS
    Last = 2
    Length = 1
    MaxActs = 2
    MaxOps = 2
    Books <- MCBooks
PROPERTIES
    ClearingKeepsPosition
CHECK_DEADLOCK FALSE
