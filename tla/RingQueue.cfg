SPECIFICATION Spec
CONSTANTS
    OUTPUT_BUF_SIZE = 4
    Byte = {0, 1, 2}
    Zero = 0
    Logs <- MCLogs
    Sizes = {0, 1, 3}
INVARIANTS
    TypeOK
PROPERTIES
    ImplementsByteQueue
