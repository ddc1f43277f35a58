SPECIFICATION Spec
CONSTANTS
    MaxRevoke = 3
    Disabled = {2}
    MaxAdverse = 5
INVARIANTS
    TypeOK
    DownWhileWriting
    ReceiptFinal
    DoneIsRecorded
CHECK_DEADLOCK FALSE
