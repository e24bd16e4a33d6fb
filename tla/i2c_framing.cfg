\* Complete and cut-short frames of every routed opcode class, reads after
\* the task has decoded the write.
CONSTANTS
    Opcodes = {17, 64, 67, 69, 72, 79, 80, 90, 16}
    MIDIStatuses = {144, 192, 242, 248}
    QueueCap = 16
    MaxTx = 3
    MaxReadLen = 3
    Truncate = TRUE
    WaitForDecode = TRUE
SPECIFICATION Spec
\* The controller stops after MaxTx transactions; the queue then drains.
CHECK_DEADLOCK FALSE
INVARIANT TypeOK
INVARIANT DispatchedAsFramed
INVARIANT ReadsAsResponded
