\* A 4-slot queue (three bytes fit, as a 3-byte message needs) and a 2-byte
\* transmit FIFO: nine bytes wrap the queue twice, fill it so that the
\* blocking calls spin (BlockingQueueMIDI3 with a partial write), and
\* (before the first HandleMIDIOut) wrap it from the -1 boot position.
CONSTANTS
    Size = 4
    TxDepth = 2
    MaxOut = 9
SPECIFICATION Spec
\* The handlers stop after MaxOut bytes and the queue then idles.
CHECK_DEADLOCK FALSE
INVARIANT TypeOK
INVARIANT OutIntegrity
PROPERTY EventuallySent
