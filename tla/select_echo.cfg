\* Up to three passthrough messages of 1 to 3 bytes (note on, program
\* change, timing clock; sysex sends nothing) against five bytes from other
\* modules, on a 4-slot selectRxQueue with a 3-deep transmit FIFO.  Five
\* foreign bytes fill the queue both before the first pop (the boot wrap)
\* and after it, with the interrupt arriving between FlushMIDIRx's index
\* store and its slot load while the queue is full.
CONSTANTS
    Size = 4
    MaxRx = 14
    Statuses = {144, 192, 240, 248}
    MaxMsgs = 3
    MaxOther = 5
    TxDepth = 3
SPECIFICATION SelectSpec
INVARIANT SelectTypeOK
INVARIANT PopIntegrity
INVARIANT NoEchoAccepted
