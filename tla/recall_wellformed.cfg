\* A select-bus sender using the recall vocabulary, running status and the
\* native sysex frame (longer than the buffer); no real-time bytes.
CONSTANTS
    RecallBytes = {16}
    RecallMaxSysex = 5
    Data = {16, 70, 127}
    Statuses = {176, 177, 192, 244}
    MaxMsgs = 3
SPECIFICATION SelectSpec
\* The sender stops after MaxMsgs messages: an idle bus, where the decoder
\* waits for its next byte for ever.
CHECK_DEADLOCK FALSE
INVARIANT RecallTypeOK
INVARIANT RecalledAsSent
