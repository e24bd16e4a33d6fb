\* A well-formed sender: running status, real-time bytes anywhere, both
\* sysex frames (the native one longer than the buffer).
CONSTANTS
    Bytes = {1, 127}
    Data = {1, 127}
    Statuses = {144, 193}
    RealTimeBytes = {248, 250}
    MaxMsgs = 3
    MaxRealTime = 2
    MaxSysex = 5
    ClockWrap = 384
SPECIFICATION WellFormedSpec
\* The sender stops after MaxMsgs messages: an idle bus, where the decoder
\* waits for its next byte for ever.
CHECK_DEADLOCK FALSE
INVARIANT TypeOK
INVARIANT DecodedAsSent
