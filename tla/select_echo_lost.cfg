\* The lost decrement: a passthrough message whose recallIgnoreBytes +=
\* numBytes is preempted by the echo of the previous one.
CONSTANTS
    Size = 4
    MaxRx = 11
    Statuses = {144, 192, 240, 248}
    MaxMsgs = 3
    MaxOther = 2
    TxDepth = 3
SPECIFICATION SelectSpec
INVARIANT NoOtherIgnored
