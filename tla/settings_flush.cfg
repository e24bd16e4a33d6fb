\* Three algorithm_UI calls (so an edit can land in each of the two flash
\* waits and after them) and one power loss, from each of the first-boot
\* rows.  Encoders: still, or one detent each way; pots: at the top,
\* which a SPLIT call gives to processor 1's encoder parameters.
CONSTANTS
    InitFlash <- MCInitFlash
    MaxEdits = 3
    MaxRestarts = 1
    EncInputs <- MCEncInputs
    ZInputs <- MCZInputs
SPECIFICATION Spec
\* Once the host stops editing and the row is written, the settings code
\* has nothing left to do.
CHECK_DEADLOCK FALSE
INVARIANT TypeOK
INVARIANT Persisted
PROPERTY EventuallySaved
PROPERTY ParamsAddressed
PROPERTY ExpertEncoderRelative
