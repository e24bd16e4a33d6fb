\* The same model as settings_flush: does a restart restore what was saved?
CONSTANTS
    InitFlash <- MCInitFlash
    MaxEdits = 3
    MaxRestarts = 1
    EncInputs <- MCEncInputs
    ZInputs <- MCZInputs
SPECIFICATION Spec
CHECK_DEADLOCK FALSE
INVARIANT RestoresSaved
