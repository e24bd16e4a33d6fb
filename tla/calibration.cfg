\* Every flash record over the representative points of MCCalibration.
CONSTANTS
    InPoints <- MCInPoints
    OutPoints <- MCOutPoints
SPECIFICATION Spec
\* ReadCalibrationFromSettings runs once, during initialisation.
CHECK_DEADLOCK FALSE
INVARIANT TypeOK
INVARIANT InputsCalibrated
INVARIANT OutputsCalibrated
INVARIANT WarnedOfDefaults
