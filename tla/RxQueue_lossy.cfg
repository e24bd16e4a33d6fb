\* The queue as shipped (read index -1 at boot) against the lossy-FIFO
\* contract of spec sections 3 and 4.1.
CONSTANTS
    Size = 4
    MaxRx = 7
SPECIFICATION Spec
PROPERTY LossyFifo
