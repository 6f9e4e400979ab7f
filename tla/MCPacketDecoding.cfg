\* Every frame of the sweep as the first of its capture.
CONSTANTS
    None = None
    MaxLabelBins = 1
    MaxPackets = 1
    Frames <- MCSweep
SPECIFICATION Spec
INVARIANTS
    FragmentsOfCapture
    EndedForCause
CHECK_DEADLOCK FALSE
