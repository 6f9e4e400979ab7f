\* Three flows of up to four frames; one bin for flow labels.
CONSTANTS
    None = None
    MaxLabelBins = 1
    MaxPackets = 4
    Frames <- MCFlows
SPECIFICATION Spec
INVARIANTS
    CountersOfPackets
    HistogramsOfPackets
    FragmentsOfCapture
    EndedForCause
CHECK_DEADLOCK FALSE
