\* Twenty-one detection sessions over windows of up to three packets.
CONSTANTS
    None = None
    MaxLabelBins = 1
    MaxPackets = 3
    Frames <- MCWindows
    Configurations <- MCConfigurations
SPECIFICATION DetectionSpec
INVARIANTS
    DecisionsOfPackets
    EveryWindowDetected
    FeaturesOfPackets
CHECK_DEADLOCK FALSE
