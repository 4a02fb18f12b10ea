SPECIFICATION Spec
CONSTANTS
    START = 170
    MAX_PAYLOAD = 3
    CRC_INIT = 65535
    crc_update <- MCCrc
    Frames <- MCFrames
    Noise <- MCNoise
    MaxFaults = 2
INVARIANTS
    AcceptedIsWhole
    BoundedLoss
    IntactFrameAccepted
PROPERTY
    Resynchronises
