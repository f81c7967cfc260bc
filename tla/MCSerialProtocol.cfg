SPECIFICATION FairSpec
CONSTANTS
    Requests <- MCRequests
    Noise <- MCNoise
    MaxFaults = 1
    RX_BUFFER_SIZE = 3
    Burst = 13
PROPERTIES
    Recovers
