CONSTANTS
    Target = 10
    Enough = 10
    TP_BUFSIZE = 4
    TP_SEGMENT_SIZE = 3
    TP_NUM_SEGMENTS = 2
    Room = 5
SPECIFICATION FairPumpSpec
INVARIANTS
    SoundStackPasses
    SegmentsTimed
PROPERTY PumpEnds
