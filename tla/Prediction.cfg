SPECIFICATION FairSpec
CONSTANTS
    Capacity = 5
    Tolerance = 1
    Grain = 1
    Calibration = 2
    MaxSeq = 6
    LastCrash = 2
    LastEarly = 4
    MaxSyncs = 1
INVARIANTS PredictionTypeOK EachInputOnce LeadBounded
PROPERTIES FollowsLive DrawsLive
CHECK_DEADLOCK FALSE
