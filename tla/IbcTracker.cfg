SPECIFICATION FairSpec
CONSTANTS
    N = 2
    Flows = {f1, f2}
    Routes <- EveryRoute
    MaxTries = 1
    MaxFaults = 1
INVARIANTS RecordIsTrue ToldOfDelivery SuccessIsDelivery ResultsAreWhole Tracked
PROPERTY FollowedToTheEnd
CHECK_DEADLOCK FALSE
