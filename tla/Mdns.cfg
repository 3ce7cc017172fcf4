SPECIFICATION Spec
CONSTANTS
    Bridges <- TheBridges
    Ads <- TheAds
    HnNames <- TheNames
    MaxAds = 3
    MaxNet = 1
    MaxTime = 1
    MinInterval = 1
    Refresh = 2
    MaxItems = 2
    Never <- LongAgo
INVARIANTS TypeOK LatestWins QueryFinds OneLearns NoStorm
PROPERTIES KeyStable
CHECK_DEADLOCK FALSE
