SPECIFICATION FairSpec
CONSTANTS
    Trains = {61, 62}
    Sensors <- MCSensors
    ReverseOf <- MCReverseOf
    NextSensor <- MCNextSensor
    Secondary <- MCSecondary
    Starts = {1, 3}
    FollowFresh = FALSE
    Stands = TRUE
    MaxTime = 4
INVARIANTS UpdatesAreHits ClaimsFollow
PROPERTIES OneOutstandingClaim EarliestIsServed EveryHitArrives
CHECK_DEADLOCK FALSE
