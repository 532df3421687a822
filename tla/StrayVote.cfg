SPECIFICATION Spec
CONSTANTS
    s1 = s1
    s2 = s2
    s3 = s3
    Slaves <- MCSlaves
    Slow <- MCSlow
    MaxRounds = 2
    MaxCrashes = 2
INVARIANTS
    AllVotedBeforePush
CHECK_DEADLOCK FALSE
