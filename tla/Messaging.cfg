CONSTANTS
    f1 = f1 f2 = f2 alice = alice bob = bob None = None
    Party = {alice, bob}
    MaxSkip = 1
    Orderly = TRUE
    MaxBundles <- MCBundles
    MaxImports <- MCImports
    MaxSends <- MCSends
    MaxCrashes <- MCCrashes
    Introduced = {bob}
    Frame = {f1}
SPECIFICATION MessagingFairSpec
CHECK_DEADLOCK FALSE
INVARIANTS TasksOK SealedOnce DeliveredOpens KeysForgotten
PROPERTY OpenedIsRecorded
