CONSTANTS
    alice = alice bob = bob None = None
    Party = {alice, bob}
    MaxSkip = 1
    Orderly = TRUE
    MaxBundles <- MCBundles
    MaxImports <- MCImports
    MaxSends <- MCSends
SPECIFICATION Spec
CHECK_DEADLOCK FALSE
INVARIANTS TypeOK EveryDeliveryOpens ForwardSecrecy SkippedAwaited
