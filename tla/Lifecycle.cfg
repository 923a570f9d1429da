CONSTANTS
    alice = alice bob = bob None = None
    Identity = {alice, bob}
    MaxStarts = 3
SPECIFICATION LifecycleSpec
SYMMETRY MCSymmetry
INVARIANTS LifecycleTypeOK StartsAgain SchemaComplete OnlyCurrentConnects
PROPERTY IdentityKept
