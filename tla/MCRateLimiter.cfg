SPECIFICATION Spec
CONSTANTS
    Key = {k1, k2}
    Cost = 2
    Burst = 4
    SweepEvery = 3
    MaxTime = 9
SYMMETRY Symmetry
INVARIANTS AdmissionBounded RetryAfterIsEnough
PROPERTIES IdleBucketsAreDropped ImplementsTokenBucket
