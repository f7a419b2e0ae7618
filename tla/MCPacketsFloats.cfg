SPECIFICATION Spec
CONSTANTS
    Byte = 16
    Samples <- SomeSamples
INVARIANTS
    PufferRoundTrip
CHECK_DEADLOCK FALSE
