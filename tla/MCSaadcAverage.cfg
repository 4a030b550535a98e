CONSTANT Samples <- SomeSamples
SPECIFICATION Spec
INVARIANTS AverageInv OneSpikeIsHarmless
CHECK_DEADLOCK FALSE
