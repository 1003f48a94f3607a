SPECIFICATION Spec
CONSTANTS
    Commands <- MCTracks
    Masks <- MCMasks
    MaxReads = 1
INVARIANTS
    TracksAreThree
