SPECIFICATION Spec
CONSTANTS
    Bodies <- MCBodies
    MaxRetries = 0
    MaxPrelude = 2
INVARIANT NothingIsLost
