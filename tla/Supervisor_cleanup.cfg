SPECIFICATION Spec
CONSTANTS
    Signal = {sigint}
    MaxStops = 0
    MaxFaults = 2
INVARIANTS
    TreeExitedFirst
