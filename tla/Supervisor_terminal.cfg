SPECIFICATION Spec
CONSTANTS
    Signal = {sigint, sigterm}
    MaxStops = 3
    MaxFaults = 2
INVARIANTS
    Inv
    OutcomeWhenGone
    TerminalReturned
    StopsAsOne
PROPERTIES
    StoppedIsContinued
    SecondSignalEnds
