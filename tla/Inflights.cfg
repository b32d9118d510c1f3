CONSTANTS
    Size = 3
    MaxIndex = 6
SPECIFICATION Spec
INVARIANTS FlightsAscend
PROPERTY ImplementsWindow
