CONSTANTS
    Cells = {k1, k2}
    Cafes = {c1, c2}
    NoCafe = NoCafe
    MaxUnderWay = 2
    MaxTaps = 2
SYMMETRY Alike
SPECIFICATION Spec
INVARIANT TypeOK
INVARIANT SettledCellsAreRight
INVARIANT TapsToggle
