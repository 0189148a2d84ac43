\* Three runners, two times and a list for two of them.
CONSTANTS
    Runner = {a, b, c}
    RunTime = {1, 2}
    TopSize = 2
SPECIFICATION BoardSpec
SYMMETRY Symmetric
INVARIANTS
    FileCatchesUp
    TopIsBest
