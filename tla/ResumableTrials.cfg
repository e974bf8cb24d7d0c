CONSTANTS
    p1 = p1
    p2 = p2
    old = old
    new = new
    all = all
    some = some
    None = None
    Runners = {p1, p2}
    N = 2
    MaxTries = 3
    Corpora = {old, new}
    Cells = {all, some}
    Harnesses <- MCHarnesses
    Patience = 1
    MaxStarts = 3
    MaxEdits = 1
    MaxLines = 1
SPECIFICATION Spec
SYMMETRY MCSymmetry
INVARIANTS EligibleOnPinned
PROPERTIES KeepsLedger PrimaryFixed
CHECK_DEADLOCK FALSE
