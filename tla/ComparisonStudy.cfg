SPECIFICATION Spec
CONSTANTS
    native = native  retrieval = retrieval
    q1 = q1  q2 = q2  q3 = q3  whole = whole
    Systems = {native, retrieval}
    Native = {native}
    Oracles = {}
    Tasks = {q1, q2, q3}
    Pathless = {}
    Repetitions = 1
    Seed = "29"
    Whole = whole
    Outcomes <- MCOutcomes
    MaxFailures = 2
    MaxEdits = 1
INVARIANTS CompleteMeansAll 
CHECK_DEADLOCK FALSE
SYMMETRY MCSymmetry
