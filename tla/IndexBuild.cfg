SPECIFICATION Spec
CONSTANTS
    Corpora <- MCCorpora
    BatchSize = 3
    Workers = 2
    MaxFiles = 3
    MaxBytes = 5
    MaxRecords = 4
INVARIANTS ListedOrder LikeOneThread AbsenceSaid
