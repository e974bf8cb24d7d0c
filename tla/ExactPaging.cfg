SPECIFICATION Spec
CONSTANTS
    Corpora <- MCCorpora
    Limits = {1, 3, 4}
    MaxLimit = 3
    MaxOffset = 4
    Cap = 2
INVARIANTS BatchEqualsSingle NothingLost PagesFollow
