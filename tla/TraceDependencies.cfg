SPECIFICATION Spec
CONSTANTS
    r = r  a = a  b = b
    None = None
    Root = r
    Repos <- MCRepos
    Paths = {None, 2}
    Depths = {1, 3}
    Limits = {1, 4}
    MaxDepth = 3
    MaxLimit = 4
    MaxOffset = 2
INVARIANTS ShortestFirst RoundsConverge
