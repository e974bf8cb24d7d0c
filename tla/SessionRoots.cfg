SPECIFICATION RootsSpec
CONSTANTS
    uriA = uriA  uriB = uriB
    dirA = dirA  dirB = dirB  dirLaunch = dirLaunch
    Calls = {c1, c2}
    Uris <- MCUris
    Dirs <- MCDirs
    DirOf <- MCDirOf
    Launch = dirLaunch
    NoDir = NoDir
    NoRoots = NoRoots
    Silence = Silence
    Failure = Failure
    None = None
    MaxMoves = 2
INVARIANTS FreshCall PinHolds
PROPERTIES WarmKept EveryCallEnds
