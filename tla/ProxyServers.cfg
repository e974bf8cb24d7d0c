SPECIFICATION Spec
CONSTANTS
    search = search  concept = concept  hidden = hidden  notool = notool
    N = 2
    Route <- MCRoute
    Hidden = hidden
    Required = concept
    NoTool = notool
    MaxCalls = 2
    MaxBytes = 3
    ReplySizes <- MCReplySizes
    FailureSize = 1
    MaxRequests = 2
    Plans <- MCPlans
    MaxLines = 3
    MaxUnprompted = 1
    Options <- MCOptions
    Pages <- MCPages
    Calls = 1
INVARIANTS OwnAnswer JoinedAsTold RepliesInOrder  SameDamage
PROPERTIES EveryAskAnswered Responsive
CHECK_DEADLOCK FALSE
