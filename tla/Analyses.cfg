SPECIFICATION Spec
CONSTANTS
    Requests <- MCRequests
    Outcomes <- MCOutcomes
    Canonical <- MCCanonical
    Profiles <- MCProfiles
    Metadata <- MCMetadata
    MaxServed = 2
    MaxProcesses = 2
    Offers <- MCOffers
    Bodies <- MCBodies
    Gold <- MCGold
    Clients = {"claude", "codex", "opencode"}
    Retrieval = {"search"}
    ClientTools = {"Read"}
    Tokens = {1}
    MaxMessages = 2
    MaxCalls = 2
    MaxErrors = 1
    Trials <- MCTrials
    Asked <- MCAsked
    Tables <- MCTables
    Regrades <- MCRegrades
    Segments <- MCSegments
    MaxReply <- MCMaxReply
    MaxDeaths = 1
    MaxRegrades = 2
    Names = {"f", "g", "test_f"}
    TestNames = {"test_f"}
    Messages <- MCMessages
    Elsewhere <- MCElsewhere
    Called = {"g"}
    Added <- MCAdded
    Limit = 0
    MaxDefinitions = 4
    MaxLines = 4
    MaxDepth = 2
    MaxCommits = 2
    Rows <- MCRows
    Trees <- MCTrees
    Holds <- MCHolds
    SizeOf <- MCSizeOf
    Files <- MCFiles
    MaxKills = 2
    Source <- MCSource
    Questions <- MCQuestions
    Paths <- MCPaths
    Ranked <- MCRanked
    WithCallers = TRUE
    Window = 2
    Budget = 16
    MaxVain = 1
INVARIANTS SavedIsTrue  OutcomeAsLived CallsAsMade TokensOnce  ReadersAgree ReadsBack    ShippedGoldStands ResistantNeedsMore
CHECK_DEADLOCK FALSE
