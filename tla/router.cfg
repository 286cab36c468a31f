SPECIFICATION FairRouterSpec
CONSTANTS
    MaxRoutes = 3
    Tables <- AllTables
    Sent <- SentTo
    Compiled <- compile
    Matching <- MatchString
CHECK_DEADLOCK FALSE
INVARIANTS AnswersAsSearch CompilesToSearch
PROPERTIES Ends
