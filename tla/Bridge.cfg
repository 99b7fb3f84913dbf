SPECIFICATION Spec
CONSTANTS
    Ids = {"a", "b"}
    Scenarios <- MCScenarios
    Policy <- MCPolicy
    Rooms <- MCRooms
    Submissions <- MCSubmissions
    Signers <- MCSigners
    F = 1
    Handlers = {"h"}
    MaxAttempts = 2
    MaxAttestations = 1
    MaxFailures = 2
    MaxReports = 1
    MaxFaults <- MCMaxFaults
    MaxClosings = 2
INVARIANTS
    TypeOK
    AnswersHaveEvidence
    PollsSurviveRestart
PROPERTIES
    SavedReplyIsFinal
    EveryRequestAnswered
CHECK_DEADLOCK FALSE
