SPECIFICATION Spec
CONSTANTS
    Owners = {"o1", "o2"}
    Audits = {"a1"}
    Challenges <- MCChallenges
    Callers = {"c1"}
    Requests = {}
    Crowds <- MCCrowds
    MaxGrants = 1
    MaxAwaiting = 1
    MaxJobs = 2
    MaxTroubles = 1
    None = None
INVARIANTS
    AbortedSignsNothing
CHECK_DEADLOCK FALSE
