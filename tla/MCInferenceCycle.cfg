SPECIFICATION Spec
CHECK_DEADLOCK FALSE
CONSTANTS
    Tools <- MCTools
    Args = {"a", "b", "none"}
    Position <- MCPosition
    Homes <- MCHomes
    Needs <- MCNeeds
    Links <- MCLinks
    Repairable = {"audit"}
    Positions = 2
    PlanBound = {"scenario"}
    Turns <- MCTurns
    AssessmentDue = FALSE
    MaxRounds = 3
    MaxPerPass = 2
    MaxTurns = 7
    PassBudget <- MCPassBudget
    Retries = 1
INVARIANTS DataIsEvaluated
           PositionsEarned
PROPERTIES ImplementsMembrane CycleEnds
