SPECIFICATION LiveSpec
CONSTANTS
    MaxCmds = 2
    MaxUrcs = 1
    MaxFaults = 1
    MaxResponse = 4
    Chatty <- FirstIsChatty
INVARIANTS TypeOK QuietAnswerIsOwn SuccessWasMatched
PROPERTIES EveryCallReturns
CHECK_DEADLOCK FALSE
