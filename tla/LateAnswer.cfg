SPECIFICATION Spec
CONSTANTS
    MaxCmds = 2
    MaxUrcs = 1
    MaxFaults = 1
    MaxResponse = 4
    Chatty <- FirstIsChatty
INVARIANTS AnswerIsOwn
CHECK_DEADLOCK FALSE
