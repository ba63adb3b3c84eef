SPECIFICATION Spec
CONSTANTS
    MaxHead = 3
    MaxRuns = 4
    MaxFaults = 1
    Good <- SecondIsGood
INVARIANTS MergedHeadPassed
CHECK_DEADLOCK FALSE
