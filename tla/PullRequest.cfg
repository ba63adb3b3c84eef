SPECIFICATION LiveSpec
CONSTANTS
    MaxHead = 3
    MaxRuns = 4
    MaxFaults = 1
    Good <- SecondIsGood
INVARIANTS SomeHeadPassed BuildsAreOfMerges
PROPERTIES GoodHeadIsMerged MergeIsBuilt
CHECK_DEADLOCK FALSE
