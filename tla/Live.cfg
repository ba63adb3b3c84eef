SPECIFICATION LiveSpec
CONSTANTS
    r1 = r1
    r2 = r2
    Runs = {r1, r2}
    Repos = {"passwall2"}
    RootFiles = {}
    SubFiles = {"mk", "src"}
    DotFiles = {"dot"}
    Ignored = {}
    Contents = {"none", "a", "b", "c", "bad"}
    Absent = "none"
    CleanDest = {"passwall2"}
    CopySubdirs = {"passwall2"}
    MaxVer = 2
    MaxFaults = 1
    MaxQueued = 1
    Snap <- GoodHistory
    Order <- Scripts
    Makefile <- PackageMakefile
    Bad = {"bad"}
    Checked = {"passwall2"}
    PAT = TRUE
    Unknown = unknown
PROPERTIES Converges RecordsHeads
