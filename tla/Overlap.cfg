SPECIFICATION Spec
CONSTANTS
    r1 = r1
    r2 = r2
    Runs = {r1, r2}
    Repos = {"passwall2"}
    RootFiles = {}
    SubFiles = {"mk", "src"}
    DotFiles = {"dot"}
    Ignored = {}
    Contents = {"none", "a", "b", "bad"}
    Absent = "none"
    CleanDest = {"passwall2"}
    CopySubdirs = {"passwall2"}
    MaxVer = 2
    MaxFaults = 1
    MaxQueued = 1
    Snap <- History
    Order <- Scripts
    Makefile <- PackageMakefile
    Bad = {"bad"}
    Checked = {"passwall2"}
    PAT = TRUE
    Unknown = unknown
SYMMETRY RunSymmetry
INVARIANTS TypeOK OneSnapshot  NoSilentStaleness NoticedNotForgotten
PROPERTIES ImplementsMirror
