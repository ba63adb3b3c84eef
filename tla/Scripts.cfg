SPECIFICATION Spec
CONSTANTS
    Repos = {"argon", "passwall", "deps"}
    RootFiles = {}
    SubFiles = {"mk", "src"}
    DotFiles = {"dot"}
    Ignored = {}
    Contents = {"none", "a", "b"}
    Absent = "none"
    CleanDest = {"argon", "passwall"}
    CopySubdirs = {"passwall", "deps"}
    MaxVer = 1
    MaxFaults = 1
    Snap <- History
    Scripts <- AllScripts
INVARIANTS SuccessMeansWhole PublishedWhole
PROPERTIES DamageIsContained
