SPECIFICATION LiveSpec
CONSTANTS
    MaxPorts = 2
    MaxOpens = 2
    MaxUnplugs = 1
INVARIANTS ListIsAllocated LoneReadersEnd ReadsItsOwn
PROPERTIES CallsReturn
CHECK_DEADLOCK FALSE
