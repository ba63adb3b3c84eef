SPECIFICATION LiveSpec
CONSTANTS
    MaxPorts = 2
    MaxOpens = 2
    MaxUnplugs = 0
PROPERTIES Terminates
CHECK_DEADLOCK FALSE
