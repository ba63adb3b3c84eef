SPECIFICATION Spec
CONSTANTS
  Modems = {A, B}
  DisabledSets <- MCDisabled
  BandClasses = {k}
  Bands = {b1, b2}
  MaxInterfaces = 2
  MaxCalls = 2
  OvModems = {A, B}
  OvClasses = {c1, c2}
  OvEntries <- MCEntries
  Translated = FALSE
  MaxMaps = 2
  MaxRefresh = 2
  MaxMoves = 1
  Sections <- MCSections
  BaseInfos <- MCBase
  CellInfos <- MCCell
  ToolModems = {A, B}
  Slots = {s1, s2}
  MaxPanes = 3
  MaxSent = 3
  SmsModems = {A, B}
  FirstModem = A
  SimSlots = {s1, s2}
  MaxSpinners = 3
  MaxSmsCalls = 3
  MaxMessages = 2
  PduTexts <- MCTexts
  PduLengths <- MCLengths
  Instances = {i1, i2}
  Scripts = {s1, s2}
  MaxPresses = 2
  MonitorValues <- MCMonitor
  Dialers = {A}
  MaxDialCalls = 2
  MaxSaves = 1
  Devices = {A, B, C}
  MaxRequests = 3
INVARIANTS
  SettingsSentAsShown   
  SmsPageGoesOn EncodedWhole
  ControlsAgree  
CHECK_DEADLOCK FALSE
