SPECIFICATION Spec
CONSTANTS
  Readings <- MCReadings
  Seconds <- MCSeconds
  Words <- MCWords
  LongestName = 4
  Digits = {0, 1, 9}
  Answers <- MCAnswers
  MaxWrites = 4
  Menus = {A, B, C}
  Plain = {L}
  MaxClicks = 5
  Windows = {v, w}
  Pictures = {p, q}
  ServerValues <- MCServers
  ClientValues <- MCClient
  MaxLists = 3
  Sections = {s1, s2}
  ProxyNodes = {n1, n2}
  Tested = {n1}
  MaxSaves = 4
  ShareLinks <- MCShareLinks
  l1 = l1
  l2 = l2
  Labels = {l1, l2}
  Groups = {g1, g2}
  Links <- MCImports
  MaxUpdates = 2
  ResourceKinds = {c4, c6}
  MaxChecks = 3
INVARIANTS
  FormatsKeepMeaning ThemeSettles 
  ServerIsUsable   

  
CHECK_DEADLOCK FALSE
