CONSTANTS
  Target <- MCTarget
  NoTarget = noTarget
  Cwd <- MCCwd
  NoSession = noSession
  NoSid = noSid
  w1 = w1
  w2 = w2
  c1 = c1
  c2 = c2
  s1 = s1
  s2 = s2
  Sid <- TwoSids
  CwdOf <- OwnDirectories
  SidsAt <- SomeSids
  MayKill = TRUE
  MayResume = FALSE
  MaxLaunches = 2
  OtherPanes <- OnePane
  MaxOthers = 1
  MaxReports = 0
  MaxPending = 1
  MaxStarts = 2
SPECIFICATION FairSpec
PROPERTIES DeadPanesPruned LivePanesShown
