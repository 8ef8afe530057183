CONSTANTS
  Target <- MCTarget
  Key <- MCKey
  Sid <- MCSid
  NoSid <- MCNoSid
  Name <- MCName
  NoName <- MCNoName
  Contents <- SmallContents
  Proc <- MCProc
  Main = main
  NoProc = nobody
  NoPill = unset
  MayFail = {}
  MaxVersion = 3
  MaxStarts = 2
  p1 = p1
  p2 = p2
  main = main
  nobody = nobody
  w1 = w1
  w2 = w2
SPECIFICATION FairSpec
PROPERTIES MutationsPublished ReconcileReturns
