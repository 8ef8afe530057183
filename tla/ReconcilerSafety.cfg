CONSTANTS
  Target <- MCTarget
  Key <- MCKey
  Sid <- MCSid
  NoSid <- MCNoSid
  Name <- MCName
  NoName <- MCNoName
  Contents <- UrgencyContents
  Proc <- MCProc
  Main = main
  NoProc = nobody
  NoPill = unset
  MayFail = {"cache", "write", "set", "read"}
  MaxVersion = 3
  MaxStarts = 2
  p1 = p1
  p2 = p2
  main = main
  nobody = nobody
  w1 = w1
  w2 = w2
SPECIFICATION Spec
SYMMETRY HandlerSymmetry
INVARIANTS TypeOK QuiescentFresh QuiescentPills PrevPillOfSnapshot
PROPERTIES GenAnnouncesSnapshot GenMonotonic PublicationSpec TitledSessionsStayTitled
