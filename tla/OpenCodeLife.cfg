CONSTANTS
  Target <- TwoPanes
  NoTarget = noTarget
  Port <- TwoPorts
  NoPort = noPort
  Claude = claude
  Client <- ThreeClients
  NoInstance = noInstance
  MaxFailures = 2
  MayReuse = FALSE
  MaxLaunches = 2
  MaxGlitches = 0
  MaxStarts = 2
  w1 = w1
  w2 = w2
  p1 = p1
  p2 = p2
  c1 = c1
  c2 = c2
  c3 = c3
SPECIFICATION FairSpec
INVARIANTS TypeOK OneClientPerInstance
PROPERTIES DeadInstancesRemoved LiveInstancesShown
