CONSTANTS
  Target <- TwoPanes
  NoTarget = noTarget
  Port <- TwoPorts
  NoPort = noPort
  Claude = claude
  Client <- ThreeClients
  NoInstance = noInstance
  MaxFailures = 2
  MayReuse = FALSE
  MaxLaunches = 2
  MaxGlitches = 2
  MaxStarts = 1
  w1 = w1
  w2 = w2
  p1 = p1
  p2 = p2
  c1 = c1
  c2 = c2
  c3 = c3
SPECIFICATION Spec
PROPERTY DropIsNoFailure
