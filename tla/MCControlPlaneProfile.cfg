SPECIFICATION PartSpec
CONSTANTS
  Requests = {r1, r2}
  Main = main
  Profiles = {p1}
  Configs = {c1}
  Names = {n1}
  Lone = n1
  Ports = {a1, a2}
  Instances = {i1, i2, i3}
  None = None
INVARIANT ProfileInUseStays
