CONSTANTS
  Job = {j1, j2, j3}
  Image = {red, blue}
  NoImage = NoImage
  Capacity = 2
SPECIFICATION Spec
INVARIANTS BitmapsUnshared PoolNeverEmpty
PROPERTIES ChecksSuffice ImplementsTileCache
