SPECIFICATION MmapSpec
CONSTANTS
  Ctx = {c1, c2}
  Frame = {f1, f2, f3}
  NOT_PRESENT = NOT_PRESENT
  MMAP_MAX_AREAS = 2
  MMAP_MIN_ADDR = 2
  MMAP_SEARCH_START = 6
  PAGE_SIZE = 2
  MaxAddr = 5
  MaxLen = 4
  Lengths = {1, 3}
  FlagChoices = {{"MAP_ANONYMOUS"}, {"MAP_PRIVATE"}, {"MAP_SHARED"}}
  MaxCalls = 4
SYMMETRY Symmetry
INVARIANTS MmapTypeOK  AreaCountExact FramesExclusive NoStrayMapping LoopsAgree
CHECK_DEADLOCK FALSE
