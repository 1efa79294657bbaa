SPECIFICATION Spec
CONSTANTS
  PageSize = 2
  Maps <- TwoPages
  Entries = {1, 2}
  Jump <- Loops
  code_gen_max_blocks = 2
  SMC_BITMAP_USE_THRESHOLD = 1
  Modes <- Recording
  None = None
INVARIANTS NoStaleBlock MappingCurrent StoresSeen ChainsRight Unlinked
