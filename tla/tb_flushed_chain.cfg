SPECIFICATION Spec
CONSTANTS
  PageSize = 2
  Maps <- TwoPages
  Entries = {0, 1}
  Jump <- PingPong
  code_gen_max_blocks = 2
  SMC_BITMAP_USE_THRESHOLD = 1
  Modes <- Flushing
  None = None
INVARIANTS ChainsRight
