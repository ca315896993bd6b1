CONSTANTS
  Parts = {"kheap"}
  Masked = FALSE
  PageCount = 9
  MaxOrder = 3
  Request = {1, 2, 3, 5}
  NoPool = NoPool
  NoBlock = NoBlock
SPECIFICATION MemSpec
INVARIANT NoBlockTwice
