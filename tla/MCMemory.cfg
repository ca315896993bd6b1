CONSTANTS
  Parts = {"pages", "kheap", "uheap", "tables"}
  Masked = TRUE
  PageCount = 9
  MaxOrder = 3
  Request = {1, 2, 3, 5}
  NoPool = NoPool
  NoBlock = NoBlock
SPECIFICATION MemSpec
INVARIANTS PagesAccounted NoBlockTwice  TranslationsSound
 
