CONSTANTS
  t1 = t1 t2 = t2 h1 = h1 h2 = h2 hx = hx
  s1 = s1 s2 = s2 p1 = p1 p2 = p2 p3 = p3
  b1 = b1 b2 = b2 b3 = b3 b4 = b4 b5 = b5
  g1 = g1 g2 = g2 r1 = r1 r2 = r2 r3 = r3
  None = None
  Thread = {t1, t2} Main = t1
  Heap = {h1, h2, hx}
  Home <- MCHome Backing <- MCBacking
  Seg = {s1, s2} Page = {p1, p2, p3} SegOf <- MCSegOf HugeSeg = {s2}
  Block = {b1, b2, b3, b4, b5} PageOf <- MCPageOf
  Extend = 1 Cycles = 2 MaxTries = 2 MaxOps = 5
  Parts = {"heap", "list", "pages", "regions", "arena", "bins", "blocks", "os"}
SPECIFICATION MCSpec
SYMMETRY Alike
INVARIANTS HeapKeepsBlocks DelayedFreeHeard AbandonedKept  BlocksSound
