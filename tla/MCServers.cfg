SPECIFICATION ServersSpec
CONSTANTS
  Layers = {"connect", "vfs", "cpio", "server", "stream"}
  Server = srv
  Client = {test, wm}
  Spare = {child}
  Page <- Pages
  NoFrame = noFrame
  MaxSlots = 4
  StackBase = 0
  StackSize = 2
  BufBase = 6
  BufSize = 2
  ClientBufBase = 6
  ClientBufSize = 1
  MapAddr = {0, 2}
  VmoSize = {2}
  MaxVmo = 1
  MaxSent = 1
  Mount = {m1, m2}
  NoNode = NoNode
  File = {f}
  Dir = {d}
  NoFile = NoFile
SYMMETRY Mounts
INVARIANTS   CacheCoherent  
PROPERTIES StreamKeepsPromise
CHECK_DEADLOCK FALSE
