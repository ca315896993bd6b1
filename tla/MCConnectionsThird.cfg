SPECIFICATION ServersSpec
CONSTANTS
  Layers = {"connect"}
  Server = srv
  Client = {idle, test, wm}
  Spare = {child}
  Page <- Pages
  NoFrame = noFrame
  MaxSlots = 12
  StackBase = 0
  StackSize = 2
  BufBase = 6
  BufSize = 2
  ClientBufBase = 6
  ClientBufSize = 1
  MapAddr = {0, 2}
  VmoSize = {2}
  MaxVmo = 0
  MaxSent = 0
  Mount = {m1}
  NoNode = NoNode
  File = {f}
  Dir = {d}
  NoFile = NoFile
SYMMETRY Clients
INVARIANT ConnectionMemory
CHECK_DEADLOCK FALSE
