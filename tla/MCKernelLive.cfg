CONSTANTS
  main = main
  idle = idle
  appA = appA
  appB = appB
  spare = spare
  srv1 = srv1
  srv2 = srv2
  c1 = c1
  c2 = c2
  k1 = k1
  k2 = k2
  NoThread = NoThread
  NoConn = NoConn
  NoQ = NoQ
  Thread <- LiveThread
  Main = main
  Idle = idle
  Boot <- MCBoot
  Conn = {c1}
  Target <- LiveTarget
  Key = {k1}
  KeysOf <- LiveKeysOf
  Bucket <- LiveBucket
  Val = {0, 1}
SPECIFICATION FairSpec
PROPERTIES QueuedRuns SleeperRuns
