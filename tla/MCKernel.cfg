CONSTANTS
  main = main
  idle = idle
  appA = appA
  appB = appB
  spare = spare
  srv1 = srv1
  srv2 = srv2
  c1 = c1
  c2 = c2
  k1 = k1
  k2 = k2
  NoThread = NoThread
  NoConn = NoConn
  NoQ = NoQ
  Thread <- MCThread
  Main = main
  Idle = idle
  Boot <- MCBoot
  Conn <- MCConn
  Target <- MCTarget
  Key <- MCKey
  KeysOf <- MCKeysOf
  Bucket <- MCBucket
  Val = {0, 1}
SPECIFICATION Spec
INVARIANTS TypeOK ReadyListSound OneWaker ServerIdleOrBusy  NoLostWakeup 
PROPERTIES WokenByItsEventProp
