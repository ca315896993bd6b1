CONSTANTS
  BlockRing = 10
  PerCall = 2
  Free = Free
  NoReq = NoReq
SPECIFICATION DriverSpec
INVARIANTS BlockRequestsLive ChainsWhole InputInOrder LastFrameShown 
PROPERTIES DriversServe
CHECK_DEADLOCK FALSE
