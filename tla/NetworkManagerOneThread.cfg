\* Callbacks before and after SyncRunning.
SPECIFICATION Spec
CONSTANTS
  e1 = e1
  e2 = e2
  e3 = e3
  Endpoints = {e1, e3}
  Accepts = {1}
  Connects = {2}
  Owner <- PairOwner
  Ip <- PairIp
  IpLen <- PairLen
  RPort <- PairRPort
  LPort <- PairLPort
  ListenPort <- PairListen
  Users = {}
  MaxOpens = 2
  MaxQueue = 2
  None = None
INVARIANT CallbacksOnOneThread
