\* One listener with two clients of the same Key, one outgoing connection, one application thread.
SPECIFICATION Spec
CONSTANTS
  e1 = e1
  e2 = e2
  e3 = e3
  Endpoints = {e1, e2, e3}
  Accepts = {1}
  Connects = {2}
  Owner <- TwinOwner
  Ip <- TwinIp
  IpLen <- TwinLen
  RPort <- TwinRPort
  LPort <- TwinLPort
  ListenPort <- TwinListen
  Users = {"u"}
  MaxOpens = 2
  MaxQueue = 1
  None = None
INVARIANTS  TypeOK NetIdsDistinct RegistryConsistent
PROPERTY CallbackOrder
CONSTRAINT NoOverlap
