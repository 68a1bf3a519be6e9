SPECIFICATION SerializeSpec
CONSTANTS
  Classes <- MCClasses
  Registered <- MCRegistered
  NameLength <- MCNameLength
  SERIALIZE_CLASS_NAME_MAX_LEN = 3
  Objects <- MCObjects
  MaxSent <- MCMaxSent
  Cut = 3
  Encode <- WriteObject
  Decode <- Unserialized
  NoName = NoName
INVARIANTS DeliveredAsSent DroppedForCause
CHECK_DEADLOCK FALSE
