SPECIFICATION Spec
CONSTANTS
  Loads <- MCLoads
  MaxPayload = 70000
  MaxHeld = 4
  MaxAttachments = 12
  MaxId = 20
  NONE = NONE
CHECK_DEADLOCK FALSE
INVARIANT Delivered
INVARIANT AttachmentsOwn
