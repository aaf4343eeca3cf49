SPECIFICATION Spec
CONSTANTS
  c1 = c1
  Commands = {c1}
  MaxInputs = 3
  None = None
PROPERTY RefusalIsRespected
CHECK_DEADLOCK FALSE
