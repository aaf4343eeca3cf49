SPECIFICATION FairSpec
CONSTANTS
  c1 = c1
  c2 = c2
  Commands = {c1, c2}
  MaxInputs = 3
  None = None
INVARIANTS NothingIsStuck
PROPERTIES CommandsEnd ListensAgain 
CHECK_DEADLOCK FALSE
