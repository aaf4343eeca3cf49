SPECIFICATION FairSpec
CONSTANTS
  t1 = t1
  c1 = c1
  c2 = c2
  None = None
  Texts = {t1}
  Contacts = {c1}
  Known = {c1}
  Phones = {c1}
  MaxRounds = 3
  MayBreak = {}
PROPERTY TextsSettle
INVARIANT CallsBounded
