SPECIFICATION Spec
CONSTANTS
  t1 = t1
  c1 = c1
  c2 = c2
  None = None
  Texts = {t1}
  Contacts = {c1, c2}
  Known = {c1}
  Phones = {c2}
  MaxRounds = 1
  MayBreak = {t1}
INVARIANT TextProposals
