SPECIFICATION FairSpec
CONSTANTS
  c1 = c1
  c2 = c2
  c3 = c3
  Codes = {c1, c2, c3}
  Decoy = Decoy
  NoCode = NoCode
  MaxUnread = 2
INVARIANTS
  CodeReadOnce
  OwnMailWins
PROPERTIES
  LoginEnds
