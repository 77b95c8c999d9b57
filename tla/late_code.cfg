SPECIFICATION LateSpec
CONSTANTS
  c1 = c1
  c2 = c2
  c3 = c3
  Codes = {c1, c2, c3}
  Decoy = Decoy
  NoCode = NoCode
  MaxUnread = 3
PROPERTIES
  LoginRecovers
