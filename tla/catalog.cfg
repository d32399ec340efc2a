SPECIFICATION Spec
CONSTANTS
  c1 = c1
  c2 = c2
  titleA = titleA
  titleB = titleB
  Clients = {c1, c2}
  Titles = {titleA, titleB}
  None = None
  MaxId = 2
SYMMETRY SymmetricClients
INVARIANTS
  IInv
  TokensName
  OrphansAreLostAnswers
PROPERTIES
  ReadsOwnWrites
