SPECIFICATION FairSpec
CONSTANTS
  n1 = n1
  NoName = NoName
  Names <- MCNames
  MaxIds = 3
  MaxRows = 2
CHECK_DEADLOCK FALSE
INVARIANTS
  TypeOK
  IndexInList
  TokensAligned
  SelectionOfSomeTable
PROPERTIES
  ListSpec
  QuitServed
  RequestsServed
