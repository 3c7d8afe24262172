\* Two databases of four and five objects; the steps that may be made to each are with it.
SPECIFICATION DbSpec
CONSTANTS
  s1 = s1
  Slots = {s1}
  MaxObject = 4
  Words <- MCWords
  Namings <- MCNamings
  Kinds <- MCKinds
  MAX_VERBS = 2
  Names = {"p", "q", "quota"}
  quota_name = "quota"
  Values = {0, 1}
  CLEAR = CLEAR
  MAX_PROPS = 2
  Owners = {0, 1}
  Databases <- MCDatabases
PROPERTIES
  CacheIsTransparent
  SlotsAreATable
  ProtectedStayProtected
CHECK_DEADLOCK FALSE
