SPECIFICATION Spec
CONSTANTS
  a = a
  b = b
  note = note
  book = book
  home = home
  other = other
  Texts = {b}
  Blank = Blank
  Labels = {note, book, Crumb}
  Crumb = Crumb
  Spaces = {home, other}
  Home = home
  Linked <- MCLinked
  InitialNames <- MCNames
  Saves = {s1, s2}
  NoObject = NoObject
  NoMembers = NoMembers
  NoCapability = NoCapability
  MaxDepth = 3
  MaxFetches = 2
  MaxInputs = 5
INVARIANTS
  TypeOK
  TreesAreWhole
  
  UnaskedSaveNamesExisting
SYMMETRY SaveSymmetry
CHECK_DEADLOCK FALSE
