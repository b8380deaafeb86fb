SPECIFICATION Spec
CONSTANTS
  a = a
  b = b
  note = note
  book = book
  home = home
  other = other
  Texts = {b}
  Blank = Blank
  Labels = {note, book, Crumb}
  Crumb = Crumb
  Spaces = {home, other}
  Home = home
  Linked <- MCLinked
  InitialNames <- MCNames
  Saves = {s1}
  NoObject = NoObject
  NoMembers = NoMembers
  NoCapability = NoCapability
  MaxDepth = 3
  MaxFetches = 2
  MaxInputs = 6
INVARIANTS
  PathIsCopied
CHECK_DEADLOCK FALSE
