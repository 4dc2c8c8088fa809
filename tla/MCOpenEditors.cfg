SPECIFICATION EditorsSpec
SYMMETRY Alike
CONSTANTS
  Files = {f, g}
  PaneIds = {p, q, r}
  None = None
  Absent = Absent
  MaxEdits = 2
INVARIANTS
  TabsAreWhole
PROPERTIES
  CleanIsFromDisk
  UnsavedIsKept
