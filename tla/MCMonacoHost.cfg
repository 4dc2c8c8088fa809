SPECIFICATION Spec
SYMMETRY Alike
CONSTANTS
  Files = {f, g}
  PaneIds = {p, q}
  None = None
  Absent = Absent
  MaxEdits = 2
  MaxQueue = 2
INVARIANTS
  TypedWhereShown
  TypingArrives
  ViewAgreesUnlessCrossed
PROPERTIES
  UnsavedSurvivesTheView
