SPECIFICATION Spec
CONSTANTS
  Watched = {"workspace", "editor"}
  Threads = {"ui"}
  MaxVersion <- MCMaxVersion
  MaxPrepared <- MCMaxPrepared
  CodingChanges = 2
  Changing = {"terminals"}
  Requests = 0
INVARIANT
  ClosedStaysClear
