SPECIFICATION Spec
CONSTANTS
  Watched = {"workspace", "editor", "git"}
  Threads = {"ui"}
  MaxVersion <- MCMaxVersion
  MaxPrepared <- MCMaxPrepared
  CodingChanges = 2
  Changing = {"repository", "terminals", "project"}
  Requests = 0
INVARIANT
  OneJobPerMark
