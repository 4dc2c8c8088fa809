SPECIFICATION FairSpec
CONSTANTS
  Watched = {"workspace", "editor"}
  Threads = {"ui", "worker"}
  MaxVersion <- MCMaxVersion
  MaxPrepared <- MCMaxPrepared
  CodingChanges = 2
  Changing = {}
  Requests = 1
INVARIANT
  RequestsAreServed
PROPERTIES
  SnapshotsMoveOn
  EditorIsACell
