SPECIFICATION Spec
CONSTANTS
  ui = ui
  Threads = {ui}
  Actions = {"write"}
  Batches = {"batch"}
  Active <- OfflineFirst
  Size <- MCSize
  Verdict <- MCVerdict
  MaxPlans = 2
  Apis <- AllApis
  HostPhases <- StreamPhases
INVARIANT
  ApprovedWorkIsShownWork
