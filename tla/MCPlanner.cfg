SPECIFICATION Spec
CONSTANTS
  ui = ui
  worker = worker
  Threads = {ui, worker}
  Actions = {"read", "write"}
  Batches = {"batch"}
  Active <- OfflineFirst
  Size <- MCSize
  Verdict <- MCVerdict
  MaxPlans = 2
  Apis <- AllApis
  HostPhases <- StreamPhases
SYMMETRY ThreadSymmetry
INVARIANTS
  TypeOK
  ReviewBeforeAction
  NoCallTwice
  RejectedNeverRuns
  OneHolder
  ApprovalsAreTrue
PROPERTY
  ImplementsContract
