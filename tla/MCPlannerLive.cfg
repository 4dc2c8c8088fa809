SPECIFICATION FairSpec
CONSTANTS
  ui = ui
  worker = worker
  Threads = {ui, worker}
  Actions = {"write", "fetch"}
  Batches = {}
  Active <- PrivacyMaximum
  Size <- MCSize
  Verdict <- MCVerdict
  MaxPlans = 2
  Apis = {"handle"}
  HostPhases = {"Failed"}
INVARIANT
  GateIsObeyed
PROPERTIES
  FinalStatusStays
  ApprovedPlansFinish
  GesturesReturn
