SPECIFICATION Spec
CONSTANTS
  Candidates = {"OfflineFirst", "PrivacyMaximum", "DeveloperMode"}
  MaxActive = 2
INVARIANTS
  UnseenCallsAreHarmless
  StrictestPolicyWins
PROPERTY
  PoliciesOnlyTighten
CHECK_DEADLOCK FALSE
