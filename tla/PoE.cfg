\* Verification, persistence, patches and exit for lists of up to three findings.
SPECIFICATION Spec
CONSTANTS
  Scored <- MCScored
  Methods <- MCMethods
  Calls <- MCCalls
  Source <- MCSource
  None = None
INVARIANTS
  OnlyConfirmationRaises
  LeftoversAreLogged
