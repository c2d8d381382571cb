\* The findings that get a verification are the eligible ones.
SPECIFICATION Spec
CONSTANTS
  Scored <- MCScored
  Methods <- MCMethods
  Calls <- MCCalls
  Source <- MCSource
  None = None
INVARIANT EligibleAreVerified
