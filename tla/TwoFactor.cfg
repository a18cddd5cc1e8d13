\* Programs one after the other, killed or not, two methods and two sites, three challenges.
CONSTANTS
  Methods <- TwoMethods
  SkipOn = {"sms"}
  CredentialsOnly = FALSE
  StateDuration = 1
  TwofaDuration = 2
  Sites = {"main", "other"}
  MaxTime = 4
  MaxAsked = 3
SPECIFICATION Spec
INVARIANTS TypeOK CodeMeetsItsChallenge LoginOnlyIfNeeded
