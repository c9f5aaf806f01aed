SPECIFICATION FairSpec
CONSTANTS
  MaxDuration = 5
  MaxJitter = 5
  Policies <- AllPolicies
  Methods = {"GET", "POST"}
  Answers <- AllAnswers
INVARIANTS WholeBody BufferWithinLimit CallIsBounded
PROPERTIES KeepsTheCallContract RetriesExactlyTransient RetryAfterHonoured BackoffIsExponential
