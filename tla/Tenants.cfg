SPECIFICATION FairSpec
CONSTANTS
  k1 = k1
  k2 = k2
  s1 = s1
  s2 = s2
  s3 = s3
  c1 = c1
INVARIANTS NothingStrays AnswerIsWhole
PROPERTIES AnswersAreRight StreamsSettle ServerSettles
CHECK_DEADLOCK FALSE
