SPECIFICATION FairSpec
CONSTANTS
  N = 1
  Workers = {w1}
  Capacity = 1
  MaxAdmin = 1
  MaxAccepts = 2
  MaxJobs = 1
  MaxAttempts = 3
  NumPhases = 0
  MaxNet = 1
  Faults = {"callback_lost"}
PROPERTY EventuallyEnds
