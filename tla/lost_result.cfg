SPECIFICATION Spec
CONSTANTS
  N = 2
  Workers = {w1}
  Capacity = 2
  MaxAdmin = 1
  MaxAccepts = 2
  MaxJobs = 2
  MaxAttempts = 1
  NumPhases = 0
  MaxNet = 1
  Faults = {"deepagent_restart"}
PROPERTY CompletedStays
