SPECIFICATION FairSpec
CONSTANTS
  N = 1
  Workers = {w1}
  Capacity = 1
  MaxAdmin = 1
  MaxAccepts = 2
  MaxJobs = 1
  MaxAttempts = 1
  NumPhases = 2
  MaxNet = 2
  Faults = {"post_lost", "post_rejected", "refused", "reply_lost", "get_terminal", "graph_error", "callback_lost", "status_lost", "deepagent_restart", "server_crash", "admin"}
INVARIANT
  AcceptedOnce
PROPERTIES
  PhaseNeverRegresses
  EndsUnlessGivenUp
