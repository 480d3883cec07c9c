CONSTANTS
  w1 = w1  w2 = w2  c1 = c1  c2 = c2  r1 = r1  r2 = r2
  Nobody = Nobody
  NoRelease = NoRelease
  Releases <- OneRelease
  Workers <- TwoWorkers
  Daemons <- OneWorker
  Callers <- TwoCallers
  MaxJobs = 2
  MaxRequeues = 0
  MaxCrashes = 0
  RecoveryWired = FALSE
SPECIFICATION Spec
PROPERTY GrabIsIdempotent
