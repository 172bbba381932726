SPECIFICATION FairSpec
CONSTANTS
  Callers = {approve, worker}
  Pings = {health}
  Threshold = 3
  Cooldown = 2
  MaxAttempts = 2
  approve = approve
  worker = worker
  health = health
INVARIANT TypeOK
INVARIANT StateFitsCount
PROPERTY HealthyNeverCounts
PROPERTY OpenCoolsDown
PROPERTY UpIsAdmitted
PROPERTY DownIsShutOff
