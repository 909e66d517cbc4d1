SPECIFICATION Spec
CONSTANTS
  Op = {1, 2}
  Exec = {x1}
  Deps <- NoDeps
  Clash <- ReadersShare
  Effectful = {1}
  Transient = {2}
  Flaky = {}
  Contended = {}
  Spawning = {}
  MaxRetries = 1
  Parallel = 2
  Attempts = 3
  MaxCrash = 0
  MaxExpire = 0
  MaxResume = 0
  NoExec = NoExec
  NoAttempt = NoAttempt
INVARIANTS RetryBound
CHECK_DEADLOCK FALSE
SYMMETRY Symmetry
