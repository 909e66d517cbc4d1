SPECIFICATION Spec
CONSTANTS
  Op = {1, 2}
  Exec = {x1}
  Deps <- NoDeps
  Clash <- ReadersShare
  Effectful = {1}
  Transient = {2}
  Flaky = {2}
  Contended = {}
  Spawning = {}
  MaxRetries = 1
  Parallel = 2
  Attempts = 2
  MaxCrash = 0
  MaxExpire = 0
  MaxResume = 0
  NoExec = NoExec
  NoAttempt = NoAttempt
INVARIANTS NeverAbandoned
CHECK_DEADLOCK FALSE
SYMMETRY Symmetry
