SPECIFICATION FairSpec
CONSTANTS
  Op = {1, 2}
  Exec = {x1, x2}
  Deps <- NoDeps
  Clash <- ReadersShare
  Effectful = {1}
  Transient = {2}
  Flaky = {2}
  Contended = {2}
  Spawning = {}
  MaxRetries = 1
  Parallel = 2
  Attempts = 2
  MaxCrash = 1
  MaxExpire = 0
  MaxResume = 0
  NoExec = NoExec
  NoAttempt = NoAttempt
CHECK_DEADLOCK FALSE

    
PROPERTIES
    ComesToRest
