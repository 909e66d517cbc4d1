SPECIFICATION Spec
CONSTANTS
  Op = {1, 2}
  Exec = {x1, x2}
  Deps <- ChainDeps
  Clash <- OwnPaths
  Effectful = {1}
  Transient = {}
  Flaky = {}
  Contended = {}
  Spawning = {1}
  MaxRetries = 0
  Parallel = 2
  Attempts = 2
  MaxCrash = 0
  MaxExpire = 1
  MaxResume = 1
  NoExec = NoExec
  NoAttempt = NoAttempt
CHECK_DEADLOCK FALSE
SYMMETRY Symmetry
INVARIANTS
    AtMostOneDispatch
    DependenciesFirst
    NothingUnfenced
PROPERTIES
    FinalStays
