\* Two executions of two steps, the second of which mutates; two jobs with
\* queue deadlines compete for one running slot, one process fails.
CONSTANTS
    StepCount = 2
    Run = {x1, x2}
    NoRun = NoRun
    Mutating = {1}
    Retried = {0}
    Intent = {0}
    RetryMax = 1
    NoWorker = NoWorker
    Job = {j1, j2}
    Nested = {}
    Deadlined = {j1, j2}
    MaxRunning = 1
    Launches = 2
    MaxFault = 1
SPECIFICATION ServicesSpec
SYMMETRY Interchangeable
CHECK_DEADLOCK FALSE
INVARIANTS
    SequentialSound
    JobsSound
