\* Two threads and two paths; patches of two files;
\* two processes; three searches; two batches; texts of five characters;
\* diffs of three lines.
CONSTANTS
    s1 = s1
    s2 = s2
    s3 = s3
    Thread = {t1, t2}
    Key = {1, 2}
    Object = {o1, o2}
    NoThread = NoThread
    NoLock = NoLock
    Outside = Outside
    MaxOutside = 1
    Absent = Absent
    NoCall = NoCall
    Calls <- Asked
    Path = {a, b, c}
    NoPath = NoPath
    MaxItems = 2
    OddHeaders = FALSE
    NoText = NoText
    Process = {p, q}
    Editing = {p}
    NoProcess = NoProcess
    MaxBackups = 3
    MaxCount = 2
    MaxKills = 1
    Searcher = {s1, s2, s3}
    Rows <- Found
    MaxFiles = 2
    MaxBytes = 5
    Ttl = 2
    MaxNow = 3
    PageSize = {1, 2}
    Batch = {b1, b2}
    MaxBatches = 2
    ReadSlots = 1
    MaxLives = 1
    MaxWrites = 1
    MaxText = 5
    MaxLine = 3
    Chunk = 3
    MaxChars = {1, 2}
    Line = {"x", "y"}
    MaxDiff = 3
SPECIFICATION FilesSpec
SYMMETRY Interchangeable
CHECK_DEADLOCK FALSE
INVARIANTS
    
    
    RetentionSound
    
PROPERTIES
    FileSteps
