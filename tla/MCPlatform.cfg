CONSTANTS
  Proc = {p0,p1,p2}
  Root = p0
  Init1 = Init1
  WriteBound = 1
  Artifact = {a1,a2}
  Deliverer = {d1}
  Nothing = Nothing
  Versions = 2
  Clock = 2
  Grace = 0
  AgeMax = 1
  CountMax = 1
  BytesMax = 2
  CacheItems = 1
  StreamMax = 9
  MarkerLen = 2
  Wide = {2,3,5}
  SoftMax = 2
  PreviewBytes = 2
  PreviewMin = 2
  OldJob = {j1,j2}
  Flow = {w1,w2}
  HistoryClock = 2
  JobAge = 1
  JobCount = 1
  JobBytes = 1
  FlowAge = 1
  FlowCount = 1
  OrphanGrace = 1
  Starter = {s1,s2}
  Release = {1,2}
  NoRelease = NoRelease
  CheckInterval = 2
  Hours = 3
  MaxCommits = 4
  MaxVersion = 6
  TextMax = 5
  NeedleMax = 3
  ChunkChars = 2
  Source = {f1,f2}
  Package = {k1,k2}
  EditMax = 2
  PermitMax = 2
  MaxFrame = 2
  MaxDepth = 1
  WireLen = 5
  ProbeLen = 5
  DrainMax = 1
  StderrLen = 2
  WritesMax = 1
  NoteMax = 2
  PushMax = 5
SPECIFICATION PlatformSpec
SYMMETRY PlatformSymmetry
CHECK_DEADLOCK FALSE
INVARIANTS
    
    DeliverySound
    
    
    StdioSound

    
