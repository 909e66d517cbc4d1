\* Three requests and two permits under two policies, full tables at two rows;
\* two callers of two browser sessions, one of which may be open at a time.
CONSTANTS
    r1 = r1
    r2 = r2
    r3 = r3
    Request = {r1, r2, r3}
    Permit = {p1, p2}
    Policy = {q1, q2}
    Kind <- MCKind
    Part <- MCPart
    Claims <- MCClaims
    Limit = 1
    MaxRecords = 2
    MaxTicket = 4
    NoParent = NoParent
    Sid = {s1, s2}
    PoolKey = {chrome}
    Caller = {t1, t2}
    Loop = loop
    Free = Free
    NoSid = NoSid
    SessionMax = 1
    PoolMax = 1
SPECIFICATION CapacitySpec
SYMMETRY Interchangeable
CHECK_DEADLOCK FALSE
INVARIANTS
    HeldCompatible
    SomeoneAdmissible
    ChildrenFenced
    CapacityBound
    
PROPERTIES
    ImplementsFence
