CONSTANTS
    t1 = t1
    t2 = t2
    s1 = s1
    c1 = c1
    c2 = c2
    Exams = {e1, e2}
    RowIds = {i1, i2, i3, i4}
    Classes = {c1, c2}
    Teachers = {t1, t2}
    Rooms = {h1}
    Requests = {r1, r2, r3}
    Subjects = {1, 2}
    TeacherOf <- MCTeacherOf
    MaxSlot = 2
    Sends = {{"slot"}, {"teacher"}, {"room"}}
    None = None
    Students = {s1}
    SeatIds = {k1}
    ClassOf <- MCClassOf
    Capacities = {1}
    Capacity <- MCCapacity
    Plans = {1, 2, 3}
    Days = {0, 1}
    Mappings <- MCMappings
    Timings <- MCTimings
    HandTimes <- MCHandTimes
    HandEntries <- MCHandEntries
    MaxStarted = 3
SYMMETRY Symmetry
SPECIFICATION TimetablesSpec
INVARIANTS
    
    
    PublishedIsComplete
    TeachersApart
    DayIsFilled
PROPERTIES
    LockedRowKept
CHECK_DEADLOCK FALSE
