\* Three runs of the handlers.
CONSTANTS
    Students = {s1, s2}
    Rows = {m1}
    Requests = {r1, r2, r3}
    MaxMarks = 1
    Entry <- MCEntry
    NoRequest = NoRequest
    NoStudent = NoStudent
SYMMETRY Symmetry
SPECIFICATION Spec
INVARIANTS
    ResultFollowsAttendance
    CardAgreesWithPdf
PROPERTIES
    LockedIsFinal
CHECK_DEADLOCK FALSE
