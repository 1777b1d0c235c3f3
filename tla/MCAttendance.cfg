CONSTANTS
    Assignments = {x1, x2}
    Applications = {a1, a2}
    Days = {1, 2}
    Requests = {r1, r2}
    MaxStarted = 5
    MaxTasks = 4
    Calendars = {{}, {1}}
    None = None
    Sessions = {"MORNING", "AFTERNOON"}
    Marks = {"PRESENT", "ABSENT"}
    Taps = {480, 601}
    Timing <- MCTiming
SYMMETRY Symmetry
SPECIFICATION AttendanceSpec
INVARIANTS
    UsedDaysMatchApprovals
    BalanceNotExceeded
    TapIsOnRecord
    LeaveIsOnRecord
    AuditTellsHistory
