CONSTANTS
    Years = {y1, y2}
    Terms = {1, 2, 3}
    Requests = {r1, r2}
    Students = {s1, s2}
    Classes = {c1}
    Typed = {2}
    MaxStarted = 4
    None = None
SYMMETRY Symmetry
SPECIFICATION RecordsSpec
INVARIANTS
    OneYearAtATime
    NumbersApart
    OneCurrentRecord
PROPERTY
    FrozenYearTakesNone
