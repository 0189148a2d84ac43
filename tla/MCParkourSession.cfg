\* Countdowns of two seconds; three runs in two visits.  A behaviour may end: the
\* player has left for good when the clock stops.
CONSTANTS
    Plate = {a, b}
    Seconds = 2
    MaxSessions = 3
    MaxVisits = 2
    MaxTime = 7
SPECIFICATION Spec
SYMMETRY Symmetric
INVARIANTS
    CountdownGoesOn
    NoTraceOfRun
PROPERTIES
    CountdownIsWhole
    RecordedTimeIsRun
CHECK_DEADLOCK FALSE
