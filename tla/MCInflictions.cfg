\* Two members of staff, two inflictions of any type, timed mutes that end at 1,
\* one retry, and a parkour course.
CONSTANTS
    Form = {f1, f2}
    Type = {"MUTED", "FROZEN", "BANNED"}
    Expiry = {1}
    MaxRetries = 1
    Courses = TRUE
    MaxSubmits = 2
    MaxVisits = 1
    MaxTime = 1

SPECIFICATION Spec

SYMMETRY FormSymmetry

CHECK_DEADLOCK FALSE

INVARIANTS
    SilencedForMute
    StuckForReason
