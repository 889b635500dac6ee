SPECIFICATION Spec
CONSTANTS
    Streams = {s1}
    Slots = {r1, r2}
    Egresses = {e1, e2}
    NoEgress = NoEgress
CHECK_DEADLOCK FALSE
ACTION_CONSTRAINT WithinLastTake
SYMMETRY Symmetry
INVARIANTS LiveConsistent
PROPERTIES FollowsSchedule
