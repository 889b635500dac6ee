SPECIFICATION FairSpec
CONSTANTS
    Streams = {s1}
    Slots = {r1, r2}
    Egresses = {}
    NoEgress = NoEgress
CHECK_DEADLOCK FALSE
PROPERTIES OverdueLeaves
