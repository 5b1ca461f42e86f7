CONSTANTS
    Calls = {c1, c2, c3}
    NoCall = NoCall
SPECIFICATION Spec
PROPERTY OrphanWorkerEnds
CHECK_DEADLOCK FALSE
