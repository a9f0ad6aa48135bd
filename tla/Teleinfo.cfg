\* Frames of the meter through losses, read-ahead and late reading.
SPECIFICATION Spec
CONSTANTS
    NbGroupes = 2
    Capacite = 5
    MaxTrames = 3
    MaxPertes = 3
INVARIANTS TypeOK TrameEntiere CleJuste
PROPERTY TramesNouvelles
CHECK_DEADLOCK FALSE
