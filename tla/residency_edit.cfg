SPECIFICATION ResidencySpec
CONSTANTS
    Tracks = {t1, t2}
    Takes = {k1}
    Decks = {d1}
    Scanners = {s1}
    None = None
    MaxLoads = 1
    MaxEdits = 1
    MaxUnplugs = 0
CHECK_DEADLOCK FALSE
PROPERTIES EvictsWhatTheFileHolds
