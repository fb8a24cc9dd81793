SPECIFICATION ResidencyFairSpec
CONSTANTS
    Tracks = {t1}
    Takes = {k1}
    Decks = {d1}
    Scanners = {s1}
    None = None
    MaxLoads = 2
    MaxEdits = 1
    MaxUnplugs = 1
CHECK_DEADLOCK FALSE
PROPERTIES EvictsTheReleasable WorkerAddsNothing EverySampleAnalysed DeckGetsItsAudio
