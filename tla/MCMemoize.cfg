\* Five evaluations over three frames: far from the end of the index.
CONSTANTS
    Arg = {1, 2}
    MpMod = 256
    MissLimit = 5
    NFrame = 3
    NoSnap = NoSnap
    None = None
SPECIFICATION Spec
INVARIANTS
    SavedValuesRemembered
    NoStaleAnswers
