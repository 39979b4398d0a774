SPECIFICATION Spec
CONSTANTS
    Outputs = {o1, o2, o3}
    Masters = {a, b}
    Cues = {silence, c, d}
    Silence = silence
    Last = 2
    MaxOpens = 4
SYMMETRY Symmetry
INVARIANTS
    TypeOK
    OneOwner
    CueIsHeard
PROPERTIES
    FramesAreWhole
