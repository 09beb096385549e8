SPECIFICATION Spec
CONSTANTS
    Peers = {alice, bob}
    Codecs = {vp8, h264}
    Audio = {}
    Wanted <- MCWanted
    MaxTrs = 2
    MaxDrafts = 3
    MaxEdits = 1
SYMMETRY MCSymmetry
CHECK_DEADLOCK FALSE
INVARIANTS LiveMidsUnique AnswerFitsOffer DirectionsAgree
PROPERTY AnswerIsObeyed
