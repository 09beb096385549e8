SPECIFICATION Spec
CONSTANTS
    MAX_ACTIVE_SSRCS = 2
    SeqMod = 8
    Roles = {"client"}
    RemoteMedias <- MCRemoteMedias
    Packets = {6, 7, 8, 9, 10, 11, 12}
    FirstPackets = {6}
    Reach = 3
    MaxAccepted = 5
    Noise <- MCNoise
INVARIANTS AdmissionBounded CountsAreTrue DeliveredWasSent
PROPERTIES ForgeryInert NoPliWithoutLoss
