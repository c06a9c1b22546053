SPECIFICATION FairSpec
CONSTANTS
    Clients = {c1, c2}
    None = None
    WakeSize = 1
    ReqSize = 1
    Hindrances = {"failure", "limit"}
INVARIANTS NoRequestForgotten
PROPERTIES RequestsAnswered EverythingSynced ResumeCatchesUp ImplementsServing
