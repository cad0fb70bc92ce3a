\* A card order whose payment succeeds while the staff work on it.
SPECIFICATION FairSpec
CONSTANTS
    Procs = {p1}
    Methods = {"yookassa_card"}
    Hooks = {h1}
    Forms = {}
    Staff = {}
    Mids = {}
    NoOne = NoOne
    NoProc = NoProc
    ClientUid = FALSE
    MaxAnswers = 0
PROPERTIES
    StatusGraph
