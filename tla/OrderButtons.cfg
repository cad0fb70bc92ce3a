\* A cash order that two members of the staff work on in MAX and the admin list.
SPECIFICATION Spec
CONSTANTS
    Procs = {p1}
    Methods = {"cash", "sbp_transfer"}
    Hooks = {h1}
    Forms = {}
    Staff = {u1, u2}
    Mids = {u1}
    NoOne = NoOne
    NoProc = NoProc
    ClientUid = TRUE
    MaxAnswers = 2
INVARIANTS
    NobodyIsAhead
PROPERTIES
    StatusGraph
