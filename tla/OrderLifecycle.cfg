\* Loop handlers, the webhook and the admin form racing on one row.
SPECIFICATION FairSpec
CONSTANTS
    Procs = {p1}
    Methods = {"cash", "yookassa_card"}
    Hooks = {h1}
    Forms = {f1}
    Staff = {u1}
    Mids = {u1}
    NoOne = NoOne
    NoProc = NoProc
    ClientUid = FALSE
    MaxAnswers = 0
INVARIANTS
    TypeOK
PROPERTIES
    ConfirmationSurvives
    OffGraphExplained
    PaymentReachesOrder
