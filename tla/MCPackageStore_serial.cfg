SPECIFICATION ThirdSpec
CONSTANTS
    Request = {r1, r2, r3}
    Version = {1, 2, 3}
    Blob = {x, y}
    Tag = {latest, next}
    Latest = latest
    None = none
    Ops <- ThirdComes
    Serialised = TRUE
    Fault = {"error", "reject", "crash"}
    MaxFaults = 1
SYMMETRY Interchangeable
INVARIANTS AckedStays ServedIsInstallable TagsResolve
PROPERTIES ServesAtOnce RemovedIsGone
