SPECIFICATION Spec
CONSTANTS
    Request = {r1, r2}
    Version = {1}
    Blob = {x}
    Tag = {latest, next}
    Latest = latest
    None = none
    Ops <- AnyOps
    Serialised = FALSE
    Fault = {}
    MaxFaults = 0
SYMMETRY Interchangeable
INVARIANTS LockReleased
