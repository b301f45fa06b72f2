SPECIFICATION Spec
CONSTANTS
    Request = {r1, r2}
    Version = {1}
    Blob = {x, y}
    Tag = {latest, next}
    Latest = latest
    None = none
    Ops <- PublishOps
    Serialised = FALSE
    Fault = {}
    MaxFaults = 0
SYMMETRY Interchangeable
INVARIANTS IntegrityDescribesBytes
