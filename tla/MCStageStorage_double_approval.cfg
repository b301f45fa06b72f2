SPECIFICATION Spec
CONSTANTS
    Request = {r1, r2, r3}
    Version = {1}
    Ops <- AnyOps
    Fault = {}
    MaxFaults = 1
SYMMETRY Interchangeable
INVARIANTS DroppedOncePublished
