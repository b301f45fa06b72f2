SPECIFICATION OverlapSpec
CONSTANTS
    Request = {r1, r2}
    Version = {1, 2}
    Blob = {x}
    Tag = {latest, next}
    Latest = latest
    None = none
    Ops <- AnyOps
    Serialised = FALSE
    Fault = {"error", "lost", "reject", "timeout", "crash"}
    MaxFaults = 1
INVARIANTS HandlerMutex FolderHoldsFiles EmptyOnlyWhileCreating
PROPERTIES EveryRequestAnswered
