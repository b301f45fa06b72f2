SPECIFICATION StagedSpec
CONSTANTS
    Request = {r1, r2, r3}
    Version = {1, 2}
    Ops <- AnyOps
    Fault = {"error", "timeout", "crash"}
    MaxFaults = 1
INVARIANTS StagedStays IndexIsSound NothingLeftBehind
PROPERTIES EveryRequestAnswered
