SPECIFICATION RetentionSpec
CONSTANTS
    a = a
    b = b
    p = p
    q = q
    x = x
    Run = {a, b}
    Package = {p, q, x}
    Version = {1, 2, 3}
    Tag = {latest, next}
    Latest = latest
    None = none
    Now = 3
    Setting <- AnySetting
    Excluded = {x}
    MaxRemovals = 2
    MaxErrors = 1
INVARIANTS TargetsStay TagsResolve ListedHasTarball LimitsHold
PROPERTIES SweepEnds
