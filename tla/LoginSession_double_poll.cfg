SPECIFICATION LoginSpec
CONSTANTS
    Guest = {g1, g2, g3}
    NoToken = none
    GuestKinds = {"poll", "password"}
INVARIANTS TokenHandedOnce
CHECK_DEADLOCK FALSE
