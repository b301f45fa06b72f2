\* Two reads of a package of one version, whose first uplink may deprecate it.
CONSTANTS
    Request = {r1, r2}
    Version = {1}
    near = near
    far = far
    Uplink = {near, far}
    Proxies <- InOrder
    Ops <- Reads
    AllowOffline = FALSE
    MaxEtag <- TwoAndOne
    Local = Local
    None = None
SPECIFICATION Spec
SYMMETRY Alike
INVARIANTS
    DeprecationRefreshed
