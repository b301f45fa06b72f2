\* Three requests of any kind for two versions, two uplinks, of two and of
\* one revision.
CONSTANTS
    Request = {r1, r2, r3}
    Version = {1, 2}
    near = near
    far = far
    Uplink = {near, far}
    Proxies <- InOrder
    Ops <- Everything
    AllowOffline = FALSE
    MaxEtag <- TwoAndOne
    Local = Local
    None = None
SPECIFICATION Spec
SYMMETRY Alike
INVARIANTS
    LatestResolves
    EtagMeansMerged
    SameSource
    PublishSurvivesFetch
