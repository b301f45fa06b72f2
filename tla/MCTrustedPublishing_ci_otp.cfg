\* One job, one entry, every mode of its user and policy that lets a job publish.
CONSTANTS
    ci = ci
    maintainer = maintainer
    package = package
    Job = {ci}
    Jobs <- JobSet
    Registries <- RegistrySet
    NoAudience = NoAudience
    MaxKeyErrors = 0
    MaxRowErrors = 0
SPECIFICATION TrustSpec
INVARIANTS
    CiNeedsNoOtp
CHECK_DEADLOCK FALSE
