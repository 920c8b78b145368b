\* Two requests for the signed license, activations and releases meanwhile.
CONSTANTS
    r1 = r1
    r2 = r2
    c1 = c1
    c2 = c2
    NoClient = NoClient
    Requests = {r1, r2}
    Clients = {c1, c2}
    MaxActs = 2
    MaxCached = 2
    BindingRequired = FALSE

SPECIFICATION SignedSpec

SYMMETRY Symm

INVARIANTS
    BoundToRequester
    ReleaseEndsBinding
    BindingIsRecent

CHECK_DEADLOCK FALSE
