SPECIFICATION MCSpec
CONSTANTS
    Requests = {r1, r2}
    MaxConns = 2
    Nobody = Nobody
    Handlers = {h1, h2}
    Addrs = {a1, a2}
    NoClient = NoClient
INVARIANTS
    RequestTableExact
    ServerClientsExact
PROPERTIES
    
    ServerGoesOn
CHECK_DEADLOCK FALSE
