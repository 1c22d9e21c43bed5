SPECIFICATION Spec
CONSTANTS
    Clients = {local, c1}
    LocalClient = local
    BUFFSIZE = 1
    MaxOutput = 1
    Faults = {}
INVARIANTS
    FreedNodesIdle
