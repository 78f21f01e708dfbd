CONSTANTS
    Users = {alice, bob}
    MaxFiles = 2
    MaxVCs = 2
    MaxShown = 2
    Clients <- MCClients
    None = None
SPECIFICATION Spec
INVARIANTS BodyIsDecrypted
CHECK_DEADLOCK FALSE
