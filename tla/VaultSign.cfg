CONSTANTS
    Given <- MCGiven
    DefaultRetries = 3
SPECIFICATION FairSpec
INVARIANTS TypeOK RequestsPaced
PROPERTIES Returns ImplementsSigner
