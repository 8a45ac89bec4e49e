CONSTANTS
    u1 = u1
    u2 = u2
    u3 = u3
    ka = ka
    kb = kb
    None = None
    Uploads = {u1, u2, u3}
    Keys = {ka, kb}
    KeyOf <- SomeKeys
    LenOf <- SomeLengths
    MaxBlocks = 2
    MaxCommitAttempts = 2
SPECIFICATION Spec
PROPERTY
    CommitStoresOwnBlocks
