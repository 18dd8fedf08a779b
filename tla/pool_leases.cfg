\* IKE_SAs request, share, renew and release addresses of a pool that is loaded and unloaded.
SPECIFICATION Spec
CONSTANTS
    Sessions = {s1, s2, s3}
    s1 = s1
    s2 = s2
    s3 = s3
    s4 = s4
    alice = alice
    bob = bob
    p1 = p1
    p2 = p2
    p3 = p3
    NoPeer = NoPeer
    Id <- ReauthId
    Peer <- ReauthPeer
    PoolSizes <- TwoPools
    MaxUnused = 1
    InPlace = 3
    Requests <- AnyOrFirst
INVARIANTS LeasesSound
PROPERTIES FailsWhenFull
