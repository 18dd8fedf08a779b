\* Rekeyings of both peers, twice, collide with each other and with deletes; one fails.
SPECIFICATION Spec
CONSTANTS
    Peers = {p1, p2}
    Rekeyers = {p1, p2}
    MaxRekeys = 2
    MaxDeletes = 2
    MaxFailures = 1
    Failures = {"refused", "not_installed", "invalid_ke", "local", "local_loser"}
    DelayDestroy = TRUE
    Early = {}
SYMMETRY PeerSymmetry
CHECK_DEADLOCK FALSE
INVARIANTS NothingDangles Converged Seamless
