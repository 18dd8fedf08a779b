\* Thresholds for all and for each address, two of which share a bucket, and two switches of the secret.
SPECIFICATION CookiesSpec
CONSTANTS
    Hosts = {1, 2}
    Bucket <- OneBucket
    Buckets = 1
    Modulus = 64
    Lifetime = 1
    CalmdownDelay = 2
    SecretSwitch = 1
    Global = TRUE
    PerIp = TRUE
    RngFails = FALSE
    Start = 3
    MaxOffset = 1
    MaxTime = 7
CHECK_DEADLOCK FALSE
INVARIANTS CookieValidity RequiredUntilCalm
