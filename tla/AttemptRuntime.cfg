SPECIFICATION AttemptSpec
CONSTANTS
    repoA = repoA
    repoB = repoB
    other = other
    p = p
    repository = repository
    product = product
    Leases = {repoA, repoB, other}
    Owners = {attempt, rival}
    attempt = attempt
    rival = rival
    Hosts = {h1, h2}
    OwnerOf <- MCOwnerOf
    Workspace <- MCWorkspace
    Resources <- MCResources
    Bindings = {p}
    Requests = {p}
    LeasesOf <- MCLeasesOf
    Unbound = Unbound
    Ttl = 1
    RenewTtl = 2
    MaxTime = 1
    MaxCrashes = 1
INVARIANTS TreeIsGuarded AttemptFinalityIsSound
PROPERTY SessionsAreFinalised
CHECK_DEADLOCK FALSE
