\* A linked player and one that is not, a proxy and a whitelisted address.  Two
\* attempts (the code has maxRetries = 1, a number of attempts), so that the retry
\* happens.  Windows end, and others follow them.
CONSTANTS
    Conn = {"linked", "unknown"}
    Address = {"proxy", "clean", "isp"}
    Whitelist = {"isp"}
    Proxy = {"proxy"}
    Linked = {"linked"}
    MaxRetries = 2
    Ttl = 2
    DefaultTTL = 2
    MaxTime = 3
    BanTime = 0

SPECIFICATION MCSpec

CHECK_DEADLOCK FALSE

INVARIANTS
    ProxiesKeptOut
    BanHolds

PROPERTIES
    WindowRespected
