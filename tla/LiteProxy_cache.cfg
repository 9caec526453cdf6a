SPECIFICATION ProxyFairSpec
CONSTANTS
    c1 = c1
    s1 = s1
    s2 = s2
    salt1 = salt1
    salt2 = salt2
    salt3 = salt3
    Client = {c1}
    Self = {s1}
    Salt = {salt1, salt2, salt3}
    MaxVersion = 1
    MaxFaults = 1
PROPERTIES CacheStaysReadable CacheCatchesUp
