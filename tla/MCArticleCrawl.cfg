SPECIFICATION Spec
CONSTANTS
    a1 = a1
    a2 = a2
    a3 = a3
    b1 = b1
    d1 = d1
    oA = oA
    oB = oB
    oD = oD
    hA = hA
    hA2 = hA2
    hB = hB
    hD = hD
    Pages <- MC_Pages
    Unusable = Unusable
    Malformed = Malformed
    Origins <- MC_Origins
    OriginOf <- MC_OriginOf
    Hosts <- MC_Hosts
    HostOf <- MC_HostOf
    Secure <- MC_Secure
    Profiles <- MC_Profiles
    MaxRedirects = 2
    MaxCrawls = 2
    MaxClears = 1
INVARIANTS
    TypeOK
    RobotsRespected
    CacheIsFaithful
    ItemsStayInSource
    TrafficIsBounded
    ErrorsTellTheCause
PROPERTIES
    EveryCrawlEnds
\* The crawler rests when nobody calls crawl() again.
CHECK_DEADLOCK FALSE
