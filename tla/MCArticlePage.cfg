SPECIFICATION Spec
CONSTANTS
    NoUrl = NoUrl
    EmptyUrl = EmptyUrl
    p = p
    q = q
    other = other
    newsP = newsP
    newsQ = newsQ
    artP = artP
    artElse = artElse
    silent = silent
    unfinished = unfinished
    credited = credited
    odd = odd
    scalar = scalar
    graph = graph
    twice = twice
    full = full
    tooMany = tooMany
    high = high
    tooHigh = tooHigh
    Urls <- MC_Urls
    Approved <- MC_Approved
    Padded <- MC_Padded
    Values <- MC_Values
    Children <- MC_Children
    Article <- MC_Article
    MaxJsonNodes = 6
    MaxJsonDepth = 2
    MaxElements = 3
INVARIANTS
    TypeOK
    WalkIsPreorder
    RefusalsTellTheCause
    ItemIsTheOnlyOne
    TheArticleIsFound
\* parse_document returns.
CHECK_DEADLOCK FALSE
