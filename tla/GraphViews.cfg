CONSTANTS
    Starts <- StartGraphs
    Graphs <- ShownGraphs
    Filters = {"USER"}
    NoFilter = NoFilter
    Compute <- MCCompute
    Asks <- MCAsks
    Modes = {"full"}
    Clusters = {"none"}
    Ends = {u, g2}
    KeyLinks = 20
    NoGraph = NoGraph NoView = NoView NoAsk = NoAsk Pending = Pending Failed = Failed
    NoId = NoId
    MaxVisits = 2 MaxRequests = 3 MaxTrail = 1 MaxTraversals = 1
    DepthLimit = 10 NearbyLimit = 5 OverviewLimit = 120
    PageLimit = 3 ExportLimit = 12
    NestingLimit = 8 PathLimit = 8 DeepestSearch = 12 MostPaths = 200
    u = u g1 = g1 g2 = g2 g3 = g3 lu = lu lg = lg sp = sp h = h h2 = h2
    role = role perm = perm app = app db = db bs = bs
SPECIFICATION Spec
CONSTRAINT Explored
INVARIANTS
    AnswersFollowTheGraph
    LatestLoadWins
    TraversalsAreFresh
    ViewsAgree
CHECK_DEADLOCK FALSE
