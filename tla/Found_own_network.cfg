SPECIFICATION Spec
CONSTANTS
    r0 = r0
    r1 = r1
    r2 = r2
    a = a
    b = b
    c = c
    s = s
    t = t
    Zero = Zero
    Root = r0
    Infinity = 20
    Routers <- AllRouters
    Networks <- AllNetworks
    Attached <- OurNetworks
    OurDR <- OnlyA
    Wired <- OurWires
    RouterLSAs <- MCRouterLSAs
    NetworkLSAs <- MCNetworkLSAs
    SummaryLSAs <- MCSummaryLSAs
    Databases <- DRDatabases
INVARIANT AttachedReached
CHECK_DEADLOCK FALSE
