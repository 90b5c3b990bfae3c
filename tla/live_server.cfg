SPECIFICATION LiveFairSpec
CONSTANTS
    Pages <- MCPages
    Keys = {"order"}
    Orders = {"order"}
    TradesKept = 2
    MaxEvents = 2
    MaxConnections <- MCMaxConnections
INVARIANTS
    PageWillBeCurrent
    TradesReachPage
PROPERTIES
    PagesCatchUp
