SPECIFICATION RiskedFairSpec
CONSTANTS
    Kinds = {"crypto", "xtp", "ctp"}
    Streamed <- MCStreamed
    MaxOrders = 2
    Requests <- MCRequests
    MaxUnits = 3
    MaxOrderVolume = 3
INVARIANTS
    NoLiveOrderForgotten
    CancelledIsCancelled
    CapHoldsOneByOne
PROPERTIES
    TicksFlowIfAllTick
