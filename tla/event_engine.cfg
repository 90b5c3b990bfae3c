SPECIFICATION FairSpec
CONSTANTS
    MaxStarts = 3
    MaxPuts = 3
INVARIANTS
    EachEventOnce
    DispatchedInOrder
    LateDispatchesAreFew
PROPERTIES
    EventsAreDispatched
    DispatchersEnd
