SPECIFICATION SSpec
CONSTANTS
    v1 = v1  v2 = v2  v3 = v3  none = none  main = main
    NoVisitor <- none
    Main <- main
    NumBoats = 2
    Visitors <- ThreeVisitors
SYMMETRY AnyVisitor
INVARIANT SBookingStable
PROPERTY SImplementsRideService
CHECK_DEADLOCK FALSE
