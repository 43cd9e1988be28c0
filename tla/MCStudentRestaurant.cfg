SPECIFICATION SSpec
CONSTANTS
    c1 = c1  c2 = c2  c3 = c3  cookC = cookC  cookD = cookD
    None = None
    Cooks <- BothCooks
    Customers <- ThreeCustomers
    NumWaiters = 2
    NumTables = 2
SYMMETRY Anybody
INVARIANTS CallsCoverDuties WaitsInVainExplained
PROPERTY ServesUntilRemoved
CHECK_DEADLOCK FALSE
