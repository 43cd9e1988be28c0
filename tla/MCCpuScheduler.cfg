SPECIFICATION Spec
CONSTANTS
    n = 4
    Quanta <- SomeQuanta
    Inputs <- SomeInputs
INVARIANTS SameOutput EveryProcessOnce BoundedWait
CHECK_DEADLOCK FALSE
