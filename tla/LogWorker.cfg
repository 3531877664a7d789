SPECIFICATION Spec
CONSTANTS
    Capacity = 2
    MaxAdds = 6
    MaxFiles = 2
    PauseOnFull = FALSE
INVARIANTS EachToItsFile
PROPERTIES ImplementsLogFifo PauseReturns
CHECK_DEADLOCK FALSE
