SPECIFICATION Spec
CONSTANTS
    zero = zero
    w1 = w1
    Data <- MCData
    Zero = zero
    DEPTH = 3
INVARIANTS
    TypeOK
    PointersAgree
PROPERTIES
    ImplementsFifo
