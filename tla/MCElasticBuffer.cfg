SPECIFICATION FairSpec
CONSTANTS
    zero = zero
    w1 = w1
    w2 = w2
    w3 = w3
    Data <- MCData
    Zero = zero
INVARIANTS
    OldestOffered
    DisabledIsEmpty
PROPERTIES
    ImplementsFifo
    TicksAsQueue
    ReadyReturns
