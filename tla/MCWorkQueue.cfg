CONSTANTS
    t1 = t1
    t2 = t2
    t3 = t3
    i1 = i1
    i2 = i2
    NoItem = NoItem
    Threads <- MCThreads
    Items <- MCItems
    Capacity = 2
    MaxTickets = 5
SPECIFICATION Spec
SYMMETRY Symmetry
INVARIANTS
    TypeOK
    CellExclusive
    Fifo
    Bounded
