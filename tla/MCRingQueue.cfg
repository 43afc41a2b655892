\* Four slots and three distinguishable packets: every fill level and every
\* position of the wrap.
SPECIFICATION Spec
CONSTANTS
    Item = {p1, p2, p3}
    Zero = zero
    None = none
    QueueLen = 4
INVARIANTS
    TypeOK
    IndicesAgree
    OnlyFilledSlots
    LentSlotIntact
PROPERTY
    ImplementsFifo
