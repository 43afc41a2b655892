\* Two producers, three times through a queue of two nodes: a producer that is
\* overtaken by a whole round is among the behaviours.
SPECIFICATION FairSpec
CONSTANTS
    Producers = {p, q}
    Item = {x, y}
    NoItem = none
    Capacity = 2
    MaxPush = 5
INVARIANTS
    TypeOK
    NoTornItem
    PeekedIsNext
PROPERTIES
    ImplementsFifo
    RefusedWhenFull
    PushedIsPopped
\* Nothing happens once all is popped and nobody pushes.
CHECK_DEADLOCK FALSE
