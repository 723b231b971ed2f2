SPECIFICATION Spec
CONSTANT MaxSequence = 4
INVARIANTS
    TypeOK
    SequenceNeverReturns
    TripFailsClosed
PROPERTY ImplementsLatch
