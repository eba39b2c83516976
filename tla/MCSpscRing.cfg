\* Capacity 3 on counters of 9 values: both the ring and the counters wrap.
SPECIFICATION Spec
CONSTANTS
    N = 3
    CounterSpace = 9
    MaxPushes = 20
    None = None
INVARIANT SlotsHandedOver
INVARIANT NothingLeaks
PROPERTY IsBoundedQueue
CHECK_DEADLOCK FALSE
