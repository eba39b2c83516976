SPECIFICATION Spec
CONSTANTS
  Datagram = 2
  BurstDatagrams = 2
  BurstTicks = 1
  QuantumTicks = 1
  Rates = {0, 1, 3}
  QueueCapacity <- MCQueueCapacity
INVARIANT NothingStranded
INVARIANT PriorityIsBounded
