\* One connection that asks again and again, three credential versions.
SPECIFICATION FairBrokerSpec
CONSTANTS
  Connections = {q1}
  Slots = {k1, k2}
  NoSlot = NoSlot
  MaxVersion = 3
  MaxOutages = 2
INVARIANTS Lending
PROPERTIES KeepsServing
CHECK_DEADLOCK FALSE
