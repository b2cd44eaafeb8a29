\* Two slots lapped several times by distinguishable records; the bound on
\* attempts is where the producer stops, so the ring may come to rest.
CONSTANTS
  Records = {a, b, z}
  Zero = z
  Capacity = 2
  MaxAttempts = 8
SPECIFICATION Spec
INVARIANTS NoSlotRace PopsInOrder
PROPERTIES ImplementsQueue
CHECK_DEADLOCK FALSE
