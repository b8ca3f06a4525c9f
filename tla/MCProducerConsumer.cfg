\* Four threads, two slots, six items.
CONSTANTS
  Producers = {p1, p2}
  Consumers = {c1, c2}
  NoThread = NoThread
  Items = {a, b}
  Size = 2
  Produced = 3
  Consumed = 3
SPECIFICATION Spec
INVARIANT NoLostWakeup
PROPERTY ImplementsFIFO
PROPERTY DemonstrationCompletes
