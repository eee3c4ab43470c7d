SPECIFICATION Spec
CONSTANTS
  Capacity = 1
  NoItem = NoItem
  Items <- MCItems
  Partitions <- MCPartitions
  Clients = {"c1", "c2"}
  Local = "local"
  Scripts <- MCScripts
  Segment = 3
  ChunkMax = 3
  BufferSize = 4
  MaxClients = 2
CHECK_DEADLOCK FALSE
INVARIANTS
  RingsSafe
  DeliveredOnceInOrder
  BroadcastsAgree
PROPERTIES
  EverythingArrives
