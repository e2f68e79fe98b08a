SPECIFICATION Spec
CONSTANTS
  MaxQueue = 2
  Producers = {refresh}
  Callbacks = {cb}
  NoCallback = NoCallback
  Filter <- SomeFilter
  Kinds <- SomeKinds
  MaxEvents = 5
CHECK_DEADLOCK FALSE
INVARIANTS NothingLostSilently CallbackInOrder
PROPERTIES QuietAfterClose ImplementsFifo
