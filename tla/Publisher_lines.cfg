SPECIFICATION PublisherSpec
CONSTANTS
  Clients = {d1, d2, d3}
  Slots = 4
  MaxLine = 2
CHECK_DEADLOCK FALSE
PROPERTIES OthersAreServed PublishEnds
