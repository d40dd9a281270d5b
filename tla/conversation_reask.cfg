CONSTANTS
  Handlers = {h1}
  Places = {jabi, banex}
  NoPlace = NoPlace
  Answers = 2
  MaxMessages = 5
  Reliable = TRUE
SPECIFICATION Spec
INVARIANT RoutesToLastAsked
CHECK_DEADLOCK FALSE
