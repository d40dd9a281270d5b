CONSTANTS
  Handlers = {h1, h2}
  Places = {jabi}
  NoPlace = NoPlace
  Answers = 1
  MaxMessages = 4
  Reliable = FALSE
  Script <- Message
  Taps <- MCTaps
  Cooldown = 1
SPECIFICATION IntakeSpec
INVARIANTS
  TypeOK
  ModesExclusive
  OneReply
  NeverStuck
  CancelledStaysCancelled
  FiledOnce
  AnswersKept
  RetapsAreHarmless
  CancelHeededIfServed
SYMMETRY MCSymmetry
CHECK_DEADLOCK FALSE
