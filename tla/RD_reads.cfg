CONSTANTS
  Id = {1, 2, 3, 4}
  ActionOf <- MCActionOf
  ActorOf <- MCActorOf
  Asked <- MCAsked
  DefaultSize = 1
  MaxSize = 2
  AskedWindow = {0, 5}
  DefaultWindow = 1
  MaxWindow = 2
  MaxClock = 3
SPECIFICATION Spec
CHECK_DEADLOCK FALSE
INVARIANTS
  IInv
  UntouchedIsListed
  SummaryAddsUp
