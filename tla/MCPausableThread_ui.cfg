CONSTANTS
  Client = {ui}
  MaxWork = 2
SPECIFICATION FairSpec
INVARIANTS PausingThreadIsIdle AwaitedThreadIsIdle
PROPERTIES PauseTakesEffect AwaitReturns WorkGetsDone InterruptEndsThread
CHECK_DEADLOCK FALSE
