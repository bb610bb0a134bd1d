SPECIFICATION Spec
CONSTANTS
  App = {"a", "b"}
  Starter = {"s"}
  MAX_WINDOW_CNT = 3
  MSG_BUF_SIZE = 2
  Buttons = {0, 1}
  MaxEvents = 4
INVARIANTS WindowList
PROPERTIES QueueIsFifo CloseAnswered
CHECK_DEADLOCK FALSE
