SPECIFICATION FairSpec
CONSTANTS
  Callers = {c1, c2, c3, c4}
  Errors = {"channel_stopped", "channel_timeout"}
  success = "success"
  MaxClearance = 3
INVARIANTS HandledOnce ResultIsRight
PROPERTIES HandlerIsInvoked
CHECK_DEADLOCK FALSE
