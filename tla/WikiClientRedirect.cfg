SPECIFICATION Spec
CONSTANTS
  x = x  y = y
  Calls <- OneCall
  Ops <- AllOps
  Urls <- Anywhere
  MaxRetries = 1  HttpTimeout = 1
  BaseDelay = 2  MaxDelay = 1  WordBits = 4
  Refusals = {"denied"}
INVARIANTS SuccessIsCommitted
