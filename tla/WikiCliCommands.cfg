SPECIFICATION CliSpec
CONSTANTS
  x = x
  Calls <- OneCall
  Ops <- AllOps
  Urls <- DirectOrHostless
  Commands <- AllCommands
  Stdin <- AnyStdin
  Setups <- SomeSetups
  Refusals <- AnyRefusal
  MaxRetries = 2  HttpTimeout = 2
  BaseDelay = 3  MaxDelay = 3  WordBits = 4
INVARIANTS CliTypeOK ExitCodeTells RequestSound SettingsSound CallTimeBounded
PROPERTIES EveryCommandExits
