SPECIFICATION Spec
CONSTANTS
  laptop = laptop  runner = runner  m1 = m1
  Deployers <- BothDeployers
  Laptops <- OneLaptop
  Files <- TwoFiles
  Versions = {1, 2}  Live = 1
  Media <- OneMedium
  Slugs = {"author", "delete"}
  Want = {"author"}
  MaxDeploys = 2
  MaxClock = 1
  MaxEdits = 1
INVARIANTS RollbackPoint PairsRestore AloneMeansMine
CHECK_DEADLOCK FALSE
