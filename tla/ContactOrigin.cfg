SPECIFICATION Spec
SYMMETRY Symmetry
CONSTANTS
  t1 = t1
  t2 = t2
  Tabs <- TwoTabs
  MaxDraws = 3
  Sites <- AllSites
  Browsers <- AllBrowsers
  MaxFlights = 2
  MaxFaults = 1
INVARIANTS OwnFormNeverForeign
CHECK_DEADLOCK FALSE
