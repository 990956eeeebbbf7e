SPECIFICATION Spec
CONSTANTS
  IPs <- SomeIPs
  LocalHosts <- SomeHosts
  AllCases <- SomeCases
  maxName = 3
  maxSummary = 3
  maxDetails = 4
  maxPage = 3
  maxTitle = 2
INVARIANTS ClientIPTrue OnlyLoginUnasked FencesHold HeadersIntact VerdictSound
CHECK_DEADLOCK FALSE
