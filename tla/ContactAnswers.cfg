SPECIFICATION Spec
CONSTANTS
  p1 = p1  p2 = p2  ip1 = ip1  ip2 = ip2
  Posts <- TwoPosts
  Ips <- TwoIps
  Offers <- AllFlaws
  IpLimit = 1  GlobalLimit = 1  GithubCap = 1
  Hour = 2  Day = 3
  MaxKeys = 3  EvictShare = 2
  Configs <- AnyConfig
  ReadTimeout = 1  WriteTimeout = 3  SendTimeout = 1  GithubTimeout = 1
  ShutdownGrace = 1
  Horizon = 3
  MaxBoots = 2
SYMMETRY Symmetry2
INVARIANTS AnswersHonest IssuesFollowMail HonestInv WithinBudgets BreakerJustified
