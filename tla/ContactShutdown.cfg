SPECIFICATION FairSpec
CONSTANTS
  p1 = p1  p2 = p2  ip1 = ip1  ip2 = ip2
  Posts <- OnePost
  Ips <- OneIp
  Offers <- Good
  IpLimit = 1  GlobalLimit = 1  GithubCap = 1
  Hour = 12  Day = 14
  MaxKeys = 3  EvictShare = 2
  Configs <- Complete
  ReadTimeout = 6  WriteTimeout = 12  SendTimeout = 5  GithubTimeout = 2
  ShutdownGrace = 2
  Horizon = 16
  MaxBoots = 1
PROPERTIES DrainFinishesInFlight
