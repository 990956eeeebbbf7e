SPECIFICATION FairMailSpec
CONSTANTS
  p1 = p1  ip1 = ip1
  Posts <- OnePost
  Ips <- OneIp
  Offers <- GoodOrBot
  IpLimit = 2  GlobalLimit = 1  GithubCap = 1
  Hour = 6  Day = 8
  MaxKeys = 3  EvictShare = 2
  Configs <- Complete
  Transports <- EveryTransport
  ReadTimeout = 3  WriteTimeout = 6  SendTimeout = 3  GithubTimeout = 1
  DialTimeout = 1  HttpTimeout = 2
  ShutdownGrace = 1
  Horizon = 8
  MaxBoots = 2
INVARIANTS MailTypeOK AnswerFitsWriteTimeout SecretsCovered
PROPERTIES ImplementsContact EveryPostAnswered
