CONSTANTS
  Users = {"u1"}
  Databases = {"d1"}
  PrivNames = {"p"}
  SecretNames = {"c1"}
  NoSecret = "none"
  Servers = {"s1"}
  PrivSpecs <- HomeAndRole
  Conf <- SslConf
  Specs <- OneSpec
  Supplied = {}
  PrivLists <- HomeList
  CAs = {"valid"}
  Env = {}
  Faults = FALSE
SPECIFICATION FairSpec
PROPERTIES Settles
