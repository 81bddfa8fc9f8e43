CONSTANTS
  Users = {"u1"}
  Databases = {"d1"}
  PrivNames = {"p"}
  SecretNames = {"c1"}
  NoSecret = "none"
  Servers = {"s1"}
  PrivSpecs <- TableAndRole
  Conf <- SslConf
  Specs <- OneSpec
  Supplied = {}
  PrivLists <- TableOrNone
  CAs = {"valid"}
  Env = {"privileges"}
  Faults = FALSE
SPECIFICATION FairSpec
PROPERTIES DeletionNotStuck
