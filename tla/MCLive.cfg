CONSTANTS
  Users = {"u1"}
  Databases = {"d1"}
  PrivNames = {"p"}
  SecretNames = {"c1"}
  NoSecret = "none"
  Servers = {"s1"}
  PrivSpecs <- TableAndRole
  Conf <- SslConf
  Specs <- OneSpec
  Supplied = {}
  PrivLists <- PairList
  CAs = {"valid"}
  Env = {"lists"}
  Faults = TRUE
SPECIFICATION FairSpec
INVARIANTS ReadyGranted
PROPERTIES Settles DeletionCompletes
