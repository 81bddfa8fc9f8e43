CONSTANTS
  Users = {"u1"}
  Databases = {"d1"}
  PrivNames = {"p"}
  SecretNames = {"c1"}
  NoSecret = "none"
  Servers = {"s1"}
  PrivSpecs <- RoleOnly
  Conf <- SslConf
  Specs <- OneSpec
  Supplied = {}
  PrivLists <- RoleOrNone
  CAs = {"valid"}
  Env = {"privileges"}
  Faults = FALSE
SPECIFICATION FairSpec
PROPERTIES PrivilegesFollow
