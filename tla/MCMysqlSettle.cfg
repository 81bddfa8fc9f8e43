CONSTANTS
  Users = {"u1"}
  Databases = {"d1"}
  PrivNames = {"p"}
  SecretNames = {"c1"}
  NoSecret = "none"
  Servers = {"s2"}
  PrivSpecs <- RoleOnly
  Conf <- MyConf
  Specs <- OneSpec
  Supplied = {}
  PrivLists <- RoleList
  CAs = {"valid"}
  Env = {}
  Faults = FALSE
SPECIFICATION FairSpec
PROPERTIES Settles
