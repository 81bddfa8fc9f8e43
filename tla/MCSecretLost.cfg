CONSTANTS
  Users = {"u1"}
  Databases = {"d1"}
  PrivNames = {"p"}
  SecretNames = {"c1"}
  NoSecret = "none"
  Servers = {"s1"}
  PrivSpecs = {}
  Conf <- SslConf
  Specs <- OneSpec
  Supplied = {}
  PrivLists <- NoLists
  CAs = {"valid"}
  Env = {}
  Faults = TRUE
SPECIFICATION Spec
INVARIANTS ReadyHasSecret
