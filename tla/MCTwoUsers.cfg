CONSTANTS
  Users = {"u1", "u2"}
  Databases = {"d1"}
  PrivNames = {"p"}
  SecretNames = {"c1", "c2"}
  NoSecret = "none"
  Servers = {"s1"}
  PrivSpecs = {}
  Conf <- SslConf
  Specs <- TwoUserSpec
  Supplied = {}
  PrivLists <- NoLists
  CAs = {"valid"}
  Env = {}
  Faults = FALSE
SPECIFICATION Spec
INVARIANTS SecretHeld
