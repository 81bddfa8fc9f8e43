CONSTANTS
  Users = {"u1"}
  Databases = {"d1"}
  PrivNames = {"p"}
  SecretNames = {"c1", "pw"}
  NoSecret = "none"
  Servers = {"s1"}
  PrivSpecs = {}
  Conf <- InputConf
  Specs <- PasswordSpec
  Supplied = {"pw"}
  PrivLists <- NoLists
  CAs = {"valid", "unparsable", "notPEM"}
  Env = {"databases", "lists", "secrets", "ca"}
  Faults = FALSE
SPECIFICATION Spec
INVARIANTS AccountHeld ReadyBacked
