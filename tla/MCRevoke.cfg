CONSTANTS
  Users = {"u1"}
  Databases = {"d1"}
  PrivNames = {"p"}
  SecretNames = {"c1"}
  NoSecret = "none"
  Servers = {"s1"}
  PrivSpecs <- Entries
  Conf <- SslConf
  Specs <- OneSpec
  Supplied = {}
  PrivLists <- EntryLists
  CAs = {"valid"}
  Env = {"privileges", "targets"}
  Faults = TRUE
SPECIFICATION Spec
INVARIANTS TypeOK
PROPERTIES ReleaseIsClean
