CONSTANTS
  Users = {"u1"}
  Databases = {"d1", "d2"}
  PrivNames = {"p"}
  SecretNames = {"c1"}
  NoSecret = "none"
  Servers = {"s1", "s2"}
  PrivSpecs = {}
  Conf <- MixedConf
  Specs <- EditSpecs
  Supplied = {}
  PrivLists <- NoLists
  CAs = {"valid"}
  Env = {"edit"}
  Faults = TRUE
SPECIFICATION Spec
INVARIANTS Inductive
PROPERTIES ReleaseIsClean DropsOnlyDeleted ImplementsLifecycle
