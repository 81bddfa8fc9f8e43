CONSTANTS
  Users = {}
  Databases = {"d1", "d2", "d3"}
  PrivNames = {}
  SecretNames = {}
  NoSecret = "none"
  Servers = {"s1", "s2"}
  PrivSpecs <- MCPrivSpecs
  Conf <- MCConf
  Specs <- NoSpecs
  Endpoint <- MCEndpoint
  Bundles <- MCBundles
SPECIFICATION Spec
INVARIANTS FilesFresh LeftoversOwned FilesAgree
