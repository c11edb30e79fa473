SPECIFICATION Spec
CONSTANTS
  Plain = {"Tickets"}
  Accepted = {"ReadOnly"}
  Malformed = {"ReadMostly"}
  Host = {"a"}
  Port <- SomePorts
  UserName = {"u"}
  Password = {"", "p"}
  RootPath = {"/z/data"}
  RootWord = {"data"}
  Ttl <- SomeTtls
  MaxTtl = 127
  Kbs = {0, 1, 8, 31, 32, 65, 127, 256}
  Kib = 8
  SizeLimit = 256
  NULL = NULL
  MaxSections = 3
  MaxDirectives = 3
INVARIANT DefaultsServe
