SPECIFICATION Spec
CONSTANTS
  Releases = {"a", "b"}
  ForkOf <- MCForkOf
  Images = {"i1", "i2"}
  Ports = {8080}
  None = None
  MaxIds = 2
  MaxCrashes = 1
INVARIANT IdentityRegistered
PROPERTY StoresKept
