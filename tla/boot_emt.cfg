SPECIFICATION Spec
CONSTANTS
  Files <- SomeFiles
  Configs <- SomeConfigs
  Credentials <- SomeCredentials
  None = None
INVARIANTS
  EmtConnects
