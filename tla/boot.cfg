SPECIFICATION Spec
CONSTANTS
  Files <- SomeFiles
  Configs <- SomeConfigs
  Credentials <- SomeCredentials
  None = None
INVARIANTS
  TypeOK
  FileDecides
  StartedIsComplete
  ExitTellsReadiness
  NothingIsLeft
PROPERTIES
  EngineUsedAsAgreed
