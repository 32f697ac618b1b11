SPECIFICATION FairSupport
CONSTANTS
  Callers = {Main, t1, t2}
  Main = Main
  MainAccount = Mine
  Accounts <- TwoAccounts
  MaxVersion = 1
  NoAccount = NoAccount
  NoData = NoData
  Messages <- SomeMessages
  DefaultStaleMs = 100
  DefaultArgument = 7
  Unset = Unset
  Mine = Mine
  Other = Other
INVARIANTS
  SupportTypeOK
  NoCallOnDeadStub
  ReadsAreOneAnswer
PROPERTIES
  CredentialsAreLookedUp
  ConfigStaysReadable
  StopCompletes
  EveryCallReturns
