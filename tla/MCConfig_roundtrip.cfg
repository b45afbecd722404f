SPECIFICATION Spec
CONSTANTS
  a1 = a1
  Administrators = {a1}
  Names = {"default", "sports", "weather", "a/b"}
  Text <- AnyText
  Unroutable = {"", "a/b"}
  MaxKeys = 2
  Numbered <- Labels
  Sanitize <- Uppercase
  Unset = Unset
  NotANumber = NotANumber
  NotRunning = NotRunning
  NoDraft = NoDraft
  Environments <- Worlds
  HandWritten <- Files
  LogFiles <- Writable
  Addresses <- Free
  Edits <- OneEdit
CHECK_DEADLOCK FALSE
INVARIANTS
  ConfigTypeOK
  RunningIsServable
  RestartsAgain
  RestartChangesOnlyTheNamed
  SavingBackChangesNothing
