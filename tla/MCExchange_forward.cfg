SPECIFICATION Spec
CONSTANTS
  Clients = {c1}
  Requests <- AllRequests
  Configs <- Standard
  Statuses = {200, 404, 401, 429, 503}
  Canonical <- CanonicalName
  Words <- AnyWord
  Bearers = {"Bearer", "bearer"}
  None = None
CHECK_DEADLOCK FALSE
INVARIANTS
  ExchangeTypeOK
  CredentialsStayApart
  EveryAttemptIsTheRequest
  OnlyTheAdmittedAreForwarded
  DocumentedIsAdmitted
  LoginMeansAccess
