SPECIFICATION Spec
CONSTANTS
  IdBase <- MCBase
  NotFinite = NotFinite
  Documents <- MCDocuments
  Parameters <- MCParameters
  Targets = {1, 90, 200}
  MaxCalls = 2
INVARIANTS RoutesAgree ReadersAgree CanonicalIsStable
