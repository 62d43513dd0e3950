CONSTANT Method = BYE
SPECIFICATION Spec
INVARIANTS
  TypeOK
  OutcomeIsLast
  OutcomeIsTheAnswer
  HandedOnce
  NoEntryLeaks
  WaitsAreTimed
PROPERTIES
  EndsToldOrGivenUp
  ImplementsRequestOutcome
CHECK_DEADLOCK FALSE
