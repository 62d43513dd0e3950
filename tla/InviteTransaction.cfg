SPECIFICATION Spec
INVARIANTS
  TypeOK
  AckMeansKnown
  OneServerAnswers
  WaitsAreTimed
  NoEntryLeaks
PROPERTIES
  AnswersEnd
  AcceptedSettles
  ImplementsRequestOutcome
CHECK_DEADLOCK FALSE
