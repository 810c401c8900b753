SPECIFICATION Spec
CONSTANTS
  Scripts <- MCScripts
  PlainTexts <- MCPlainTexts
  MaxRead = 4
  maxHeaderBytes = 10
  ContentType <- MCContentType
  JsonType <- MCJsonType
  JsonTexts <- MCJsonTexts
INVARIANTS TypeOK RequestsAsSent BudgetPerMessage StatusNamesReason TargetAsSent EncodingArrives NothingCarriesOver
CHECK_DEADLOCK FALSE
