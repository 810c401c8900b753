SPECIFICATION Spec
CONSTANTS
  Scripts <- MCScripts
  PlainTexts <- MCPlainTexts
  MaxRead = 4
  maxHeaderBytes = 10
  ContentType <- MCContentType
  JsonType <- MCJsonType
  JsonTexts <- MCJsonTexts
INVARIANT OriginFormPath
CHECK_DEADLOCK FALSE
