SPECIFICATION Spec
CONSTANTS
  Schemas <- MCSchemas
  Requests <- MCRequests
  Texts <- MCTexts
  DefaultSchema <- MCDefaultSchema
CHECK_DEADLOCK FALSE
INVARIANTS ValidEncodes RoundTrip PathRoundTrip
