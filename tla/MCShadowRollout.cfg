SPECIFICATION RolloutSpec
CONSTANTS
  Requests = {r1, r2}
  Rules = {rule1}
  Keys = {k1, k2}
  Rpm = 1
SYMMETRY Symmetry
INVARIANTS TypeOK ModeRespected ReportAddsUp OwnBucket AnswerRecorded ReceiptMatches ShadowPredictsAllow ShadowIsStricter
CHECK_DEADLOCK FALSE
