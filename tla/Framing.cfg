SPECIFICATION Spec
CONSTANT Conversations <- Sends
INVARIANTS TypeOK SignallingSurvives RequestsAreWhole MediaSurvives
CHECK_DEADLOCK FALSE
