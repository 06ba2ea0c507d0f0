SPECIFICATION FairSpec
CONSTANT Prefs <- MCPrefs
INVARIANTS
  TypeOK
  LeavingIsFinal
  BadPasswordNotRepeated
  TimersMatchState
  OncePerConnection
PROPERTIES
  GivesUp
  JoinsEventually
CHECK_DEADLOCK FALSE
