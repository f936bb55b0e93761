SPECIFICATION FairSpec
CONSTANTS
  Messages <- MCMessages
  MaxText = 1
  MaxAwake = 1
  MaxCode = 2
  cwioPTT = FALSE
  CalChars = 1
CHECK_DEADLOCK FALSE
INVARIANT TypeOK
INVARIANT KeyRests

PROPERTY PauseSilences
