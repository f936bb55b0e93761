SPECIFICATION FairSpec
CONSTANTS
  Freqs = {1, 2, 3}
  InBand = {1, 2}
  Modes = {"USB"}
  BWs = {0}
  DefBW <- MCDefBW
  HasSplit = TRUE
  CanChangeAlt = FALSE
  TwoVfos = FALSE
  CanSwap = TRUE
  HasA2B = FALSE
  EqualizeA = FALSE
  CanSplit = TRUE
  ICOMrig = TRUE
  ICOMmainsub = FALSE
  HasDSP = FALSE
INVARIANT TypeOK
PROPERTY ActiveConverges
PROPERTY OtherVfoUntouched
PROPERTY KeepsPromise
