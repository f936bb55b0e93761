SPECIFICATION FairSpec
CONSTANTS
  Freqs = {1}
  InBand = {1}
  Modes = {"USB"}
  BWs = {0, 1}
  DefBW <- MCDefBW
  HasSplit = TRUE
  CanChangeAlt = TRUE
  TwoVfos = TRUE
  CanSwap = TRUE
  HasA2B = TRUE
  EqualizeA = TRUE
  CanSplit = TRUE
  ICOMrig = FALSE
  ICOMmainsub = FALSE
  HasDSP = FALSE
PROPERTY SwapExchanges
PROPERTY KeepsPromise
PROPERTY ActiveConverges
