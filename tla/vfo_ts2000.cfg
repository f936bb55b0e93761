SPECIFICATION Spec
CONSTANTS
  Freqs = {1, 2, 3}
  InBand = {1, 2}
  Modes = {"USB"}
  BWs = {0}
  DefBW <- MCDefBW
  HasSplit = TRUE
  CanChangeAlt = TRUE
  TwoVfos = TRUE
  CanSwap = FALSE
  HasA2B = FALSE
  EqualizeA = FALSE
  CanSplit = TRUE
  ICOMrig = FALSE
  ICOMmainsub = FALSE
  HasDSP = TRUE
PROPERTY SwapExchanges
PROPERTY KnownUntil
