SPECIFICATION FairSpec
CONSTANTS
  Freqs = {1}
  InBand = {1}
  Modes = {"USB", "CW"}
  BWs = {0}
  DefBW <- MCDefBW
  HasSplit = TRUE
  CanChangeAlt = FALSE
  TwoVfos = FALSE
  CanSwap = TRUE
  HasA2B = FALSE
  EqualizeA = FALSE
  CanSplit = TRUE
  ICOMrig = TRUE
  ICOMmainsub = TRUE
  HasDSP = FALSE
PROPERTY SwapExchanges
PROPERTY PanelModeConverges
