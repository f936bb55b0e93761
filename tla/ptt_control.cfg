SPECIFICATION FairSpec
CONSTANTS
  Settings <- MCSettings
  Arrivals = {TRUE, FALSE}
  MaxAwake = 2
INVARIANT TypeOK
INVARIANT ButtonSettles
PROPERTY FlagConverges
