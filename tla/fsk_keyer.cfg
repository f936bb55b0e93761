SPECIFICATION FairSpec
CONSTANTS
  Char <- MCChar
  Code <- MCCode
  blank = "04"
  letters <- MCletters
  figures <- MCfigures
  Messages <- MCMessages
  MaxText = 3
  MaxAwake = 2
  fsk_idles = 1
  usos = TRUE
INVARIANT TypeOK
PROPERTY Copy
PROPERTY OpensInStep
PROPERTY PttPartsInOverlap
 
