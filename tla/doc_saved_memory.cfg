SPECIFICATION Spec
CONSTANTS
  Rigs = {"IC-746", "TS-2000"}
  VfoContents <- MCContents
  Tags = {0, 1}
  LISTSIZE = 2
  Torn = Torn
  SortKeys = {"COMMENT"}
PROPERTY SavedForLater
