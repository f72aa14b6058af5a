CONSTANTS
  NUM_SKIP_LISTS = 3
  MAX_NUM = 2
  Offers <- MCOffers
  None = None
SPECIFICATION Spec
INVARIANTS SelectsAsOfEntry
