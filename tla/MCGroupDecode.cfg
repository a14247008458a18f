SPECIFICATION FairSpec
CONSTANTS
  Groups = 4
  ArrayCount <- FourGroups
  Selected <- SomeArrays
  ConcurrencyCap = 3
  Concurrencies = {0, 2, 9}
  NoGroup = NoGroup
INVARIANTS OutcomeIsOfTheFile NoThreadOutlives
PROPERTIES ParseEnds
