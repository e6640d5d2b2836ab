CONSTANTS
  Main = main
  Own = {own}
  Foreign = {pool1}
  Announced = TRUE
  MaxCollections = 2
SPECIFICATION FairSpec
INVARIANTS FlagsExact StopTheWorld CountExact
PROPERTIES Resumes CollectionEnds
