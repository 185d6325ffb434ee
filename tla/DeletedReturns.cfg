SPECIFICATION StoreSpec
CHECK_DEADLOCK FALSE
CONSTANTS
  SessionNames = {"a"}
  Spellings = {" a"}
  Stripped <- MCStripped
  Holders = {"c1", "c2"}
  MaxObjects = 3
  MaxBegun = 2
PROPERTY
  DeletedStaysDeleted
