CONSTANTS
  Things = {"a"}
  Tables <- MCTables
  Manifest <- MCTables
  Refs <- MCRefs
SPECIFICATION Spec
INVARIANTS
  
  
  ExportConsistent
CHECK_DEADLOCK FALSE
