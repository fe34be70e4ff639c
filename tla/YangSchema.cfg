SPECIFICATION Spec
CONSTANT Documents <- MCDocuments
INVARIANTS
  TreeIsMeant
  SidsFound
  LeafrefsFound
  TypesAreMeant
CHECK_DEADLOCK FALSE
