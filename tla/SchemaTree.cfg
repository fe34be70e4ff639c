SPECIFICATION Spec
CONSTANT Documents <- MCDocuments
CHECK_DEADLOCK FALSE
INVARIANTS TreeIsTheSum NoFalseAlarm ConfigIsInherited ReferencesLead
