SPECIFICATION Spec
CONSTANTS
  MaxEdits = 3
  MaxTime = 4
  Days = 2
INVARIANTS
  ImportedOnce
  SourceIsAhead
PROPERTIES
  EditsSurvive
