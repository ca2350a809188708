SPECIFICATION RosterSpec
CONSTANTS
  Names = {"ann", "bob", "cyd"}
  MaxEdits = 2
  MaxWatched = 1
  MaxStarts = 1
INVARIANTS
  NewcomersCanSubmit
