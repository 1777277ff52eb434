\* The keys of the migrations: saves commit, and expiry goes around them.
SPECIFICATION Spec
CONSTANTS
  Edits = {e1}
  Choices <- AllChoices
  KeyPreset <- KeyBySchema
INVARIANTS
  EveryChangeIsLogged
CHECK_DEADLOCK FALSE
