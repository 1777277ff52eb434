\* Three edits race with each other and with the expiry task.
SPECIFICATION Spec
CONSTANTS
  Edits = {e1, e2, e3}
  Choices <- AllChoices
  KeyPreset <- BothKeys
INVARIANTS
  TypeOK
  NoStageSkipped
  LogTruthful
  EditsAreLogged
PROPERTIES
  FinalLeftByStaleEdit
  PresetKeysBlockSaves
SYMMETRY EditSymmetry
CHECK_DEADLOCK FALSE
