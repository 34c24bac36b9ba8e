SPECIFICATION FairSpec
CONSTANTS
  Presets = {"intermediate", "senior"}
  Personas = {"analyst"}
  UserTexts = {"mine", "huge"}
  TooLarge = {"huge"}
  DefaultPreset = "intermediate"
  DefaultPersona = "analyst"
  Items = {"c1"}
  Older = {4}
  TypedSystem = {"mine"}
  TypedPersona = {"huge"}
  MaxRevisions = 3
  MaxFaults = 2
INVARIANTS TypeOK DataIsKept PromptsAgree
PROPERTY StorageComesBack
CHECK_DEADLOCK FALSE
