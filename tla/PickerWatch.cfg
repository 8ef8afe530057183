CONSTANTS
  p1 = p1  p2 = p2
  Picker <- PickerDef
  Nobody = Nobody
  Cols <- ColsDef
  MaxVersion = 2
  MaxToggles = 1
SPECIFICATION Spec
INVARIANTS TypeOK QuietIsCurrent LayoutHolds
PROPERTIES ChangesShown
CHECK_DEADLOCK FALSE
