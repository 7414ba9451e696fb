SPECIFICATION Spec
CONSTANTS
  Texts = {t1}
  NoText = NoText
  Conditions = {c1}
  Kinds = {"number", "select", "date", "boolean"}
  FirstKind = "number"
  NoTimer = NoTimer
  Rows = {1, 2, 3, 4}
  Blank = Blank
  Matching = {2, 3, 4}
  PageSize = 2
  Viewport = 2
  MaxNodes = 4
  NoFocus = NoFocus
  Cards = {a, b, c}
  Columns = {x, y}
  NoTarget = NoTarget
  MonthsInYear = 2
  Week = 4
  Weeks = 3
  MinDay = 13
  MaxDay = 23
  WeekStart = 1
  Disabled = {12, 17, 18}
  Unused = Unused
INVARIANTS
  SearchSettles
  OnlyFinishedApplied
  SelectedAsMeant
  KeysActOnFocused
  PlaceIsKept
PROPERTIES
  CardsLandAsShown
CHECK_DEADLOCK FALSE
