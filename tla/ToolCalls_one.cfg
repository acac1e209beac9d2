\* One call of each kind, with one change by another program at any moment.
SPECIFICATION Spec
CONSTANTS
  NoEngine = NoEngine
  Engines <- AllEngines
  Char <- Letters
  EditedTexts <- FourCharacters
  OtherTexts <- TwoTexts
  OldTexts <- TwoCharacters
  Diffs <- ShortDiffs
  CommandLines <- ShortLines
INVARIANTS
  TypeOK
  EditIsExact
PROPERTIES
  DeniedMeansUntouched
CHECK_DEADLOCK FALSE
