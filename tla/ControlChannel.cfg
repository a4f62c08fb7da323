SPECIFICATION Spec
CONSTANTS
  Buttons = {left, right}
  Codes = {shift}
  CharSizes = {1, 2, 3}
  MaxChars = 4
  TextMax = 4
  Cap = 2
  MaxSize = 1
  MaxSessions = 2
INVARIANTS
  InputMatches
  MessageIsSound
  FlagTells
