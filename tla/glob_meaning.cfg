SPECIFICATION Spec
CONSTANTS
  Star = Star
  Any = Any
  Open = Open
  Close = Close
  Not = Not
  Escape = Escape
  Letters = {a}
  MaxPat = 4
  MaxStr = 3
INVARIANTS
  MatchesMeaning
CHECK_DEADLOCK FALSE
