SPECIFICATION Spec
CONSTANTS
  Names <- MCNames
  Plain <- MCPlain
  PathOrder <- MCPathOrder
  Tabs = {t1, t2}
  None = None
  MaxDraws = 2
  MaxHand = 1
  MaxStops = 1
SYMMETRY TabSymmetry
CHECK_DEADLOCK FALSE
INVARIANT NothingDrawnNothingChanged
PROPERTY AppliedAsShown
PROPERTY FailureRestores
PROPERTY AppliedProjectIsSound
 
