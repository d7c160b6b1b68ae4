\* One call on the UI thread after the overlay was added, and two moves.
CONSTANTS
  MaxUi = 2
  MaxMoves = 2
SPECIFICATION Spec
INVARIANT QuietMeansAligned
PROPERTY SettlesAligned
CHECK_DEADLOCK FALSE
