\* The increase of a counter whose start is not known.
CONSTANTS
  Window <- MCWindow
  Tolerance = 1
  MaxUncovered = 3
  Infinity = 9
  None = None
  End = 5
  Series = {s, t}
  Event <- MCEvent
  Layouts <- MCLayouts
  Early <- MCEarly
  Mishaps = 1
  Channels = 2
  Sends = 2
  Ticks = 2
  SpanFaults = 1
  Skews <- MCSkews
  Nothing = Nothing
  Measured <- MCMeasured
  RtfWindow = 2
  MaxGap = 2
  LastInstant = 6
  Rates <- MCRates
  Factors <- MCFactors
  Step = 2
  MaxSkipped = 1
SPECIFICATION TelemetrySpec
SYMMETRY Symmetry
CHECK_DEADLOCK FALSE
INVARIANTS
  CounterIsExact
