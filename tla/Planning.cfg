SPECIFICATION DashboardSpec
CONSTANTS
  Plans <- MCPlans
  RateDenom = 365
  Micro = 100
  Sessions <- MCSessions
  NewNames <- MCNewNames
  TypedNames = {"Copy", "Baseline"}
  Changes <- MCChanges
  FlowForms <- MCFlowForms
  Prices = {0, 25}
  Start <- MCStart
  Growth = 3
  LifeEvent <- MCLifeEvent
  Days = 0
  Settings <- MCSettings
  FirstSettings <- MCFirstSettings
  MaxEntries = 2
CHECK_DEADLOCK FALSE
INVARIANT BooksBalance
INVARIANT FiresOnceAMonth
INVARIANT FlowsFollowRows
INVARIANT AlternativesOwnTheirData
INVARIANT ProjectionFollowsPlan
INVARIANT ForecastIsCurrent
