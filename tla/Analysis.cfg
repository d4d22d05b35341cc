SPECIFICATION Spec
CONSTANTS
  Identifiers = {"order_id"}
  Names <- MCNames
  Tables <- MCTables
  Steps <- CommonSteps
  MaxSteps = 2
  Histories <- MCHistories
  Horizons = {1, 2, 4, 7}
  Gaps = {3, 9}
  Interval = 90
  Decimal = 2
  Plans <- MCPlans
  TaskLimit = 3
  SearchLimit = 7
  Agents = {1, 2, 3}
  Opening = 4
  Draws = {1, 3, 4}
  Splits <- MCSplits
  Records <- MCRecords
  Viewers <- MCViewers
  Views = {"x", "y"}
  Cutoff = 24
  PageLimit = 1
  Revisable <- MCRevisable
  MaxRevisions = 1
INVARIANTS
  LogAccounts
  UnreviewedKeepsTheBooks
  RecommendationsSettle
  HoldoutUnseen
  WidenedBandCovers
  YearIsEnough
  AssignmentsSound
  OneQueue
  FiguresEvidenced
PROPERTIES
  NumericColumnsStay
  ConcentrationJudged
\* A preview, an answer or a settled assignment ends its behaviour.
CHECK_DEADLOCK FALSE
