CONSTANTS
  None = None
  Cases = {1, 2, 3, 4, 5, 6, 7, 8, 9, 10, 11, 12, 13, 14, 15, 16, 17, 18, 19, 20}
  Limit = 7
  Facts <- MCFacts
  MonthHours = 100
  MinClosed = 3
  MinLabeled = 10
  Batches <- MCBatches
  Generated <- MCGenerated
  Instants = {200, 224, 225}
  RiskLimit = 2
  MaxEditions = 2
SPECIFICATION Spec
INVARIANTS NothingSkipped FiguresAddUp PercentilesFit BreachesWereDue ExtractIsWhole
