SPECIFICATION CommandsSpec
CONSTANTS
  old = old
  older = older
  main = main
  co = co
  late = late
  Runs = {p1}
  Events = {old, older, main, co, late}
  Archive = {old, older}
  Start <- StartOf
  FinalHour = 1
  Limit = 5
  Reserve = 2
  LiveCost = 1
  HistCost = 3
  MaxAge = 1
  None = None
  Alone = TRUE
  MaxTime = 2
  MaxKills = 1
  MaxFaults = 2
  Operators = {o1, o2}
  Resolvers = {s1, s2}
  Identities = {i1}
  Fighters = {f1, f2}
  Bouts = {b1}
  Expectations = {None}
  MaxReviews = 2
SYMMETRY MCSymmetry
INVARIANTS BudgetKept PaidOnce
PROPERTIES OpenReviewStaysBlocked RefinesRegister AnswersTrue MappingKept
CHECK_DEADLOCK FALSE
