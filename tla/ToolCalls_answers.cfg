SPECIFICATION ToolSpec
CONSTANTS
  None = None
  Contents <- MCContents
  Scopes = {u, v}
  Sources = {m}
  CategoriesOf <- MCCategories
  Questions <- MCQuestions
  Mutations <- MCMutations
  Limit = 2
  DayLength = 2
  Offset = 1
  MaxRows = 3
  NoTime = NoTime
  Base = 2
  GroupLen = 2
  Bits = 7
  HoursInDay = 24
  HoursAhead = 7
  PartHour <- MCPartHour
  IncomeCategories = {"salary", "gift", "other"}
  ExpenseCategories = {"food", "transport", "other"}
  Phrases <- MCPhrases
  IncomeWords = {"luong"}
  ExpenseWords = {"mua"}
  SkippedWords = {"toi", "sang"}
  NoteLimit = 2
  Lookalikes = {"time_zone"}
  Calls <- MCCalls
INVARIANTS
  ListingsAreComplete
  GroupsWithinTotals
  PeriodsAddUp
  PlainAmountsAreExact
  RecordsKeepWhatIsSaid
  CreatesEndInAQuestion
\* A call is decoded once.
CHECK_DEADLOCK FALSE
