SPECIFICATION Spec
CONSTANTS
  Tx = {1, 2, 3}
  Row <- Rows
  Accounts <- AccountList
  Me = "me"
  AskedAccount <- AccountsAsked
  AskedCurrency = {None}
  Category = {"food", "rent"}
  None = None
  Ms = 2
  Day = 2
  Week = 4
  MonthStarts <- Months
  FirstNow = 15
  MaxTime = 16
  MaxCorrections = 1
  PageSize = 1
  MaxPages = 2
  MaxPeriods = 2
  LargestLimit = 1
  BudgetLimit = 3

INVARIANT CountedOnce
CHECK_DEADLOCK TRUE
