SPECIFICATION FairSpec
CONSTANTS
  a1 = a1
  u1 = u1
  u2 = u2
  Account = {a1}
  User = {u1, u2}
  Session = {s1, s2}
  OwnerOf <- OneOwner
  ExtId = {"x1", "x2"}
  Amount <- Amounts
  MaxRows = 2
  MaxBalance = 3
INVARIANTS BalanceIsLedgerSum AnswersAreDurable
PROPERTIES RowsAreFinal RequestsEnd
