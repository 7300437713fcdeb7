----------------------------- MODULE MCReports -----------------------------
(* Instances of Reports for TLC. *)
EXTENDS Reports

Entry(account, at, amount, currency, classified) ==
  [account |-> account, at |-> at, amount |-> amount, currency |-> currency, classified |-> classified]

\* At the start of a month, at one time, in two currencies.
Rows == << Entry("a1", 14, -2, "USD", "food"), Entry("a1", 15, -1, "USD", "food"),
           Entry("a2", 15, -1, "EUR", "food") >>

AccountList == << [id |-> "a1", owner |-> "me", currency |-> "USD"],
                  [id |-> "b",  owner |-> "you", currency |-> "USD"],
                  [id |-> "a2", owner |-> "me", currency |-> "EUR"] >>

AccountsAsked == {None, "a2", "b"}

Months == {0, 6, 14}
=============================================================================
