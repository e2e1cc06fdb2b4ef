---------------------------- MODULE MCSyncServer ----------------------------
(* Small instances of SyncServer for TLC. *)
EXTENDS SyncServer, TLC

CONSTANTS p1, s1, s2, c1

\* Three versions of one product, by device clock.
MCProductEdits ==
    {[product |-> p1, stock |-> 2, at |-> 0], [product |-> p1, stock |-> 3, at |-> 1],
     [product |-> p1, stock |-> 1, at |-> 2]}
\* A bill sold and cancelled, and one another terminal gave the same number.
MCSaleEdits ==
    {[sale |-> s1, bill |-> "B1-1", at |-> 0, status |-> "completed"],
     [sale |-> s1, bill |-> "B1-1", at |-> 1, status |-> "cancelled"],
     [sale |-> s2, bill |-> "B1-1", at |-> 1, status |-> "completed"]}
\* Pushed again while the clock stands, it meets the entries stored meanwhile.
MCCustomerEdits ==
    {[customer |-> c1, debt |-> 3, at |-> 1]}
\* Two lines that together exceed the smaller stocks.
MCItems == {[id |-> 1, product |-> p1, qty |-> 2], [id |-> 2, product |-> p1, qty |-> 1]}
\* A debit pushed with and without the mark, and a credit without a due date.
MCEntries ==
    {[id |-> 1, customer |-> c1, amount |-> 2, type |-> "debit", due |-> 0, overdue |-> FALSE],
     [id |-> 1, customer |-> c1, amount |-> 2, type |-> "debit", due |-> 0, overdue |-> TRUE],
     [id |-> 2, customer |-> c1, amount |-> 1, type |-> "credit", due |-> NoDue, overdue |-> FALSE]}

MCSymmetry == Permutations(Handlers)
=============================================================================
