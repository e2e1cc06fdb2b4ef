--------------------------- MODULE MCSalesEngine ---------------------------
(* Small instances of SalesEngine for TLC, and the facts about the          *)
(* arithmetic of its bills (Billing) on small carts.                        *)
EXTENDS SalesEngine, Sequences, TLC

CONSTANTS p1, p2

\* A line of each product, the first of which is scarce.
MCCarts      == {[p \in Products |-> 1]}
MCOpening    == [p \in Products |-> IF p = p1 THEN 2 ELSE 3]

\* Deliveries of the scarce product, left unpaid or overpaid.
MCDeliveries == [goods : {[p \in Products |-> IF p = p1 THEN 1 ELSE 0]},
                 total : {2}, paid : {0, 3}]

\* The year changes at the last instant of the run.
MCFYAt       == [t \in 0..MaxClock |-> IF t < MaxClock THEN "81/82" ELSE "82/83"]
MCOneYear    == [t \in 0..MaxClock |-> "81/82"]

MCSymmetry   == Permutations(SaleIds) \cup Permutations(OrderIds) \cup Permutations(Suppliers)

-----------------------------------------------------------------------------
B == INSTANCE Billing

OnSale == {[id |-> "nail", sellingPrice |-> 5, isVatApplicable |-> TRUE],
           [id |-> "rice", sellingPrice |-> 37, isVatApplicable |-> FALSE]}
MCBills == B!CartsWithin(4, OnSale)

\* Whatever the cashier edits, the price of a line is that of its unit, and the
\* cart, completeSale and holdBill come to the same totals for it.
ASSUME CartsPriced ==
    \A items \in MCBills : \A i \in DOMAIN items : \E p \in OnSale :
       /\ p.id = items[i].product
       /\ items[i].unitPrice = p.sellingPrice * (IF items[i].unit = "bx" THEN B!PiecesPerBox ELSE 1)
ASSUME ServicesAgree ==
    \A items \in MCBills : B!ComputeVAT(items) = B!Calculate(items)

\* A cart can hold two lines of one product and unit (a piece made a box and
\* another piece made a box); a hold keeps a cart as it is exactly when no
\* product stands on two of its lines.
ASSUME HoldKeepsSingleLines ==
    /\ \E items \in MCBills : Len(items) = 2 /\ items[1] = items[2]
    /\ \A items \in MCBills :
          LET kept == B!HeldLines(<<>>, items) IN
          (\A i, j \in DOMAIN items : i # j => items[i].product # items[j].product)
             <=> ({kept[p] : p \in DOMAIN kept} = {items[i] : i \in DOMAIN items}
                  /\ Cardinality(DOMAIN kept) = Len(items))

\* A conversion along a rule and the one back, against it, leave a quantity as
\* it was.
ASSUME ConversionsInvert ==
    LET factor == [u \in {"pc", "bx"} \X {"pc", "bx"} |-> IF u = <<"bx", "pc">> THEN 24 ELSE 0] IN
    \A n \in 0..50 : B!ConvertUnit(factor, B!ConvertUnit(factor, n, "bx", "pc"), "pc", "bx") = n

\* SalesService goes back to the old fiscal year on the first fifteen days of
\* each month from August on; VatService does not, but subtracts the 57 years
\* between the calendars instead of adding them (112 years apart otherwise).
ASSUME FiscalYearsDiffer ==
    {d \in (1..12) \X (1..31) : B!FiscalYearOfSale(d[1], d[2]) - B!FiscalYearOfDraft(d[1], d[2]) # 112}
       = (8..12) \X (1..15)
=============================================================================
