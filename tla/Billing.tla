------------------------------ MODULE Billing ------------------------------
(***************************************************************************)
(* The arithmetic of a bill and the edits of the cart on the checkout      *)
(* screen, as functions of their arguments: CartNotifier, the two services *)
(* that compute VAT (SalesService for completeSale, VatService for         *)
(* createSale and holdBill), unit conversion, the lines holdBill stores,   *)
(* and the two functions that name the fiscal year.                        *)
(*                                                                         *)
(* Amounts are in paisa and whole: the screen sets no discount, and prices *)
(* and quantities are whole there.  The program computes in doubles, so a  *)
(* sum that ends on half a paisa may be rounded either way by it.          *)
(***************************************************************************)
EXTENDS Integers, Sequences, SequencesExt

PiecesPerBox == 24

\* Round2 of an amount given in hundredths of a paisa.
Round2(v) == (v + 50) \div 100

LineTotal(line) == line.quantity * line.unitPrice

Total(items) == FoldLeft(LAMBDA sum, line : sum + LineTotal(line), 0, items)

Taxable(items) == Total(SelectSeq(items, LAMBDA line : line.isVatApplicable))
NonTaxable(items) == Total(SelectSeq(items, LAMBDA line : ~line.isVatApplicable))

Totals(taxable, nonTaxable, vat, grand) ==
    [subTotal |-> taxable + nonTaxable, taxableAmount |-> taxable,
     vatAmount |-> vat, grandTotal |-> grand]

\* VAT is 13 %; the grand total is rounded from the rounded VAT.
SalesTotals(taxable, nonTaxable) ==
    LET vat == Round2(13 * taxable) IN
    Totals(taxable, nonTaxable, vat, Round2(100 * (taxable + nonTaxable + vat)))

\* VAT and grand total are rounded apart.
VatServiceTotals(taxable, nonTaxable) ==
    Totals(taxable, nonTaxable, Round2(13 * taxable),
           Round2(100 * (taxable + nonTaxable) + 13 * taxable))

ComputeVAT(items) == SalesTotals(Taxable(items), NonTaxable(items))
Calculate(items) == VatServiceTotals(Taxable(items), NonTaxable(items))

-----------------------------------------------------------------------------
(* CartNotifier, on the list of lines *)

\* Scanning a product, always by the piece, raises the first line of it.
AddProduct(items, product) ==
    LET same == {i \in DOMAIN items : items[i].product = product.id /\ items[i].unit = "pc"} IN
    IF same = {}
    THEN Append(items, [product |-> product.id, unit |-> "pc", quantity |-> 1,
                        unitPrice |-> product.sellingPrice,
                        isVatApplicable |-> product.isVatApplicable])
    ELSE [items EXCEPT ![CHOOSE i \in same : \A j \in same : i <= j].quantity = @ + 1]

UpdateQuantity(items, i, quantity) ==
    IF quantity <= 0 THEN RemoveAt(items, i) ELSE [items EXCEPT ![i].quantity = quantity]

\* The drop-down works out the price, the quantity stays.
SwitchedPrice(line, unit) ==
    IF line.unit = "pc" /\ unit = "bx" THEN line.unitPrice * PiecesPerBox
    ELSE IF line.unit = "bx" /\ unit = "pc" THEN line.unitPrice \div PiecesPerBox
    ELSE line.unitPrice

SwitchUnit(items, i, unit) ==
    [items EXCEPT ![i].unit = unit, ![i].unitPrice = SwitchedPrice(items[i], unit)]

Edits(items, products) ==
    {AddProduct(items, p) : p \in products}
    \cup {UpdateQuantity(items, i, items[i].quantity + d) : i \in DOMAIN items, d \in {1, -1}}
    \cup {SwitchUnit(items, i, u) : i \in DOMAIN items, u \in {"pc", "bx"}}
    \cup {RemoveAt(items, i) : i \in DOMAIN items}

\* The carts within so many edits of the empty one.
CartsWithin(edits, products) ==
    LET carts[n \in 0..edits] ==
          IF n = 0 THEN {<<>>}
          ELSE carts[n - 1] \cup UNION {Edits(items, products) : items \in carts[n - 1]}
    IN carts[edits]

\* convertUnit: a rule in this direction, or one in the other, or none (zero).
ConvertUnit(factor, quantity, from, to) ==
    IF from = to THEN quantity
    ELSE IF factor[<<from, to>>] # 0 THEN quantity * factor[<<from, to>>]
    ELSE IF factor[<<to, from>>] # 0 THEN quantity \div factor[<<to, from>>]
    ELSE 0

\* holdBill: the row of a line is keyed by the draft and the product, and rows
\* already there for other products stay.  `rows' maps products to lines.  The
\* key is String.hashCode of the two; that no two of them collide is assumed.
HeldLines(rows, items) ==
    LET last(p) == CHOOSE i \in DOMAIN items :
                      items[i].product = p /\ \A j \in DOMAIN items : items[j].product = p => j <= i
        named == {items[i].product : i \in DOMAIN items} IN
    [p \in DOMAIN rows \cup named |-> IF p \in named THEN items[last(p)] ELSE rows[p]]

-----------------------------------------------------------------------------
\* The Bikram Sambat year a fiscal year begins in, by SalesService and by
\* VatService; the year of the calendar is counted from zero.
FiscalYearOfSale(month, day) == IF month >= 7 /\ day >= 16 THEN 57 - 1 ELSE 57 - 2
FiscalYearOfDraft(month, day) == IF month < 7 \/ (month = 7 /\ day < 16) THEN 0 - 57 ELSE 0 - 56
=============================================================================
