------------------------------ MODULE SaleBook ------------------------------
(***************************************************************************)
(* What the sales engine promises, with nothing about how: a book of bills *)
(* in which every business event is one indivisible step.  The bill, the   *)
(* stock it moves and the notice owed to the server change together; no    *)
(* partial sale is ever seen; a guarded sale never takes more than there   *)
(* is; an issued bill is voided at most once, unless it is put aside again *)
(* as a draft: its goods then stay withdrawn and its notice owed.          *)
(*                                                                         *)
(* The steps constrain the new state (book'[s] is any bill of the right    *)
(* form) so that the quantities need no bound.                             *)
(***************************************************************************)
EXTENDS Integers

CONSTANTS Products, SaleIds, OrderIds, Opening

VARIABLES
    book,      \* the bills, by id
    stock,     \* what is on the shelf
    received,  \* the goods of each delivery
    notices    \* the bills issued, bills voided and deliveries owed to the server

bookVars == <<book, stock, received, notices>>

Amounts == [Products -> Nat]

Absent == [status |-> "absent", kind |-> "none", items |-> [p \in Products |-> 0]]

Init ==
    /\ book = [s \in SaleIds |-> Absent]
    /\ stock = Opening
    /\ received = [o \in OrderIds |-> [p \in Products |-> 0]]
    /\ notices = [issued |-> {}, voided |-> {}, received |-> {}]

Rewrites(s) == book' = [book EXCEPT ![s] = book'[s]]

Covered(items) == \A p \in Products : items[p] > 0 => items[p] <= stock[p]

\* A bill is issued; a guarded one only if the shelf covers it.
Sell(s) ==
    /\ book[s].status = "absent"
    /\ Rewrites(s)
    /\ book'[s] \in [status : {"completed"}, kind : {"guarded", "plain"}, items : Amounts]
    /\ book'[s].kind = "guarded" => Covered(book'[s].items)
    /\ stock' = [p \in Products |-> stock[p] - book'[s].items[p]]
    /\ notices' = [notices EXCEPT !.issued = @ \cup {s}]
    /\ UNCHANGED received

\* A draft is put aside; it moves no goods and the server is not told.
Park(s) ==
    /\ book[s].kind \in {"none", "parked"}
    /\ Rewrites(s)
    /\ book'[s] \in [status : {"held"}, kind : {"parked"}, items : Amounts]
    /\ UNCHANGED <<stock, received, notices>>

\* An issued bill is taken up and put aside like a draft: nothing else moves.
PutBack(s) ==
    /\ book[s].kind \in {"guarded", "plain"}
    /\ Rewrites(s)
    /\ book'[s] \in [status : {"held"}, kind : {"parked"}, items : Amounts]
    /\ \A p \in Products : book[s].items[p] > 0 => book'[s].items[p] > 0
    /\ UNCHANGED <<stock, received, notices>>

\* A bill is voided and its goods go back.
Void(s) ==
    /\ book[s].status \in {"completed", "held"}
    /\ book' = [book EXCEPT ![s].status = "cancelled"]
    /\ stock' = [p \in Products |-> stock[p] + book[s].items[p]]
    /\ notices' = [notices EXCEPT !.voided = @ \cup {s}]
    /\ UNCHANGED received

Receive(o) ==
    /\ o \notin notices.received
    /\ received' = [received EXCEPT ![o] = received'[o]]
    /\ received'[o] \in Amounts
    /\ stock' = [p \in Products |-> stock[p] + received'[o][p]]
    /\ notices' = [notices EXCEPT !.received = @ \cup {o}]
    /\ UNCHANGED book

Next ==
    \/ \E s \in SaleIds : Sell(s) \/ Park(s) \/ PutBack(s) \/ Void(s)
    \/ \E o \in OrderIds : Receive(o)

Spec == Init /\ [][Next]_bookVars
=============================================================================
