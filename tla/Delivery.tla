------------------------------ MODULE Delivery ------------------------------
(***************************************************************************)
(* What the sync engine promises about the outbox, with nothing about how: *)
(* at-least-once delivery.  A row is confirmed only when the server has    *)
(* answered for it, may be sent again after that, and is deleted only      *)
(* while confirmed; nothing else ever removes a row.                       *)
(***************************************************************************)
EXTENDS Naturals

CONSTANT Rows

VARIABLES
    outstanding,  \* rows still owed to the server
    confirmed,    \* rows the device believes delivered
    forgotten,    \* rows deleted from the device
    applied       \* rows the server has answered for

deliveryVars == <<outstanding, confirmed, forgotten, applied>>

Offered == outstanding \cup confirmed \cup forgotten

Init == outstanding = {} /\ confirmed = {} /\ forgotten = {} /\ applied = {}

Offer(x) ==
    /\ x \notin Offered
    /\ outstanding' = outstanding \cup {x}
    /\ UNCHANGED <<confirmed, forgotten, applied>>

Apply(x) ==
    /\ x \in Offered
    /\ applied' = applied \cup {x}
    /\ UNCHANGED <<outstanding, confirmed, forgotten>>

Confirm(S) ==
    /\ S \subseteq applied \cap outstanding
    /\ outstanding' = outstanding \ S
    /\ confirmed' = confirmed \cup S
    /\ UNCHANGED <<forgotten, applied>>

Reopen(S) ==
    /\ S \subseteq confirmed
    /\ outstanding' = outstanding \cup S
    /\ confirmed' = confirmed \ S
    /\ UNCHANGED <<forgotten, applied>>

Forget(x) ==
    /\ x \in confirmed
    /\ confirmed' = confirmed \ {x}
    /\ forgotten' = forgotten \cup {x}
    /\ UNCHANGED <<outstanding, applied>>

Next ==
    \/ \E x \in Rows : Offer(x) \/ Apply(x) \/ Forget(x)
    \/ \E S \in SUBSET Rows : Confirm(S) \/ Reopen(S)

Spec == Init /\ [][Next]_deliveryVars
=============================================================================
