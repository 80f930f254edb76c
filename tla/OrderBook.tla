------------------------------ MODULE OrderBook ------------------------------
(***************************************************************************)
(* What the order table promises, without goroutines, locks, notices or    *)
(* polls: an order is opened once, a payment is accepted for an order that *)
(* is not paid, and each accepted payment is credited to the device at     *)
(* most once - or forfeited, when the process fails between the two        *)
(* commits (internal/db/db.go, internal/server/pay.go).                    *)
(***************************************************************************)
EXTENDS Integers

CONSTANT Orders

VARIABLES
    status,    \* the orders table
    owed,      \* 1 while an accepted payment is not yet credited
    credited   \* how often the days of the order were given

book == <<status, owed, credited>>

Init ==
    /\ status = [o \in Orders |-> "none"]
    /\ owed = [o \in Orders |-> 0]
    /\ credited = [o \in Orders |-> 0]

Open(o) ==
    /\ status[o] = "none"
    /\ status' = [status EXCEPT ![o] = "pending"]
    /\ UNCHANGED <<owed, credited>>

\* An administrator, or the cleanup, gives up on pending orders - only on them.
GiveUp(S) ==
    /\ \A o \in S : status[o] = "pending"
    /\ status' = [o \in Orders |-> IF o \in S THEN "failed" ELSE status[o]]
    /\ UNCHANGED <<owed, credited>>

\* The money has come: an order that was given up, or refunded, included.
Accept(o) ==
    /\ status[o] \in {"pending", "failed", "refunded"}
    /\ owed[o] = 0
    /\ status' = [status EXCEPT ![o] = "paid"]
    /\ owed' = [owed EXCEPT ![o] = 1]
    /\ UNCHANGED credited

Credit(o) ==
    /\ owed[o] = 1
    /\ owed' = [owed EXCEPT ![o] = 0]
    /\ credited' = [credited EXCEPT ![o] = @ + 1]
    /\ UNCHANGED status

Forfeit(o) ==
    /\ owed[o] = 1
    /\ owed' = [owed EXCEPT ![o] = 0]
    /\ UNCHANGED <<status, credited>>

Refund(o) ==
    /\ status[o] = "paid"
    /\ status' = [status EXCEPT ![o] = "refunded"]
    /\ UNCHANGED <<owed, credited>>

Next ==
    \/ \E o \in Orders :
          \/ Open(o) \/ Accept(o) \/ Credit(o) \/ Forfeit(o) \/ Refund(o)
    \/ \E S \in SUBSET Orders : GiveUp(S)

Spec == Init /\ [][Next]_book

(* An order that waits or was given up has given nothing and owes nothing: *)
(* what was accepted once is never pending or failed again.                *)
UnpaidGivesNothing ==
    \A o \in Orders : status[o] \in {"none", "pending", "failed"} =>
                          owed[o] = 0 /\ credited[o] = 0
=============================================================================
