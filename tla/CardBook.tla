------------------------------- MODULE CardBook -------------------------------
(***************************************************************************)
(* What a prepaid card promises, without requests, rows or transactions:   *)
(* it is printed once; while it is usable it may lapse, be revoked, or be  *)
(* redeemed by one customer; redeemed, it is worth its days to that        *)
(* customer's device, once - or they are lost, when the process fails      *)
(* between the two commits - and the success page comes after them         *)
(* (internal/server/voucher.go, the voucher part of internal/db/db.go).    *)
(***************************************************************************)
EXTENDS Integers

CONSTANTS Codes, Devices, Nobody

VARIABLES
    card,     \* where each card is
    holder,   \* the device it was redeemed for
    given,    \* how often each device got the days of each card
    told      \* cards whose customer has seen the success page

cards == <<card, holder, given, told>>

Init ==
    /\ card = [c \in Codes |-> "none"]
    /\ holder = [c \in Codes |-> Nobody]
    /\ given = [c \in Codes |-> [m \in Devices |-> 0]]
    /\ told = {}

\* An imported card may have lapsed already.
Issue(c) ==
    /\ card[c] = "none"
    /\ \E state \in {"usable", "over"} : card' = [card EXCEPT ![c] = state]
    /\ UNCHANGED <<holder, given, told>>

Lapse(c) ==
    /\ card[c] = "usable"
    /\ card' = [card EXCEPT ![c] = "over"]
    /\ UNCHANGED <<holder, given, told>>

\* One card or a batch: never one that was redeemed.
Revoke(S) ==
    /\ \A c \in S : card[c] \in {"usable", "over"}
    /\ card' = [c \in Codes |-> IF c \in S THEN "revoked" ELSE card[c]]
    /\ UNCHANGED <<holder, given, told>>

Redeem(c, m) ==
    /\ card[c] = "usable"
    /\ card' = [card EXCEPT ![c] = "owed"]
    /\ holder' = [holder EXCEPT ![c] = m]
    /\ UNCHANGED <<given, told>>

Give(c) ==
    /\ card[c] = "owed"
    /\ card' = [card EXCEPT ![c] = "given"]
    /\ given' = [given EXCEPT ![c][holder[c]] = @ + 1]
    /\ UNCHANGED <<holder, told>>

\* The process fails: customers who were about to get their days do not.
Lose(S) ==
    /\ \A c \in S : card[c] = "owed"
    /\ card' = [c \in Codes |-> IF c \in S THEN "lost" ELSE card[c]]
    /\ UNCHANGED <<holder, given, told>>

Tell(c) ==
    /\ card[c] = "given"
    /\ told' = told \cup {c}
    /\ UNCHANGED <<card, holder, given>>

Next ==
    \/ \E c \in Codes : Issue(c) \/ Lapse(c) \/ Give(c) \/ Tell(c)
    \/ \E c \in Codes, m \in Devices : Redeem(c, m)
    \/ \E S \in SUBSET Codes : Revoke(S) \/ Lose(S)

Spec == Init /\ [][Next]_cards
=============================================================================
