------------------------------- MODULE Voucher -------------------------------
(***************************************************************************)
(* Prepaid codes: generated or imported one row at a time, revoked one by  *)
(* one or by the batch, and redeemed by customers (internal/server/        *)
(* voucher.go, the voucher part of internal/db/db.go and api_admin.go).    *)
(*                                                                         *)
(* RedeemVoucher is one transaction, but the time it stands for is granted *)
(* by a second one, and a revocation, another customer, the loss of the    *)
(* request or the end of the process may come in between.  Any number of   *)
(* requests is in flight; what they hold is in calls and lines.            *)
(***************************************************************************)
EXTENDS Integers, FiniteSets

CONSTANTS
    Codes,      \* what may be printed on a card
    Valid,      \* the codes voucher.Validate accepts: 12 letters of its alphabet
    Batches,    \* batch labels
    Devices,    \* device addresses
    Nobody,     \* redeemed_by_mac of a code that was not redeemed
    Faults,     \* what may go wrong
    MaxFaults,  \* and how often
    MaxLines    \* bound on the rows waiting to be inserted

FaultKinds == {"db",     \* a statement fails, or the request was cancelled
               "fw",     \* a firewall command fails
               "crash"}  \* the process dies

ASSUME CodesAssumption ==
    Valid \subseteq Codes /\ IsFiniteSet(Codes) /\ Nobody \notin Devices

ASSUME BoundsAssumption == MaxFaults \in Nat /\ MaxLines \in Nat /\ Faults \subseteq FaultKinds

VARIABLES
    voucher,   \* the vouchers table
    hasRow,    \* devices with a row in the macs table
    lines,     \* rows that generate and import requests have still to insert
    calls,     \* redemptions under way
    given,     \* history: how often each device got the days of each code
    lost,      \* history: how often they were redeemed and not given
    told,      \* codes whose customer has seen the success page
    budget     \* faults still to come

vars == <<voucher, hasRow, lines, calls, given, lost, told, budget>>

\* expires_at is null, ahead or past.
Life == {"forever", "running", "over"}

Row == [stored : BOOLEAN, batch : Batches, life : Life,
        revoked : BOOLEAN, by : Devices \cup {Nobody}]

Line == [code : Codes, batch : Batches, life : Life]

(* extend: RedeemVoucher has committed; reread: UpsertMAC has committed,   *)
(* its GetMAC is to come; add: the firewall call is to come.               *)
Call == [pc : {"extend", "reread", "add"}, code : Codes, mac : Devices]

Fault(kind) == kind \in Faults /\ budget > 0 /\ budget' = budget - 1

Unused == {c \in Codes : /\ voucher[c].stored
                         /\ ~voucher[c].revoked
                         /\ voucher[c].by = Nobody
                         /\ voucher[c].life # "over"}
-----------------------------------------------------------------------------
Init ==
    /\ \E b \in Batches :
          voucher = [c \in Codes |-> [stored |-> FALSE, batch |-> b, life |-> "forever",
                                      revoked |-> FALSE, by |-> Nobody]]
    /\ hasRow = {}
    /\ lines = {}
    /\ calls = {}
    /\ given = [c \in Codes |-> [m \in Devices |-> 0]]
    /\ lost = [c \in Codes |-> [m \in Devices |-> 0]]
    /\ told = {}
    /\ budget = MaxFaults

\* handleAdminVouchersGenerate, handleAPIVoucherGenerate: fresh random codes.
Generate(S, b, life) ==
    /\ lines' = lines \cup [code : S, batch : {b}, life : {life}]
    /\ Cardinality(lines') <= MaxLines
    /\ UNCHANGED <<voucher, hasRow, calls, given, lost, told, budget>>

\* handleAdminVouchersImport: whatever the file says.
Import(l) ==
    /\ lines' = lines \cup {l}
    /\ Cardinality(lines') <= MaxLines
    /\ UNCHANGED <<voucher, hasRow, calls, given, lost, told, budget>>

\* One insert; a code that is already stored is refused by UNIQUE.
CreateVoucher(l) ==
    /\ l \in lines
    /\ lines' = lines \ {l}
    /\ \/ /\ ~voucher[l.code].stored
          /\ voucher' = [voucher EXCEPT ![l.code] =
                [stored |-> TRUE, batch |-> l.batch, life |-> l.life,
                 revoked |-> FALSE, by |-> Nobody]]
          /\ UNCHANGED budget
       \/ voucher[l.code].stored /\ UNCHANGED <<voucher, budget>>
       \/ Fault("db") /\ UNCHANGED voucher
    /\ UNCHANGED <<hasRow, calls, given, lost, told>>

\* Mutant: redeemed_at is not looked at.
RevokeAnyVoucher(c) ==
    /\ voucher[c].stored
    /\ voucher' = [voucher EXCEPT ![c].revoked = TRUE]
    /\ UNCHANGED <<hasRow, lines, calls, given, lost, told, budget>>

RevokeVoucher(c) ==
    /\ voucher[c].stored
    /\ voucher[c].by = Nobody
    /\ voucher' = [voucher EXCEPT ![c].revoked = TRUE]
    /\ UNCHANGED <<hasRow, lines, calls, given, lost, told, budget>>

RevokeVoucherBatch(b) ==
    /\ voucher' = [c \in Codes |->
          IF voucher[c].stored /\ voucher[c].batch = b /\ voucher[c].by = Nobody
          THEN [voucher[c] EXCEPT !.revoked = TRUE] ELSE voucher[c]]
    /\ UNCHANGED <<hasRow, lines, calls, given, lost, told, budget>>
-----------------------------------------------------------------------------
\* Mutants: RedeemVoucher without its check of redeemed_at, of revoked.
RedeemUsed(c, m) ==
    /\ c \in Valid
    /\ voucher[c].stored /\ ~voucher[c].revoked /\ voucher[c].life # "over"
    /\ voucher' = [voucher EXCEPT ![c].by = m]
    /\ calls' = calls \cup {[pc |-> "extend", code |-> c, mac |-> m]}
    /\ UNCHANGED <<hasRow, lines, given, lost, told, budget>>

RedeemRevoked(c, m) ==
    /\ c \in Valid
    /\ voucher[c].stored /\ voucher[c].by = Nobody /\ voucher[c].life # "over"
    /\ voucher' = [voucher EXCEPT ![c].by = m]
    /\ calls' = calls \cup {[pc |-> "extend", code |-> c, mac |-> m]}
    /\ UNCHANGED <<hasRow, lines, given, lost, told, budget>>

\* Mutant: the device is noted as the customer typed it.
RedeemUnnormalized(c, m) ==
    /\ c \in Valid
    /\ c \in Unused
    /\ voucher' = [voucher EXCEPT ![c].by = "11-22-33"]
    /\ calls' = calls \cup {[pc |-> "extend", code |-> c, mac |-> m]}
    /\ UNCHANGED <<hasRow, lines, given, lost, told, budget>>

\* handleRedeem: the transaction of RedeemVoucher ...
RedeemVoucher(c, m) ==
    /\ c \in Valid
    /\ c \in Unused
    /\ voucher' = [voucher EXCEPT ![c].by = m]
    /\ calls' = calls \cup {[pc |-> "extend", code |-> c, mac |-> m]}
    /\ UNCHANGED <<hasRow, lines, given, lost, told, budget>>

\* Call k is over, or goes on.
Ends(k) == calls' = calls \ {k}

Goes(k, pc) == calls' = (calls \ {k}) \cup {[k EXCEPT !.pc = pc]}

\* Mutant: an error of UpsertMAC is logged, and the handler carries on.
UpsertMACOnwards(k) ==
    /\ k \in calls /\ k.pc = "extend"
    /\ \/ /\ given' = [given EXCEPT ![k.code][k.mac] = @ + 1]
          /\ hasRow' = hasRow \cup {k.mac}
          /\ Goes(k, "reread")
          /\ UNCHANGED <<lost, budget>>
       \/ /\ Fault("db")
          /\ lost' = [lost EXCEPT ![k.code][k.mac] = @ + 1]
          /\ Goes(k, "reread")
          /\ UNCHANGED <<given, hasRow>>
    /\ UNCHANGED <<voucher, lines, told>>

\* ... then the one of UpsertMAC, without which the code is spent for nothing:
\* the customer who tries again is told that it was used ...
UpsertMAC(k) ==
    /\ k \in calls /\ k.pc = "extend"
    /\ \/ /\ given' = [given EXCEPT ![k.code][k.mac] = @ + 1]
          /\ hasRow' = hasRow \cup {k.mac}
          /\ Goes(k, "reread")
          /\ UNCHANGED <<lost, budget>>
       \/ /\ Fault("db")
          /\ lost' = [lost EXCEPT ![k.code][k.mac] = @ + 1]
          /\ Ends(k)
          /\ UNCHANGED <<given, hasRow>>
    /\ UNCHANGED <<voucher, lines, told>>

\* ... its GetMAC, which panics in the caller when the device was deleted ...
Reread(k) ==
    /\ k \in calls /\ k.pc = "reread"
    /\ \/ k.mac \in hasRow /\ Goes(k, "add") /\ UNCHANGED budget
       \/ k.mac \notin hasRow /\ Ends(k) /\ UNCHANGED budget
       \/ Fault("db") /\ Ends(k)
    /\ UNCHANGED <<voucher, hasRow, lines, given, lost, told>>

\* ... and the firewall call, whose error costs the customer the success page.
FwAdd(k) ==
    /\ k \in calls /\ k.pc = "add"
    /\ Ends(k)
    /\ \/ told' = told \cup {k.code} /\ UNCHANGED budget
       \/ Fault("fw") /\ UNCHANGED told
    /\ UNCHANGED <<voucher, hasRow, lines, given, lost>>
-----------------------------------------------------------------------------
DeleteMAC(m) ==
    /\ m \in hasRow
    /\ hasRow' = hasRow \ {m}
    /\ UNCHANGED <<voucher, lines, calls, given, lost, told, budget>>

\* expires_at passes.
Lapse(c) ==
    /\ voucher[c].stored
    /\ voucher[c].life = "running"
    /\ voucher' = [voucher EXCEPT ![c].life = "over"]
    /\ UNCHANGED <<hasRow, lines, calls, given, lost, told, budget>>

\* Requests are gone, the tables are not.
Crash ==
    /\ Fault("crash")
    /\ lines' = {}
    /\ calls' = {}
    /\ lost' = [c \in Codes |-> [m \in Devices |->
          IF [pc |-> "extend", code |-> c, mac |-> m] \in calls
          THEN lost[c][m] + 1 ELSE lost[c][m]]]
    /\ UNCHANGED <<voucher, hasRow, given, told>>

Next ==
    \/ \E S \in SUBSET Valid, b \in Batches, life \in Life \ {"over"} : Generate(S, b, life)
    \/ \E l \in Line : Import(l)
    \/ \E l \in lines : CreateVoucher(l)
    \/ \E c \in Codes : RevokeVoucher(c) \/ Lapse(c)
    \/ \E b \in Batches : RevokeVoucherBatch(b)
    \/ \E c \in Codes, m \in Devices : RedeemVoucher(c, m)
    \/ \E k \in calls : UpsertMAC(k) \/ Reread(k) \/ FwAdd(k)
    \/ \E m \in Devices : DeleteMAC(m)
    \/ Crash

Spec == Init /\ [][Next]_vars
-----------------------------------------------------------------------------
\* Types of the tables and of the requests in flight (models.Voucher).
TypeOK ==
    /\ voucher \in [Codes -> Row]
    /\ hasRow \subseteq Devices
    /\ lines \subseteq Line
    /\ calls \subseteq Call
    /\ given \in [Codes -> [Devices -> Nat]]
    /\ lost \in [Codes -> [Devices -> Nat]]
    /\ told \subseteq Codes
    /\ budget \in 0..MaxFaults

Owed(c, m) == [pc |-> "extend", code |-> c, mac |-> m] \in calls

Counted(c, m) == given[c][m] + lost[c][m] + (IF Owed(c, m) THEN 1 ELSE 0)

(* A code is worth its days once, to the device it was redeemed for: they  *)
(* were given, or are about to be, or were lost to a failure; however many *)
(* customers type it at once, and whatever is revoked or deleted meanwhile *)
(* (RedeemVoucher, handleRedeem).                                          *)
Ledger ==
    \A c \in Codes, m \in Devices :
        Counted(c, m) = IF voucher[c].by = m THEN 1 ELSE 0

(* A revoked code has given nothing and will give nothing, and a success   *)
(* page is not taken back: "Redeemed vouchers are intentionally untouched" *)
(* (voucher.go:212).                                                       *)
RevokedGivesNothing ==
    \A c \in Codes : voucher[c].revoked =>
        /\ c \notin told
        /\ \A m \in Devices : given[c][m] = 0 /\ ~Owed(c, m)

\* The columns of VoucherBatchStats.
InBatch(b) == {c \in Codes : voucher[c].stored /\ voucher[c].batch = b}
UnusedIn(b) == InBatch(b) \cap Unused
RedeemedIn(b) == {c \in InBatch(b) : voucher[c].by # Nobody}
RevokedIn(b) == {c \in InBatch(b) : voucher[c].revoked}
ExpiredIn(b) ==
    {c \in InBatch(b) :
        voucher[c].by = Nobody /\ ~voucher[c].revoked /\ voucher[c].life = "over"}

(* The batch summary adds up: redeemed and revoked are counted without     *)
(* regard to each other, so a card that were both would be counted twice   *)
(* (VoucherBatchStats).                                                    *)
StatsAddUp ==
    \A b \in Batches :
        Cardinality(InBatch(b)) =
            Cardinality(UnusedIn(b)) + Cardinality(RedeemedIn(b))
              + Cardinality(RevokedIn(b)) + Cardinality(ExpiredIn(b))

(* Who has seen the success page has got the time (handleRedeem).          *)
SuccessIsTrue ==
    \A c \in told : \E m \in Devices : voucher[c].by = m /\ given[c][m] = 1
-----------------------------------------------------------------------------
CardOf(c) ==
    IF ~voucher[c].stored THEN "none"
    ELSE IF voucher[c].revoked THEN "revoked"
    ELSE IF voucher[c].by = Nobody THEN (IF voucher[c].life = "over" THEN "over" ELSE "usable")
    ELSE IF Owed(c, voucher[c].by) THEN "owed"
    ELSE IF given[c][voucher[c].by] = 1 THEN "given" ELSE "lost"

Cards == INSTANCE CardBook WITH
             card <- [c \in Codes |-> CardOf(c)],
             holder <- [c \in Codes |-> voucher[c].by]

(* Requests in two transactions, retries of what was stored, revocations   *)
(* in between and crashes come down to cards that are printed, redeemed,   *)
(* worth their days and confirmed in that order, each step once; a revoked *)
(* one gives nothing (RedeemVoucher, handleRedeem, the revocations).       *)
KeepsTheCards == Cards!Spec
=============================================================================
