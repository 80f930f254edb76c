---------------------------- MODULE VoucherProofs ----------------------------
(* A code is worth its days once, a revoked one nothing, a success page is *)
(* true and the batch summary adds up: for any set of codes, devices and   *)
(* batches, and any number of requests in flight.                          *)
EXTENDS Voucher, FiniteSetTheorems, TLAPS

USE CodesAssumption, BoundsAssumption

(* Past UpsertMAC the days are given; a card is not both.                  *)
LateIsGiven == \A k \in calls : k.pc # "extend" => given[k.code][k.mac] = 1

NeverBoth ==
    \A c \in Codes : voucher[c].by # Nobody => ~voucher[c].revoked /\ voucher[c].stored

IInv == TypeOK /\ Ledger /\ LateIsGiven /\ NeverBoth /\ SuccessIsTrue

LEMMA InitIInv == Init => IInv
<1> SUFFICES ASSUME Init PROVE IInv
  OBVIOUS
<1>1. TypeOK
  BY DEF Init, TypeOK, Row, Life
<1>2. Ledger
  BY DEF Init, Ledger, Counted, Owed
<1>3. LateIsGiven /\ NeverBoth /\ SuccessIsTrue
  BY DEF Init, LateIsGiven, NeverBoth, SuccessIsTrue
<1> QED BY <1>1, <1>2, <1>3 DEF IInv
-----------------------------------------------------------------------------
(* Steps that change no redemption: who redeemed which code, the calls,    *)
(* the history and the pages shown stay as they are.                       *)
LEMMA QuietKeeps ==
    ASSUME IInv, TypeOK', UNCHANGED <<calls, given, lost, told>>,
           \A c \in Codes : voucher'[c].by = voucher[c].by,
           \A c \in Codes : voucher[c].by # Nobody =>
                voucher'[c].revoked = voucher[c].revoked /\ voucher'[c].stored = voucher[c].stored
    PROVE  IInv'
<1>1. Ledger'
  BY DEF IInv, Ledger, Counted, Owed
<1>2. LateIsGiven'
  BY DEF IInv, LateIsGiven
<1>3. NeverBoth'
  BY DEF IInv, NeverBoth
<1>4. SuccessIsTrue'
  BY DEF IInv, TypeOK, SuccessIsTrue
<1> QED BY <1>1, <1>2, <1>3, <1>4 DEF IInv

(* Generation, import and insertion.  A code that is not stored was not    *)
(* redeemed.                                                               *)
LEMMA StockKeeps ==
    ASSUME IInv,
           \/ \E S \in SUBSET Valid, b \in Batches, life \in Life \ {"over"} :
                 Generate(S, b, life)
           \/ \E l \in Line : Import(l)
           \/ \E l \in lines : CreateVoucher(l)
    PROVE  IInv'
<1>1. ASSUME NEW S \in SUBSET Valid, NEW b \in Batches, NEW life \in Life \ {"over"},
             Generate(S, b, life)
      PROVE  IInv'
  <2>1. [code : S, batch : {b}, life : {life}] \subseteq Line
    BY DEF Line
  <2>2. TypeOK'
    BY <1>1, <2>1 DEF IInv, TypeOK, Generate
  <2> QED BY <1>1, <2>2, QuietKeeps DEF Generate
<1>2. ASSUME NEW l \in Line, Import(l) PROVE IInv'
  <2>1. TypeOK'
    BY <1>2 DEF IInv, TypeOK, Import
  <2> QED BY <1>2, <2>1, QuietKeeps DEF Import
<1>3. ASSUME NEW l \in lines, CreateVoucher(l) PROVE IInv'
  <2>1. l \in Line
    BY DEF IInv, TypeOK
  <2> DEFINE row == [stored |-> TRUE, batch |-> l.batch, life |-> l.life,
                     revoked |-> FALSE, by |-> Nobody]
  <2>a. row \in Row /\ l.code \in Codes
    BY <2>1 DEF Line, Row
  <2>b. UNCHANGED voucher \/ voucher' = [voucher EXCEPT ![l.code] = row]
    BY <1>3 DEF CreateVoucher
  <2> HIDE DEF row
  <2>c. voucher' \in [Codes -> Row]
    BY <2>a, <2>b DEF IInv, TypeOK
  <2>d. lines' \subseteq Line /\ budget' \in 0..MaxFaults
    BY <1>3 DEF IInv, TypeOK, CreateVoucher, Fault
  <2>2. TypeOK'
    BY <1>3, <2>c, <2>d DEF IInv, TypeOK, CreateVoucher
  <2>3. CASE UNCHANGED voucher
    BY <1>3, <2>2, <2>3, QuietKeeps DEF CreateVoucher
  <2>4. CASE /\ ~voucher[l.code].stored
             /\ voucher' = [voucher EXCEPT ![l.code] =
                   [stored |-> TRUE, batch |-> l.batch, life |-> l.life,
                    revoked |-> FALSE, by |-> Nobody]]
    <3>1. voucher[l.code].by = Nobody
      BY <2>1, <2>4 DEF IInv, NeverBoth, Line
    <3>2. \A c \in Codes : voucher'[c].by = voucher[c].by
      BY <2>1, <2>4, <3>1 DEF IInv, TypeOK, Line
    <3>3. \A c \in Codes : voucher[c].by # Nobody => voucher'[c] = voucher[c]
      BY <2>1, <2>4, <3>1 DEF IInv, TypeOK, Line
    <3> QED BY <1>3, <2>2, <3>2, <3>3, QuietKeeps DEF CreateVoucher
  <2> QED BY <1>3, <2>3, <2>4 DEF CreateVoucher
<1> QED BY <1>1, <1>2, <1>3

(* Revocations, the clock, and deletions of devices.                       *)
LEMMA AdministerKeeps ==
    ASSUME IInv,
           \/ \E c \in Codes : RevokeVoucher(c) \/ Lapse(c)
           \/ \E b \in Batches : RevokeVoucherBatch(b)
           \/ \E m \in Devices : DeleteMAC(m)
    PROVE  IInv'
<1>1. ASSUME NEW c \in Codes, RevokeVoucher(c) PROVE IInv'
  <2>1. TypeOK'
    BY <1>1 DEF IInv, TypeOK, RevokeVoucher, Row
  <2>2. \A d \in Codes : voucher'[d].by = voucher[d].by
    BY <1>1 DEF IInv, TypeOK, RevokeVoucher, Row
  <2>3. \A d \in Codes : voucher[d].by # Nobody => voucher'[d] = voucher[d]
    BY <1>1 DEF IInv, TypeOK, RevokeVoucher, Row
  <2> QED BY <1>1, <2>1, <2>2, <2>3, QuietKeeps DEF RevokeVoucher
<1>2. ASSUME NEW c \in Codes, Lapse(c) PROVE IInv'
  <2>1. TypeOK'
    BY <1>2 DEF IInv, TypeOK, Lapse, Row, Life
  <2>2. \A d \in Codes : /\ voucher'[d].by = voucher[d].by
                         /\ voucher'[d].revoked = voucher[d].revoked
                         /\ voucher'[d].stored = voucher[d].stored
    BY <1>2 DEF IInv, TypeOK, Lapse, Row
  <2> QED BY <1>2, <2>1, <2>2, QuietKeeps DEF Lapse
<1>3. ASSUME NEW b \in Batches, RevokeVoucherBatch(b) PROVE IInv'
  <2>1. TypeOK'
    BY <1>3 DEF IInv, TypeOK, RevokeVoucherBatch, Row
  <2>2. \A d \in Codes : voucher'[d].by = voucher[d].by
    BY <1>3 DEF IInv, TypeOK, RevokeVoucherBatch, Row
  <2>3. \A d \in Codes : voucher[d].by # Nobody => voucher'[d] = voucher[d]
    BY <1>3 DEF IInv, TypeOK, RevokeVoucherBatch, Row
  <2> QED BY <1>3, <2>1, <2>2, <2>3, QuietKeeps DEF RevokeVoucherBatch
<1>4. ASSUME NEW m \in Devices, DeleteMAC(m) PROVE IInv'
  <2>1. TypeOK'
    BY <1>4 DEF IInv, TypeOK, DeleteMAC
  <2> QED BY <1>4, <2>1, QuietKeeps DEF DeleteMAC
<1> QED BY <1>1, <1>2, <1>3, <1>4
-----------------------------------------------------------------------------
(* RedeemVoucher: nothing was counted for the code before.                 *)
LEMMA RedeemKeeps ==
    ASSUME IInv, NEW c \in Codes, NEW m \in Devices, RedeemVoucher(c, m)
    PROVE  IInv'
<1> DEFINE new == [pc |-> "extend", code |-> c, mac |-> m]
<1>1. /\ voucher[c].by = Nobody /\ voucher[c].stored /\ ~voucher[c].revoked
      /\ voucher' = [voucher EXCEPT ![c].by = m]
      /\ calls' = calls \cup {new}
      /\ UNCHANGED <<hasRow, lines, given, lost, told, budget>>
  BY DEF RedeemVoucher, Unused
<1>2. new \in Call
  BY DEF Call
<1>3. TypeOK'
  BY <1>1, <1>2 DEF IInv, TypeOK, Row
<1>4. \A d \in Codes : voucher'[d].by = IF d = c THEN m ELSE voucher[d].by
  BY <1>1 DEF IInv, TypeOK, Row
<1>5. \A d \in Codes, n \in Devices :
         Owed(d, n)' <=> Owed(d, n) \/ (d = c /\ n = m)
  BY <1>1 DEF Owed
<1>6. Ledger'
  <2> SUFFICES ASSUME NEW d \in Codes, NEW n \in Devices
               PROVE  Counted(d, n)' = IF voucher'[d].by = n THEN 1 ELSE 0
    BY DEF Ledger
  <2>1. Counted(d, n) = IF voucher[d].by = n THEN 1 ELSE 0
    BY DEF IInv, Ledger
  <2>2. given[d][n] \in Nat /\ lost[d][n] \in Nat
    BY DEF IInv, TypeOK
  <2>3. CASE d = c /\ n = m
    <3>1. ~Owed(d, n) /\ given[d][n] = 0 /\ lost[d][n] = 0
      BY <1>1, <2>1, <2>2, <2>3 DEF Counted
    <3> QED BY <1>1, <1>4, <1>5, <2>3, <3>1 DEF Counted
  <2>4. CASE ~(d = c /\ n = m)
    <3>1. Counted(d, n)' = Counted(d, n)
      BY <1>1, <1>5, <2>4 DEF Counted
    <3>2. CASE d = c
      BY <1>1, <1>4, <2>1, <2>4, <3>1, <3>2
    <3>3. CASE d # c
      BY <1>4, <2>1, <3>1, <3>3
    <3> QED BY <3>2, <3>3
  <2> QED BY <2>3, <2>4
<1>7. LateIsGiven'
  BY <1>1 DEF IInv, LateIsGiven
<1>8. NeverBoth'
  BY <1>1 DEF IInv, TypeOK, NeverBoth, Row
<1>9. SuccessIsTrue'
  BY <1>1, <1>4 DEF IInv, TypeOK, SuccessIsTrue
<1> QED BY <1>3, <1>6, <1>7, <1>8, <1>9 DEF IInv

(* A call that is due its days is the only thing counted for its code.     *)
LEMMA OwedAlone ==
    ASSUME IInv, NEW k \in calls, k.pc = "extend"
    PROVE  /\ k \in Call
           /\ k = [pc |-> "extend", code |-> k.code, mac |-> k.mac]
           /\ Owed(k.code, k.mac)
           /\ voucher[k.code].by = k.mac
           /\ given[k.code][k.mac] = 0
           /\ lost[k.code][k.mac] = 0
<1>1. k \in Call
  BY DEF IInv, TypeOK
<1>2. k = [pc |-> "extend", code |-> k.code, mac |-> k.mac]
  BY <1>1 DEF Call
<1>3. k.code \in Codes /\ k.mac \in Devices
  BY <1>1 DEF Call
<1>4. Owed(k.code, k.mac)
  BY <1>2 DEF Owed
<1>5. given[k.code][k.mac] \in Nat /\ lost[k.code][k.mac] \in Nat
  BY <1>3 DEF IInv, TypeOK
<1>6. Counted(k.code, k.mac) = IF voucher[k.code].by = k.mac THEN 1 ELSE 0
  BY <1>3 DEF IInv, Ledger
<1> QED BY <1>1, <1>2, <1>4, <1>5, <1>6 DEF Counted

(* UpsertMAC moves the code's one from owed to given, or to lost.          *)
LEMMA UpsertKeeps ==
    ASSUME IInv, NEW k \in calls, UpsertMAC(k)
    PROVE  IInv'
<1>1. k.pc = "extend"
  BY DEF UpsertMAC
<1>2. /\ k \in Call
      /\ k = [pc |-> "extend", code |-> k.code, mac |-> k.mac]
      /\ Owed(k.code, k.mac)
      /\ voucher[k.code].by = k.mac
      /\ given[k.code][k.mac] = 0
      /\ lost[k.code][k.mac] = 0
  BY <1>1, OwedAlone
<1> DEFINE c == k.code
           m == k.mac
           late == [k EXCEPT !.pc = "reread"]
<1>3. c \in Codes /\ m \in Devices
  BY <1>2 DEF Call
<1>4. late \in Call /\ late.pc = "reread" /\ late.code = c /\ late.mac = m
  BY <1>2 DEF Call
<1>5. UNCHANGED voucher /\ UNCHANGED told /\ UNCHANGED lines
  BY DEF UpsertMAC
<1>6. \/ /\ given' = [given EXCEPT ![c][m] = @ + 1]
         /\ UNCHANGED lost
         /\ calls' = (calls \ {k}) \cup {late}
      \/ /\ UNCHANGED given
         /\ lost' = [lost EXCEPT ![c][m] = @ + 1]
         /\ calls' = calls \ {k}
  BY DEF UpsertMAC, Goes, Ends
<1>7. TypeOK'
  <2>1. calls' \subseteq Call
    BY <1>4, <1>6 DEF IInv, TypeOK
  <2>2. given' \in [Codes -> [Devices -> Nat]] /\ lost' \in [Codes -> [Devices -> Nat]]
    <3>1. /\ given \in [Codes -> [Devices -> Nat]] /\ given[c] \in [Devices -> Nat]
          /\ lost \in [Codes -> [Devices -> Nat]] /\ lost[c] \in [Devices -> Nat]
      BY <1>3 DEF IInv, TypeOK
    <3>2. /\ [given[c] EXCEPT ![m] = @ + 1] \in [Devices -> Nat]
          /\ [lost[c] EXCEPT ![m] = @ + 1] \in [Devices -> Nat]
      BY <1>3, <3>1
    <3>3. CASE given' = [given EXCEPT ![c][m] = @ + 1] /\ UNCHANGED lost
      <4>1. given' = [given EXCEPT ![c] = [given[c] EXCEPT ![m] = @ + 1]]
        BY <3>3
      <4> HIDE DEF c, m
      <4> QED BY <1>3, <3>1, <3>2, <3>3, <4>1
    <3>4. CASE lost' = [lost EXCEPT ![c][m] = @ + 1] /\ UNCHANGED given
      <4>1. lost' = [lost EXCEPT ![c] = [lost[c] EXCEPT ![m] = @ + 1]]
        BY <3>4
      <4> HIDE DEF c, m
      <4> QED BY <1>3, <3>1, <3>2, <3>4, <4>1
    <3> QED BY <1>6, <3>3, <3>4
  <2>3. hasRow' \subseteq Devices /\ budget' \in 0..MaxFaults
    BY <1>3 DEF IInv, TypeOK, UpsertMAC, Fault
  <2> QED BY <1>5, <2>1, <2>2, <2>3 DEF IInv, TypeOK
<1>8. \A d \in Codes, n \in Devices :
         Owed(d, n)' <=> Owed(d, n) /\ ~(d = c /\ n = m)
  BY <1>2, <1>4, <1>6 DEF Owed
<1>9. \A d \in Codes, n \in Devices :
         ~(d = c /\ n = m) => given'[d][n] = given[d][n] /\ lost'[d][n] = lost[d][n]
  BY <1>3, <1>6 DEF IInv, TypeOK
<1>10. given'[c][m] + lost'[c][m] = 1 /\ given'[c][m] \in Nat /\ lost'[c][m] \in Nat
  BY <1>2, <1>3, <1>6 DEF IInv, TypeOK
<1> HIDE DEF c, m, late
<1>11. Ledger'
  <2> SUFFICES ASSUME NEW d \in Codes, NEW n \in Devices
               PROVE  Counted(d, n)' = IF voucher'[d].by = n THEN 1 ELSE 0
    BY DEF Ledger
  <2>1. CASE d = c /\ n = m
    <3>1. voucher'[d].by = n
      BY <1>2, <1>5, <2>1 DEF c, m
    <3> QED BY <1>8, <1>10, <2>1, <3>1 DEF Counted
  <2>2. CASE ~(d = c /\ n = m)
    BY <1>5, <1>8, <1>9, <2>2 DEF IInv, Ledger, Counted
  <2> QED BY <2>1, <2>2
<1>12. LateIsGiven'
  <2> SUFFICES ASSUME NEW j \in calls', j.pc # "extend"
               PROVE  given'[j.code][j.mac] = 1
    BY DEF LateIsGiven
  <2>1. CASE j = late
    <3>1. late \in calls'
      BY <2>1
    <3>2. late \notin calls \ {k} \/ late \in calls
      OBVIOUS
    <3>3. given'[c][m] = 1
      <4>1. CASE calls' = calls \ {k}
        <5>1. late \in calls
          BY <3>1, <4>1
        <5>2. given[c][m] = 1
          BY <1>4, <5>1 DEF IInv, LateIsGiven
        <5> QED BY <1>2, <5>2 DEF c, m
      <4>2. CASE given' = [given EXCEPT ![c][m] = @ + 1]
        BY <1>2, <1>3, <4>2 DEF IInv, TypeOK, c, m
      <4> QED BY <1>6, <4>1, <4>2
    <3> QED BY <1>4, <2>1, <3>3
  <2>2. CASE j # late
    <3>1. j \in calls
      BY <1>6, <2>2
    <3>2. given[j.code][j.mac] = 1 /\ j.code \in Codes /\ j.mac \in Devices
      BY <3>1 DEF IInv, TypeOK, LateIsGiven, Call
    <3>3. ~(j.code = c /\ j.mac = m)
      BY <1>2, <3>2 DEF c, m
    <3> QED BY <1>9, <3>2, <3>3
  <2> QED BY <2>1, <2>2
<1>13. NeverBoth'
  BY <1>5 DEF IInv, NeverBoth
<1>14. SuccessIsTrue'
  <2> SUFFICES ASSUME NEW d \in told
               PROVE  \E n \in Devices : voucher[d].by = n /\ given'[d][n] = 1
    BY <1>5 DEF SuccessIsTrue
  <2>1. d \in Codes
    BY DEF IInv, TypeOK
  <2>2. PICK n \in Devices : voucher[d].by = n /\ given[d][n] = 1
    BY DEF IInv, SuccessIsTrue
  <2>3. ~(d = c /\ n = m)
    BY <1>2, <2>2 DEF c, m
  <2> QED BY <1>9, <2>1, <2>2, <2>3
<1> QED BY <1>7, <1>11, <1>12, <1>13, <1>14 DEF IInv

(* The rest of the handler: the days are given, only the answer is open.   *)
LEMMA LateKeeps ==
    ASSUME IInv, NEW k \in calls, Reread(k) \/ FwAdd(k)
    PROVE  IInv'
<1>1. k \in Call /\ k.pc # "extend" /\ k.code \in Codes /\ k.mac \in Devices
  BY DEF IInv, TypeOK, Reread, FwAdd, Call
<1>2. given[k.code][k.mac] = 1
  BY <1>1 DEF IInv, LateIsGiven
<1>3. voucher[k.code].by = k.mac
  <2>1. Counted(k.code, k.mac) = IF voucher[k.code].by = k.mac THEN 1 ELSE 0
    BY <1>1 DEF IInv, Ledger
  <2>2. lost[k.code][k.mac] \in Nat
    BY <1>1 DEF IInv, TypeOK
  <2> QED BY <1>2, <2>1, <2>2 DEF Counted
<1> DEFINE next == [k EXCEPT !.pc = "add"]
<1>4. next \in Call /\ next.pc = "add" /\ next.code = k.code /\ next.mac = k.mac
  BY <1>1 DEF Call
<1>5. calls' = calls \ {k} \/ calls' = (calls \ {k}) \cup {next}
  BY DEF Reread, FwAdd, Ends, Goes
<1>6. UNCHANGED voucher /\ UNCHANGED given /\ UNCHANGED lost /\ UNCHANGED lines
  BY DEF Reread, FwAdd
<1>7. told' = told \/ told' = told \cup {k.code}
  BY DEF Reread, FwAdd
<1>8. TypeOK'
  <2>1. calls' \subseteq Call
    BY <1>4, <1>5 DEF IInv, TypeOK
  <2>2. hasRow' \subseteq Devices /\ budget' \in 0..MaxFaults
    BY DEF IInv, TypeOK, Reread, FwAdd, Fault
  <2> QED BY <1>1, <1>6, <1>7, <2>1, <2>2 DEF IInv, TypeOK
<1>9. \A d \in Codes, n \in Devices : Owed(d, n)' <=> Owed(d, n)
  BY <1>1, <1>4, <1>5 DEF Owed
<1>10. Ledger'
  BY <1>6, <1>9 DEF IInv, Ledger, Counted
<1> HIDE DEF next
<1>11. LateIsGiven'
  BY <1>2, <1>4, <1>5, <1>6 DEF IInv, LateIsGiven
<1>12. NeverBoth'
  BY <1>6 DEF IInv, NeverBoth
<1>13. SuccessIsTrue'
  BY <1>1, <1>2, <1>3, <1>6, <1>7 DEF IInv, SuccessIsTrue
<1> QED BY <1>8, <1>10, <1>11, <1>12, <1>13 DEF IInv

(* A crash turns what is owed into what is lost.                           *)
LEMMA CrashKeeps == ASSUME IInv, Crash PROVE IInv'
<1>1. /\ calls' = {} /\ lines' = {}
      /\ lost' = [c \in Codes |-> [m \in Devices |->
            IF Owed(c, m) THEN lost[c][m] + 1 ELSE lost[c][m]]]
      /\ UNCHANGED <<voucher, hasRow, given, told>>
  BY DEF Crash, Owed
<1>2. \A c \in Codes, m \in Devices : given[c][m] \in Nat /\ lost[c][m] \in Nat
  BY DEF IInv, TypeOK
<1>3. \A c \in Codes, m \in Devices :
         lost'[c][m] = IF Owed(c, m) THEN lost[c][m] + 1 ELSE lost[c][m]
  BY <1>1
<1>4. TypeOK'
  <2>1. lost' \in [Codes -> [Devices -> Nat]]
    BY <1>1, <1>2
  <2>2. budget' \in 0..MaxFaults
    BY DEF IInv, TypeOK, Crash, Fault
  <2> QED BY <1>1, <2>1, <2>2 DEF IInv, TypeOK
<1>5. \A c \in Codes, m \in Devices : ~Owed(c, m)'
  BY <1>1 DEF Owed
<1>6. Ledger'
  <2> SUFFICES ASSUME NEW c \in Codes, NEW m \in Devices
               PROVE  Counted(c, m)' = IF voucher'[c].by = m THEN 1 ELSE 0
    BY DEF Ledger
  <2>1. Counted(c, m) = IF voucher[c].by = m THEN 1 ELSE 0
    BY DEF IInv, Ledger
  <2>2. given'[c][m] = given[c][m] /\ ~Owed(c, m)'
    BY <1>1, <1>5
  <2>3. Counted(c, m)' = given[c][m] + lost'[c][m]
    BY <1>2, <1>3, <2>2 DEF Counted
  <2>4. Counted(c, m)' = Counted(c, m)
    BY <1>2, <1>3, <2>3 DEF Counted
  <2> QED BY <1>1, <2>1, <2>4
<1>7. LateIsGiven' /\ NeverBoth' /\ SuccessIsTrue'
  BY <1>1 DEF IInv, LateIsGiven, NeverBoth, SuccessIsTrue
<1> QED BY <1>4, <1>6, <1>7 DEF IInv

LEMMA StutterKeeps == ASSUME IInv, UNCHANGED vars PROVE IInv'
<1>1. TypeOK'
  BY DEF IInv, TypeOK, vars
<1> QED BY <1>1, QuietKeeps DEF vars

LEMMA NextIInv == IInv /\ [Next]_vars => IInv'
<1> SUFFICES ASSUME IInv, [Next]_vars PROVE IInv'
  OBVIOUS
<1>1. CASE \/ \E S \in SUBSET Valid, b \in Batches, life \in Life \ {"over"} :
                 Generate(S, b, life)
           \/ \E l \in Line : Import(l)
           \/ \E l \in lines : CreateVoucher(l)
  BY <1>1, StockKeeps
<1>2. CASE \/ \E c \in Codes : RevokeVoucher(c) \/ Lapse(c)
           \/ \E b \in Batches : RevokeVoucherBatch(b)
           \/ \E m \in Devices : DeleteMAC(m)
  BY <1>2, AdministerKeeps
<1>3. CASE \E c \in Codes, m \in Devices : RedeemVoucher(c, m)
  BY <1>3, RedeemKeeps
<1>4. CASE \E k \in calls : UpsertMAC(k) \/ Reread(k) \/ FwAdd(k)
  BY <1>4, UpsertKeeps, LateKeeps
<1>5. CASE Crash
  BY <1>5, CrashKeeps
<1>6. CASE UNCHANGED vars
  BY <1>6, StutterKeeps
<1> QED BY <1>1, <1>2, <1>3, <1>4, <1>5, <1>6 DEF Next

LEMMA IInvHolds == Spec => []IInv
  BY InitIInv, NextIInv, PTL DEF Spec
-----------------------------------------------------------------------------
(* The tables and the requests in flight keep their types.                 *)
THEOREM VoucherTypes == Spec => []TypeOK
<1>1. IInv => TypeOK
  BY DEF IInv
<1> QED BY <1>1, IInvHolds, PTL

(* A code's days go once, and to one device: given, owed or lost.          *)
THEOREM OneUse == Spec => []Ledger
<1>1. IInv => Ledger
  BY DEF IInv
<1> QED BY <1>1, IInvHolds, PTL

(* The success page of handleRedeem is true.                               *)
THEOREM PagesAreTrue == Spec => []SuccessIsTrue
<1>1. IInv => SuccessIsTrue
  BY DEF IInv
<1> QED BY <1>1, IInvHolds, PTL

(* A revoked code has given nothing and will give nothing.                 *)
THEOREM RevokedIsWorthless == Spec => []RevokedGivesNothing
<1>1. IInv => RevokedGivesNothing
  <2> SUFFICES ASSUME IInv, NEW c \in Codes, voucher[c].revoked
               PROVE  /\ c \notin told
                      /\ \A m \in Devices : given[c][m] = 0 /\ ~Owed(c, m)
    BY DEF RevokedGivesNothing
  <2>1. voucher[c].by = Nobody
    BY DEF IInv, NeverBoth
  <2>2. c \notin told
    BY <2>1 DEF IInv, SuccessIsTrue
  <2>3. ASSUME NEW m \in Devices PROVE given[c][m] = 0 /\ ~Owed(c, m)
    <3>1. Counted(c, m) = 0
      BY <2>1 DEF IInv, Ledger
    <3>2. given[c][m] \in Nat /\ lost[c][m] \in Nat
      BY DEF IInv, TypeOK
    <3> QED BY <3>1, <3>2 DEF Counted
  <2> QED BY <2>2, <2>3
<1> QED BY <1>1, IInvHolds, PTL

LEMMA DisjointCard ==
    ASSUME NEW S, NEW T, IsFiniteSet(S), IsFiniteSet(T), S \cap T = {}
    PROVE  /\ IsFiniteSet(S \cup T)
           /\ Cardinality(S \cup T) = Cardinality(S) + Cardinality(T)
<1>1. Cardinality(S \cup T) = Cardinality(S) + Cardinality(T) - Cardinality(S \cap T)
  BY FS_Union
<1>2. Cardinality(S \cap T) = 0
  BY FS_EmptySet
<1>3. Cardinality(S) \in Nat /\ Cardinality(T) \in Nat
  BY FS_CardinalityType
<1> QED BY <1>1, <1>2, <1>3, FS_Union

(* The columns of VoucherBatchStats add up for every batch.                *)
THEOREM StatsBalance == Spec => []StatsAddUp
<1>1. IInv => StatsAddUp
  <2> SUFFICES ASSUME IInv, NEW b \in Batches
               PROVE  Cardinality(InBatch(b)) =
                        Cardinality(UnusedIn(b)) + Cardinality(RedeemedIn(b))
                          + Cardinality(RevokedIn(b)) + Cardinality(ExpiredIn(b))
    BY DEF StatsAddUp
  <2> DEFINE U == UnusedIn(b)
             R == RedeemedIn(b)
             V == RevokedIn(b)
             E == ExpiredIn(b)
  <2>1. U \subseteq Codes /\ R \subseteq Codes /\ V \subseteq Codes /\ E \subseteq Codes
    BY DEF UnusedIn, RedeemedIn, RevokedIn, ExpiredIn, InBatch
  <2>2. IsFiniteSet(U) /\ IsFiniteSet(R) /\ IsFiniteSet(V) /\ IsFiniteSet(E)
    BY <2>1, FS_Subset
  <2>3. InBatch(b) = ((U \cup R) \cup V) \cup E
    BY DEF IInv, TypeOK, Row, UnusedIn, RedeemedIn, RevokedIn, ExpiredIn, InBatch, Unused
  <2>4. U \cap R = {}
    BY DEF UnusedIn, RedeemedIn, Unused
  <2>5. (U \cup R) \cap V = {}
    BY DEF IInv, NeverBoth, UnusedIn, RedeemedIn, RevokedIn, InBatch, Unused
  <2>6. ((U \cup R) \cup V) \cap E = {}
    BY DEF UnusedIn, RedeemedIn, RevokedIn, ExpiredIn, InBatch, Unused
  <2>7. /\ Cardinality(U) \in Nat /\ Cardinality(R) \in Nat
        /\ Cardinality(V) \in Nat /\ Cardinality(E) \in Nat
    BY <2>2, FS_CardinalityType
  <2> HIDE DEF U, R, V, E
  <2>8. IsFiniteSet(U \cup R) /\ Cardinality(U \cup R) = Cardinality(U) + Cardinality(R)
    BY <2>2, <2>4, DisjointCard
  <2>9. /\ IsFiniteSet((U \cup R) \cup V)
        /\ Cardinality((U \cup R) \cup V) = Cardinality(U \cup R) + Cardinality(V)
    BY <2>2, <2>5, <2>8, DisjointCard
  <2>10. Cardinality(InBatch(b)) = Cardinality((U \cup R) \cup V) + Cardinality(E)
    BY <2>2, <2>3, <2>6, <2>9, DisjointCard
  <2>11. Cardinality(InBatch(b)) =
            Cardinality(U) + Cardinality(R) + Cardinality(V) + Cardinality(E)
    BY <2>7, <2>8, <2>9, <2>10
  <2> QED BY <2>11 DEF U, R, V, E
<1> QED BY <1>1, IInvHolds, PTL
-----------------------------------------------------------------------------
(* Voucher implements CardBook.                                            *)

LEMMA CardSame ==
    ASSUME NEW c \in Codes, UNCHANGED given, \A m \in Devices : Owed(c, m)' <=> Owed(c, m),
           voucher \in [Codes -> Row], voucher' \in [Codes -> Row],
           \/ voucher'[c] = voucher[c]
           \/ /\ voucher[c].stored /\ (voucher[c].revoked \/ voucher[c].by # Nobody)
              /\ voucher'[c].stored /\ voucher'[c].revoked = voucher[c].revoked
              /\ voucher'[c].by = voucher[c].by
    PROVE  CardOf(c)' = CardOf(c)
<1>1. CASE voucher[c].by = Nobody
  BY <1>1 DEF CardOf
<1>2. CASE voucher[c].by # Nobody
  <2>1. voucher[c].by \in Devices /\ voucher'[c].by = voucher[c].by
    BY <1>2 DEF Row
  <2>2. Owed(c, voucher[c].by)' <=> Owed(c, voucher[c].by)
    BY <2>1
  <2> QED BY <1>2, <2>1, <2>2 DEF CardOf
<1> QED BY <1>1, <1>2

(* A step that changes one card.                                           *)
LEMMA OneCard ==
    ASSUME NEW c \in Codes, NEW state, CardOf(c)' = state,
           \A d \in Codes : d # c => CardOf(d)' = CardOf(d)
    PROVE  [d \in Codes |-> CardOf(d)'] = [[d \in Codes |-> CardOf(d)] EXCEPT ![c] = state]
  OBVIOUS

LEMMA SameCards ==
    ASSUME \A d \in Codes : CardOf(d)' = CardOf(d) /\ voucher'[d].by = voucher[d].by,
           UNCHANGED <<given, told>>
    PROVE  UNCHANGED Cards!cards
  BY DEF Cards!cards

LEMMA CardsStock ==
    ASSUME IInv, TypeOK', NEW l \in lines, CreateVoucher(l)
    PROVE  Cards!Next \/ UNCHANGED Cards!cards
<1>1. /\ UNCHANGED <<calls, given, told>> /\ l.code \in Codes /\ l.life \in Life
      /\ voucher \in [Codes -> Row] /\ voucher' \in [Codes -> Row]
  BY DEF IInv, TypeOK, Line, CreateVoucher
<1>2. \A c \in Codes, m \in Devices : Owed(c, m)' <=> Owed(c, m)
  BY <1>1 DEF Owed
<1>3. CASE UNCHANGED voucher
  <2>1. \A d \in Codes : CardOf(d)' = CardOf(d)
    BY <1>1, <1>2, <1>3, CardSame
  <2> QED BY <1>1, <1>3, <2>1, SameCards
<1>4. CASE /\ ~voucher[l.code].stored
           /\ voucher' = [voucher EXCEPT ![l.code] =
                 [stored |-> TRUE, batch |-> l.batch, life |-> l.life,
                  revoked |-> FALSE, by |-> Nobody]]
  <2> DEFINE c == l.code
  <2>1. \A d \in Codes : d # c => voucher'[d] = voucher[d]
    BY <1>1, <1>4
  <2>2. \A d \in Codes : d # c => CardOf(d)' = CardOf(d)
    BY <1>1, <1>2, <2>1, CardSame
  <2>3. /\ voucher'[c].stored /\ ~voucher'[c].revoked /\ voucher'[c].by = Nobody
        /\ voucher'[c].life = l.life
    BY <1>1, <1>4
  <2>4. PICK state \in {"usable", "over"} : CardOf(c)' = state
    BY <2>3 DEF CardOf
  <2>5. CardOf(c) = "none" /\ voucher[c].by = Nobody
    BY <1>1, <1>4 DEF CardOf, IInv, NeverBoth
  <2>6. \A d \in Codes : voucher'[d].by = voucher[d].by
    BY <2>1, <2>3, <2>5
  <2> HIDE DEF c
  <2>7. c \in Codes
    BY <1>1 DEF c
  <2>8. [d \in Codes |-> CardOf(d)'] = [[d \in Codes |-> CardOf(d)] EXCEPT ![c] = state]
    BY <2>2, <2>4, <2>7, OneCard
  <2>9. Cards!Issue(c)
    BY <1>1, <2>5, <2>6, <2>7, <2>8 DEF Cards!Issue
  <2> QED BY <2>7, <2>9 DEF Cards!Next
<1> QED BY <1>3, <1>4 DEF CreateVoucher

(* Revocations of one card or of a batch: of those that are not redeemed,  *)
(* and not revoked already.                                                *)
LEMMA CardsRevoked ==
    ASSUME IInv, TypeOK', UNCHANGED <<calls, given, told>>,
           NEW S \in SUBSET {c \in Codes : voucher[c].stored /\ voucher[c].by = Nobody},
           voucher' = [c \in Codes |-> IF c \in S THEN [voucher[c] EXCEPT !.revoked = TRUE]
                                      ELSE voucher[c]]
    PROVE  Cards!Next
<1> DEFINE T == {c \in S : ~voucher[c].revoked}
<1>1. voucher \in [Codes -> Row] /\ voucher' \in [Codes -> Row]
  BY DEF IInv, TypeOK
<1>2. \A c \in Codes, m \in Devices : Owed(c, m)' <=> Owed(c, m)
  BY DEF Owed
<1>3. \A c \in S : CardOf(c)' = "revoked"
  BY <1>1 DEF CardOf, Row
<1>4. \A c \in T : CardOf(c) \in {"usable", "over"}
  BY <1>1 DEF CardOf
<1>5. \A c \in S \ T : CardOf(c) = "revoked"
  BY <1>1 DEF CardOf
<1>6. \A c \in Codes : c \notin S => CardOf(c)' = CardOf(c)
  BY <1>1, <1>2, CardSame
<1>7. \A c \in Codes : voucher'[c].by = voucher[c].by
  BY <1>1 DEF Row
<1>8. [c \in Codes |-> CardOf(c)'] =
         [c \in Codes |-> IF c \in T THEN "revoked" ELSE [d \in Codes |-> CardOf(d)][c]]
  BY <1>3, <1>5, <1>6
<1>9. T \in SUBSET Codes
  OBVIOUS
<1> HIDE DEF T
<1>10. Cards!Revoke(T)
  BY <1>4, <1>7, <1>8, <1>9 DEF Cards!Revoke
<1> QED BY <1>9, <1>10 DEF Cards!Next

LEMMA CardsAdminister ==
    ASSUME IInv, TypeOK',
           \/ \E c \in Codes : RevokeVoucher(c) \/ Lapse(c)
           \/ \E b \in Batches : RevokeVoucherBatch(b)
    PROVE  Cards!Next \/ UNCHANGED Cards!cards
<1>1. voucher \in [Codes -> Row] /\ voucher' \in [Codes -> Row]
  BY DEF IInv, TypeOK
<1>2. ASSUME NEW c \in Codes, RevokeVoucher(c) PROVE Cards!Next
  <2>1. voucher' = [d \in Codes |-> IF d \in {c} THEN [voucher[d] EXCEPT !.revoked = TRUE]
                                    ELSE voucher[d]]
    BY <1>1, <1>2 DEF RevokeVoucher
  <2> QED BY <1>2, <2>1, CardsRevoked DEF RevokeVoucher
<1>3. ASSUME NEW b \in Batches, RevokeVoucherBatch(b) PROVE Cards!Next
  <2> DEFINE S == {c \in Codes : voucher[c].stored /\ voucher[c].batch = b /\ voucher[c].by = Nobody}
  <2>1. voucher' = [d \in Codes |-> IF d \in S THEN [voucher[d] EXCEPT !.revoked = TRUE]
                                    ELSE voucher[d]]
    BY <1>3 DEF RevokeVoucherBatch
  <2>2. S \in SUBSET {c \in Codes : voucher[c].stored /\ voucher[c].by = Nobody}
    OBVIOUS
  <2> HIDE DEF S
  <2> QED BY <1>3, <2>1, <2>2, CardsRevoked DEF RevokeVoucherBatch
<1>4. ASSUME NEW c \in Codes, Lapse(c) PROVE Cards!Next \/ UNCHANGED Cards!cards
  <2>1. /\ UNCHANGED <<calls, given, told>> /\ voucher[c].stored /\ voucher[c].life = "running"
        /\ voucher' = [voucher EXCEPT ![c].life = "over"]
    BY <1>4 DEF Lapse
  <2>2. \A d \in Codes, m \in Devices : Owed(d, m)' <=> Owed(d, m)
    BY <2>1 DEF Owed
  <2>3. \A d \in Codes : /\ voucher'[d].by = voucher[d].by
                         /\ voucher'[d].revoked = voucher[d].revoked
                         /\ voucher'[d].stored = voucher[d].stored
    BY <1>1, <2>1 DEF Row
  <2>4. \A d \in Codes : d # c => CardOf(d)' = CardOf(d)
    BY <1>1, <2>1, <2>2, CardSame
  <2>5. CASE voucher[c].revoked \/ voucher[c].by # Nobody
    <3>1. CardOf(c)' = CardOf(c)
      BY <1>1, <2>1, <2>2, <2>3, <2>5, CardSame
    <3> QED BY <2>1, <2>3, <2>4, <3>1, SameCards
  <2>6. CASE ~voucher[c].revoked /\ voucher[c].by = Nobody
    <3>1. CardOf(c) = "usable" /\ CardOf(c)' = "over"
      BY <1>1, <2>1, <2>3, <2>6 DEF CardOf, Row
    <3>2. [d \in Codes |-> CardOf(d)'] = [[d \in Codes |-> CardOf(d)] EXCEPT ![c] = "over"]
      BY <2>4, <3>1, OneCard
    <3>3. Cards!Lapse(c)
      BY <2>1, <2>3, <3>1, <3>2 DEF Cards!Lapse
    <3> QED BY <3>3 DEF Cards!Next
  <2> QED BY <2>5, <2>6
<1> QED BY <1>2, <1>3, <1>4

LEMMA CardsRedeem ==
    ASSUME IInv, TypeOK', NEW c \in Codes, NEW m \in Devices, RedeemVoucher(c, m)
    PROVE  Cards!Next
<1>1. /\ voucher[c].by = Nobody /\ voucher[c].stored /\ ~voucher[c].revoked
      /\ voucher[c].life # "over"
      /\ voucher' = [voucher EXCEPT ![c].by = m]
      /\ calls' = calls \cup {[pc |-> "extend", code |-> c, mac |-> m]}
      /\ UNCHANGED <<given, told>>
      /\ voucher \in [Codes -> Row] /\ voucher' \in [Codes -> Row]
  BY DEF RedeemVoucher, Unused, IInv, TypeOK
<1>2. \A d \in Codes : d # c => voucher'[d] = voucher[d] /\ \A n \in Devices : Owed(d, n)' <=> Owed(d, n)
  BY <1>1 DEF Owed
<1>3. \A d \in Codes : d # c => CardOf(d)' = CardOf(d)
  BY <1>1, <1>2, CardSame
<1>4. voucher'[c].by = m /\ voucher'[c].stored /\ ~voucher'[c].revoked
  BY <1>1 DEF Row
<1>5. Owed(c, m)'
  BY <1>1 DEF Owed
<1>6. CardOf(c) = "usable" /\ CardOf(c)' = "owed"
  BY <1>1, <1>4, <1>5 DEF CardOf
<1>7. [d \in Codes |-> CardOf(d)'] = [[d \in Codes |-> CardOf(d)] EXCEPT ![c] = "owed"]
  BY <1>3, <1>6, OneCard
<1>8. [d \in Codes |-> voucher'[d].by] = [[d \in Codes |-> voucher[d].by] EXCEPT ![c] = m]
  BY <1>2, <1>4
<1>9. Cards!Redeem(c, m)
  BY <1>1, <1>6, <1>7, <1>8 DEF Cards!Redeem
<1> QED BY <1>9 DEF Cards!Next

(* UpsertMAC gives the days, or they are lost with its error.              *)
LEMMA CardsUpsert ==
    ASSUME IInv, TypeOK', NEW k \in calls, UpsertMAC(k)
    PROVE  Cards!Next
<1>1. /\ k.pc = "extend" /\ k \in Call
      /\ k = [pc |-> "extend", code |-> k.code, mac |-> k.mac]
      /\ Owed(k.code, k.mac) /\ voucher[k.code].by = k.mac /\ given[k.code][k.mac] = 0
  BY OwedAlone DEF UpsertMAC
<1> DEFINE c == k.code
           m == k.mac
           late == [k EXCEPT !.pc = "reread"]
<1>2. c \in Codes /\ m \in Devices /\ late.pc = "reread" /\ UNCHANGED <<voucher, told>>
  BY <1>1 DEF Call, UpsertMAC
<1>3. \/ given' = [given EXCEPT ![c][m] = @ + 1] /\ calls' = (calls \ {k}) \cup {late}
      \/ UNCHANGED given /\ calls' = calls \ {k}
  BY DEF UpsertMAC, Goes, Ends
<1>4. \A d \in Codes, n \in Devices : Owed(d, n)' <=> Owed(d, n) /\ ~(d = c /\ n = m)
  BY <1>1, <1>2, <1>3 DEF Owed
<1>5. /\ voucher \in [Codes -> Row] /\ given \in [Codes -> [Devices -> Nat]]
      /\ voucher[c].stored /\ ~voucher[c].revoked /\ voucher[c].by = m /\ m # Nobody
  BY <1>1, <1>2, CodesAssumption DEF IInv, TypeOK, NeverBoth
<1>6. CardOf(c) = "owed"
  BY <1>1, <1>5 DEF CardOf
<1> HIDE DEF c, m, late
<1>7. \A d \in Codes : d # c => given'[d] = given[d]
  BY <1>2, <1>3, <1>5
<1>8. \A d \in Codes : d # c => CardOf(d)' = CardOf(d)
  <2> SUFFICES ASSUME NEW d \in Codes, d # c PROVE CardOf(d)' = CardOf(d)
    OBVIOUS
  <2>1. voucher[d].by = Nobody \/ voucher[d].by \in Devices
    BY <1>5 DEF Row
  <2>2. voucher[d].by \in Devices => (Owed(d, voucher[d].by)' <=> Owed(d, voucher[d].by))
    BY <1>2, <1>4
  <2>3. given'[d] = given[d]
    BY <1>7
  <2> QED BY <1>2, <2>1, <2>2, <2>3 DEF CardOf
<1>9. CASE given' = [given EXCEPT ![c][m] = @ + 1]
  <2>1. given'[c][m] = 1
    BY <1>1, <1>2, <1>5, <1>9 DEF c, m
  <2>2. ~Owed(c, m)'
    BY <1>2, <1>4
  <2>3. CardOf(c)' = "given"
    BY <1>2, <1>5, <2>1, <2>2 DEF CardOf
  <2>4. [d \in Codes |-> CardOf(d)'] = [[d \in Codes |-> CardOf(d)] EXCEPT ![c] = "given"]
    BY <1>2, <1>8, <2>3, OneCard
  <2>5. [d \in Codes |-> voucher[d].by][c] = m
    BY <1>2, <1>5
  <2>6. Cards!Give(c)
    BY <1>2, <1>6, <1>9, <2>4, <2>5 DEF Cards!Give
  <2> QED BY <1>2, <2>6 DEF Cards!Next
<1>10. CASE UNCHANGED given
  <2>1. given'[c][m] = 0 /\ ~Owed(c, m)'
    BY <1>1, <1>2, <1>4, <1>10 DEF c, m
  <2>2. CardOf(c)' = "lost"
    BY <1>2, <1>5, <2>1 DEF CardOf
  <2>3. [d \in Codes |-> CardOf(d)'] =
          [d \in Codes |-> IF d \in {c} THEN "lost" ELSE [e \in Codes |-> CardOf(e)][d]]
    BY <1>2, <1>8, <2>2
  <2>4. Cards!Lose({c})
    BY <1>2, <1>6, <1>10, <2>3 DEF Cards!Lose
  <2> QED BY <1>2, <2>4 DEF Cards!Next
<1> QED BY <1>3, <1>9, <1>10

(* The rest of the handler: the page is shown for a card that was given.   *)
LEMMA CardsLate ==
    ASSUME IInv, TypeOK', NEW k \in calls, Reread(k) \/ FwAdd(k)
    PROVE  Cards!Next \/ UNCHANGED Cards!cards
<1>1. /\ k \in Call /\ k.pc # "extend" /\ k.code \in Codes /\ k.mac \in Devices
      /\ UNCHANGED <<voucher, given>>
      /\ voucher \in [Codes -> Row] /\ voucher' \in [Codes -> Row]
  BY DEF IInv, TypeOK, Reread, FwAdd, Call
<1> DEFINE next == [k EXCEPT !.pc = "add"]
<1>2. next.pc = "add" /\ (calls' = calls \ {k} \/ calls' = (calls \ {k}) \cup {next})
  BY <1>1 DEF Reread, FwAdd, Ends, Goes, Call
<1>3. \A d \in Codes, n \in Devices : Owed(d, n)' <=> Owed(d, n)
  BY <1>1, <1>2 DEF Owed
<1>4. \A d \in Codes : CardOf(d)' = CardOf(d)
  BY <1>1, <1>3, CardSame
<1>5. CASE told' = told
  BY <1>1, <1>4, <1>5, SameCards
<1>6. CASE told' = told \cup {k.code}
  <2>1. given[k.code][k.mac] = 1
    BY <1>1 DEF IInv, LateIsGiven
  <2>2. Counted(k.code, k.mac) = IF voucher[k.code].by = k.mac THEN 1 ELSE 0
    BY <1>1 DEF IInv, Ledger
  <2>3. lost[k.code][k.mac] \in Nat
    BY <1>1 DEF IInv, TypeOK
  <2>4. voucher[k.code].by = k.mac /\ ~Owed(k.code, k.mac)
    BY <2>1, <2>2, <2>3 DEF Counted
  <2>5. CardOf(k.code) = "given"
    BY <1>1, <2>1, <2>4, CodesAssumption DEF CardOf, IInv, NeverBoth
  <2>6. [d \in Codes |-> CardOf(d)'] = [d \in Codes |-> CardOf(d)]
    BY <1>4
  <2>7. Cards!Tell(k.code)
    BY <1>1, <1>6, <2>5, <2>6 DEF Cards!Tell
  <2> QED BY <1>1, <2>7 DEF Cards!Next
<1> QED BY <1>5, <1>6 DEF Reread, FwAdd

(* A crash loses what is owed, of however many cards.                      *)
LEMMA CardsCrash ==
    ASSUME IInv, Crash
    PROVE  Cards!Next
<1> DEFINE S == {c \in Codes : CardOf(c) = "owed"}
<1>1. UNCHANGED <<voucher, given, told>> /\ voucher \in [Codes -> Row]
      /\ \A c \in Codes, m \in Devices : ~Owed(c, m)'
  BY DEF Crash, IInv, TypeOK, Owed
<1>2. ASSUME NEW c \in Codes
      PROVE  CardOf(c)' = IF c \in S THEN "lost" ELSE CardOf(c)
  <2>1. CASE voucher[c].by = Nobody
    BY <1>1, <2>1 DEF CardOf
  <2>2. CASE voucher[c].by # Nobody
    <3>1. voucher[c].by \in Devices /\ voucher[c].stored /\ ~voucher[c].revoked
      BY <1>1, <2>2 DEF Row, IInv, NeverBoth
    <3>2. ~Owed(c, voucher[c].by)'
      BY <1>1, <3>1
    <3>3. CardOf(c)' = IF given[c][voucher[c].by] = 1 THEN "given" ELSE "lost"
      BY <1>1, <2>2, <3>1, <3>2 DEF CardOf
    <3>4. CASE Owed(c, voucher[c].by)
      <4>1. Counted(c, voucher[c].by) = 1
        BY <3>1 DEF IInv, Ledger
      <4>2. given[c][voucher[c].by] \in Nat /\ lost[c][voucher[c].by] \in Nat
        BY <3>1 DEF IInv, TypeOK
      <4>3. given[c][voucher[c].by] = 0
        BY <3>4, <4>1, <4>2 DEF Counted
      <4>4. CardOf(c) = "owed"
        BY <2>2, <3>1, <3>4 DEF CardOf
      <4> QED BY <3>3, <4>3, <4>4
    <3>5. CASE ~Owed(c, voucher[c].by)
      BY <2>2, <3>1, <3>3, <3>5 DEF CardOf
    <3> QED BY <3>4, <3>5
  <2> QED BY <2>1, <2>2
<1>3. [c \in Codes |-> CardOf(c)'] =
         [c \in Codes |-> IF c \in S THEN "lost" ELSE [d \in Codes |-> CardOf(d)][c]]
  BY <1>2
<1>4. \A c \in S : [d \in Codes |-> CardOf(d)][c] = "owed"
  OBVIOUS
<1>5. S \in SUBSET Codes
  OBVIOUS
<1> HIDE DEF S
<1>6. Cards!Lose(S)
  BY <1>1, <1>3, <1>4 DEF Cards!Lose
<1> QED BY <1>5, <1>6 DEF Cards!Next

LEMMA CardsStep == IInv /\ [Next]_vars => [Cards!Next]_(Cards!cards)
<1> SUFFICES ASSUME IInv, [Next]_vars PROVE Cards!Next \/ UNCHANGED Cards!cards
  OBVIOUS
<1>0. TypeOK'
  BY NextIInv DEF IInv
<1>1. ASSUME UNCHANGED <<voucher, calls, given, told>> PROVE UNCHANGED Cards!cards
  <2>1. \A d \in Codes : CardOf(d)' = CardOf(d)
    BY <1>1 DEF CardOf, Owed
  <2> QED BY <1>1, <2>1, SameCards
<1>2. ASSUME \/ \E S \in SUBSET Valid, b \in Batches, life \in Life \ {"over"} : Generate(S, b, life)
             \/ \E l \in Line : Import(l)
             \/ \E m \in Devices : DeleteMAC(m)
             \/ UNCHANGED vars
      PROVE  UNCHANGED Cards!cards
  BY <1>1, <1>2 DEF Generate, Import, DeleteMAC, vars
<1>3. CASE \E l \in lines : CreateVoucher(l)
  BY <1>0, <1>3, CardsStock
<1>4. CASE \/ \E c \in Codes : RevokeVoucher(c) \/ Lapse(c)
           \/ \E b \in Batches : RevokeVoucherBatch(b)
  BY <1>0, <1>4, CardsAdminister
<1>5. CASE \E c \in Codes, m \in Devices : RedeemVoucher(c, m)
  BY <1>0, <1>5, CardsRedeem
<1>6. CASE \E k \in calls : UpsertMAC(k) \/ Reread(k) \/ FwAdd(k)
  BY <1>0, <1>6, CardsUpsert, CardsLate
<1>7. CASE Crash
  BY <1>7, CardsCrash
<1> QED BY <1>2, <1>3, <1>4, <1>5, <1>6, <1>7 DEF Next

(* Voucher implements CardBook: the two transactions of a redemption, with *)
(* other customers, revocations, deletions of the device and crashes       *)
(* between them, are cards that are printed, redeemed, worth their days    *)
(* and confirmed, each once and in this order.                             *)
THEOREM ImplementsCardBook == Spec => KeepsTheCards
<1>1. Init => Cards!Init
  <2> SUFFICES ASSUME Init PROVE Cards!Init
    OBVIOUS
  <2>1. \A c \in Codes : CardOf(c) = "none" /\ voucher[c].by = Nobody
    BY DEF Init, CardOf
  <2> QED BY <2>1 DEF Init, Cards!Init
<1> QED BY <1>1, IInvHolds, CardsStep, PTL DEF Spec, KeepsTheCards, Cards!Spec
=============================================================================
